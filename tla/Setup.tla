--------------------------------- MODULE Setup ---------------------------------
(***************************************************************************)
(* Setting up worlds: plugins (PluginRegistry) and the components they and *)
(* their client register (RequiredComponents).  A plugin type gets its id  *)
(* from a counter of the whole process when it is first used; a world only *)
(* remembers the last id it has built.  T::build runs inside               *)
(* registerPlugin and may register plugins and components.                 *)
(***************************************************************************)
EXTENDS Integers, RequiredComponents

CONSTANTS
    World, Plugin,
    Steps,   \* the plugins and components that T::build registers, in order
    Lists    \* what Component::required() may return: no component twice

SetupAssumption ==
    /\ Steps \in [Plugin -> Seq(Plugin \cup ComponentType)]
    /\ Lists \subseteq {list \in Seq(ComponentType) : IsInjective(list)}

VARIABLES
    direct,        \* Component::required() of every component type
    registry,      \* the component registry of each world
    ids,           \* TypeCounter: the plugins in the order of their ids 0, 1, ..
    pluginCount,   \* PluginRegistry::count of each world
    building,      \* of each world: the steps left to each running T::build, the
                   \* innermost one last
    told,          \* history: the plugins each world was told to register
    built          \* history: the plugins each world has begun to build, in order

pluginVars == <<ids, pluginCount, told, built>>
setupVars == <<direct, registry, building, pluginVars>>

RegistriesTyped ==
    /\ direct \in [ComponentType -> Lists]
    /\ registry \in [World -> Registry]

PluginsTyped ==
    /\ ids \in Seq(Plugin)
    /\ pluginCount \in [World -> -1 .. Len(ids) - 1]
    /\ building \in [World -> Seq(Seq(Plugin \cup ComponentType))]
    /\ told \in [World -> SUBSET Plugin]
    /\ built \in [World -> Seq(Plugin)]

-----------------------------------------------------------------------------
(* Plugins *)

\* Counter::id<T>(): a new plugin type takes the next id.
IdsWith(p) == IF p \in Range(ids) THEN ids ELSE Append(ids, p)

PluginId(p) == (CHOOSE j \in DOMAIN IdsWith(p) : IdsWith(p)[j] = p) - 1

\* The last id built.
Marked(w, p) == [pluginCount EXCEPT ![w] = PluginId(p)]

\* Wrong: a world that has built nothing counts as having built id 0.
SkippedFromZero(w, p) == Max({pluginCount[w], 0}) >= PluginId(p)

\* Ids up to the last one built count as built.
Skipped(w, p) == pluginCount[w] >= PluginId(p)

\* registerPlugin up to the call of T::build; outer is what the builds that are
\* running have left.
PlugIn(w, p, outer) ==
    /\ ids' = IdsWith(p)
    /\ told' = [told EXCEPT ![w] = @ \cup {p}]
    /\ IF Skipped(w, p)
       THEN building' = [building EXCEPT ![w] = outer] /\ UNCHANGED <<pluginCount, built>>
       ELSE /\ pluginCount' = Marked(w, p)
            /\ built' = [built EXCEPT ![w] = Append(@, p)]
            /\ building' = [building EXCEPT ![w] = Append(outer, Steps[p])]
    /\ UNCHANGED registry

\* registerComponent; what its assertions reject aborts the program.
AddRecord(w, c, outer) ==
    /\ Accepted(registry[w], c, direct[c])
    /\ registry' = [registry EXCEPT ![w] = WithComponent(@, c, direct[c])]
    /\ building' = [building EXCEPT ![w] = outer]
    /\ UNCHANGED pluginVars

-----------------------------------------------------------------------------
(* Operations *)

SetupInit ==
    /\ direct \in [ComponentType -> Lists]
    /\ registry = [w \in World |-> NoRecords]
    /\ ids = << >>
    /\ pluginCount = [w \in World |-> -1]
    /\ building = [w \in World |-> << >>]
    /\ told = [w \in World |-> {}]
    /\ built = [w \in World |-> << >>]

Idle == \A w \in World : building[w] = << >>

RegisterPlugin(w, p) == Idle /\ PlugIn(w, p, << >>) /\ UNCHANGED direct

RegisterComponent(w, c) ==
    /\ Idle /\ c \notin registry[w].registered
    /\ AddRecord(w, c, << >>)
    /\ UNCHANGED direct

Left(w) == building[w][Len(building[w])]

\* The innermost build takes its next step.
BuildStep(w) ==
    /\ building[w] # << >> /\ Left(w) # << >>
    /\ LET outer == [building[w] EXCEPT ![Len(building[w])] = Tail(@)]
       IN  \/ Head(Left(w)) \in Plugin /\ PlugIn(w, Head(Left(w)), outer)
           \/ Head(Left(w)) \in ComponentType /\ AddRecord(w, Head(Left(w)), outer)
    /\ UNCHANGED direct

BuildReturns(w) ==
    /\ building[w] # << >> /\ Left(w) = << >>
    /\ building' = [building EXCEPT ![w] = Front(@)]
    /\ UNCHANGED <<direct, registry, pluginVars>>

SetupNext ==
    \E w \in World :
        \/ \E p \in Plugin : RegisterPlugin(w, p)
        \/ \E c \in ComponentType : RegisterComponent(w, c)
        \/ BuildStep(w)
        \/ BuildReturns(w)

SetupSpec == SetupInit /\ [][SetupNext]_setupVars

-----------------------------------------------------------------------------
(* The discipline under which nothing is missed *)

\* Each world registers a plugin after every plugin with a smaller id, and a
\* component after those it requires.
PluginInOrder(w, p) == \A j \in DOMAIN ids : j <= PluginId(p) => ids[j] \in told[w]
ComponentInOrder(w, c) == Range(direct[c]) \subseteq registry[w].registered

StepInOrder(w) ==
    /\ building[w] # << >> /\ Left(w) # << >>
    /\ Head(Left(w)) \in Plugin => PluginInOrder(w, Head(Left(w)))
    /\ Head(Left(w)) \in ComponentType => ComponentInOrder(w, Head(Left(w)))

InOrderNext ==
    \E w \in World :
        \/ \E p \in Plugin : PluginInOrder(w, p) /\ RegisterPlugin(w, p)
        \/ \E c \in ComponentType : ComponentInOrder(w, c) /\ RegisterComponent(w, c)
        \/ StepInOrder(w) /\ BuildStep(w)
        \/ BuildReturns(w)

InOrderSpec == SetupInit /\ [][InOrderNext]_setupVars

-----------------------------------------------------------------------------
(* Safety *)

\* No world builds a plugin twice, whatever registers it again.
BuiltOnce == \A w \in World : IsInjective(built[w])

\* A world has begun to build every plugin it was told to register.
WantedIsBuilt == \A w \in World : told[w] \subseteq Range(built[w])

\* Every plugin a world was told to register is built, and none twice.
PluginsBuilt == PluginsTyped /\ WantedIsBuilt /\ BuiltOnce

\* What c requires, directly or not.
Requires(c) == Needed(direct, c)

\* A record lists everything its component requires, once, wherever in the
\* nesting of builds it was registered.
RequiredIsClosure ==
    /\ RegistriesTyped
    /\ \A w \in World : \A c \in registry[w].registered :
          LET list == registry[w].required[c] meant == Requires(c)
          IN  Range(list) = meant /\ Len(list) = Cardinality(meant)

-----------------------------------------------------------------------------
(* What is expected of registrations in any order *)

\* No registered component requires itself, directly or through others: the
\* registration that would close a cycle fails the assertion of hasCycle.
NoCycleAccepted ==
    \A w \in World : \A c \in registry[w].registered :
        c \notin Range(registry[w].required[c])
=============================================================================
