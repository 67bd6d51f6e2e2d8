----------------------------- MODULE MCCallbacks -----------------------------
(***************************************************************************)
(* One run for the two ways in which client code gets control in the       *)
(* middle of the engine's work: loops over queries and component hooks.    *)
(* A behaviour is about one of them, the subject, and leaves what belongs  *)
(* to the other alone.                                                     *)
(***************************************************************************)
EXTENDS Hooks, Iteration

CONSTANTS target, source, pos   \* the components

VARIABLE subject

ASSUME CallbacksAssumption == IterationAssumption /\ HooksAssumption

Queries == {[with |-> {pos}, without |-> {target}], [with |-> {target}, without |-> {}],
            [with |-> {}, without |-> {source}]}

\* One table is missing at the start.
AllButOne == (SUBSET {target, source, pos}) \ {{target, pos}}

NoHooks == [onAdd |-> "none", onSet |-> "none", onRemove |-> "none"]

loopState == <<tables, loops, changes>>

CallbacksInit ==
    \/ subject = "loops" /\ LoopInit /\ hooks = NoHooks
    \/ subject = "hooks" /\ HooksInit /\ tables = Existing /\ loops = << >> /\ changes = 0

CallbacksNext ==
    \/ subject = "loops" /\ LoopNext /\ UNCHANGED <<subject, hooks>>
    \/ subject = "hooks" /\ HooksNext /\ UNCHANGED <<subject, loopState>>

CallbacksSpec == CallbacksInit /\ [][CallbacksNext]_<<subject, opVars, hooks, loopState>>

\* Bounds: what follows a second destruction is not explored, nor more than three
\* entities in a behaviour.  With a third record a loop is the only one and there
\* is one change during it; a loop over all tables has no other inside it; a
\* component has one of the onSet and onAdd hooks, and an onRemove hook besides
\* only where the other is none or causes removals.
Few ==
    /\ Cardinality(dead) <= 1 /\ Cardinality(live \cup dead) <= 3
    /\ Len(rec) <= 2 \/ (Len(loops) <= 1 /\ changes <= 1)
    /\ loops # << >> /\ loops[1].query.with = {} => Len(loops) = 1
    /\ subject = "hooks" =>
          /\ hooks.onSet = "none" \/ hooks.onAdd = "none"
          /\ \/ hooks.onRemove = "none"
             \/ {hooks.onSet, hooks.onAdd} \subseteq {"none", "removeSelf", "destroy"}
=============================================================================
