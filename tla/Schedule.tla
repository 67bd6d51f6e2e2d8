------------------------------- MODULE Schedule -------------------------------
(***************************************************************************)
(* SystemRegistry and World::start, progress and run: the systems of each  *)
(* phase in order, their conditions, and the flush that ends a phase, one  *)
(* command at a time.  Module Commands says what the commands do to the    *)
(* world; here a command is a number, and what counts is when it is        *)
(* executed.  Executing one runs hooks, which may issue further commands.  *)
(***************************************************************************)
EXTENDS Naturals, FiniteSets, SequencesExt

CONSTANTS
    State,          \* the values of one singleton that InState looks at
    Default,        \* its default
    UsedPhases,     \* phases that systems are registered for
    Wishes,         \* the lists of values a system may ask for, one InState each
    MaxSystems,     \* bound on registered systems
    MaxObjects,     \* bound on initSingleton calls
    MaxCommands     \* bound on the commands of one phase

StartPhases == <<"PreStartup", "Startup", "PostStartup">>
ProgressPhases ==
    <<"PreUpdate", "Update", "PostUpdate", "Physics", "PreRender", "Render">>
Phase == Range(StartPhases) \cup Range(ProgressPhases)
Kind == {"add", "remove", "set", "kill"}

\* Wrong: kills come first.
KillsFirstSequence == <<"kill", "add", "remove", "set">>

\* The order in which flush takes the queues.
FlushSequence == <<"add", "remove", "set", "kill">>

ASSUME ScheduleAssumption ==
    /\ Default \in State
    /\ UsedPhases \subseteq Phase
    /\ Wishes \subseteq Seq(State)
    /\ MaxSystems \in Nat /\ MaxObjects \in Nat \ {0} /\ MaxCommands \in Nat

VARIABLES
    systems,    \* of each phase, the SystemRecords
    objects,    \* every T that initSingleton<T> has allocated; the last is the singleton
    called,     \* the phases of the latest start or progress
    todo,       \* those not finished; the first is running
    turn,       \* how many of its systems have had their turn
    loop,       \* 0 while systems run, then which queue is being flushed
    reached,    \* how far that loop has come
    queues,     \* Commands::adds, removes, sets and kills
    issued,     \* history: commands issued since the last flush
    executed,   \* history: commands executed by the latest flush
    ran         \* history: systems run since start or progress was called

vars == <<systems, objects, called, todo, turn, loop, reached, queues, issued,
          executed, ran>>
client == <<systems, objects>>
position == <<called, todo, turn, loop, reached>>

Condition == [value : State, object : 1 .. MaxObjects]
System == [id : 1 .. MaxSystems, conditions : Seq(Condition)]

TypeOK ==
    /\ systems \in [Phase -> Seq(System)]
    /\ objects \in Seq(State) /\ Len(objects) \in 1 .. MaxObjects
    /\ IsSuffix(todo, called)
    /\ todo # << >> => turn <= Len(systems[Head(todo)])
    /\ loop # 0 => /\ todo # << >>
                   /\ reached <= Len(queues[FlushSequence[loop]])
    /\ queues \in [Kind -> Seq(1 .. issued)]
    /\ issued <= MaxCommands

Idle == todo = << >>
Singleton == objects[Len(objects)]

-----------------------------------------------------------------------------
(* Conditions *)

\* Wrong: the pointer stays with the T that was allocated first.
BuiltOnFirst(value) == [value |-> value, object |-> 1]

\* InState::condition takes the address of the singleton there is now.
Built(value) == [value |-> value, object |-> Len(objects)]

Check(cond) == objects[cond.object] = cond.value

\* Wrong: the last condition decides.
LastDecides(sys) == sys.conditions # << >> => Check(Last(sys.conditions))

ShouldRun(sys) == \A cond \in Range(sys.conditions) : Check(cond)

-----------------------------------------------------------------------------
(* Commands *)

Issue(k) ==
    /\ issued < MaxCommands
    /\ queues' = [queues EXCEPT ![k] = Append(@, issued + 1)]
    /\ issued' = issued + 1

\* What one system or one hook may do, at most one command each.
MayIssue(kinds) ==
    \/ UNCHANGED <<queues, issued>>
    \/ \E k \in kinds : Issue(k)

-----------------------------------------------------------------------------
(* Between frames *)

Init ==
    /\ systems = [p \in Phase |-> << >>]
    /\ objects = <<Default>>
    /\ called = << >> /\ todo = << >> /\ turn = 0 /\ loop = 0 /\ reached = 0
    /\ queues = [k \in Kind |-> << >>]
    /\ issued = 0 /\ executed = << >> /\ ran = << >>

Registered == UNION {Range(systems[p]) : p \in Phase}

\* World::system with the conditions built on the way.
RegisterSystem(p, wish) ==
    LET n == Cardinality({sys.id : sys \in Registered})
    IN  /\ Idle
        /\ n < MaxSystems
        /\ systems' = [systems EXCEPT ![p] = Append(@,
              [id |-> n + 1, conditions |-> [j \in DOMAIN wish |-> Built(wish[j])]])]
        /\ UNCHANGED <<objects, position, queues, issued, executed, ran>>

\* initSingleton of what is there already: the old T is neither destroyed nor
\* told to those who point at it.  Done only while no InState points at one.
InitSingleton ==
    /\ Idle
    /\ Len(objects) < MaxObjects
    /\ \A sys \in Registered : sys.conditions = << >>
    /\ objects' = Append(objects, Default)
    /\ UNCHANGED <<systems, position, queues, issued, executed, ran>>

ClientIssue(k) ==
    /\ Idle
    /\ Issue(k)
    /\ UNCHANGED <<client, position, executed, ran>>

Call(phases) ==
    /\ Idle
    /\ called' = phases /\ todo' = phases /\ turn' = 0
    /\ ran' = << >>
    /\ UNCHANGED <<client, loop, reached, queues, issued, executed>>

Start == Call(StartPhases)
Progress == Call(ProgressPhases)

-----------------------------------------------------------------------------
(* Running a phase *)

Running == ~Idle /\ loop = 0
Current == systems[Head(todo)][turn + 1]

\* Its function may assign the singleton and issue commands.
RunSystem ==
    /\ Running /\ turn < Len(systems[Head(todo)])
    /\ ShouldRun(Current)
    /\ turn' = turn + 1
    /\ ran' = Append(ran, Current.id)
    /\ \E s \in State : objects' = [objects EXCEPT ![Len(objects)] = s]
    /\ MayIssue(Kind)
    /\ UNCHANGED <<systems, called, todo, loop, reached, executed>>

\* Wrong: a condition that fails ends the phase's systems.
SkipTheRest ==
    /\ Running /\ turn < Len(systems[Head(todo)])
    /\ ~ShouldRun(Current)
    /\ turn' = Len(systems[Head(todo)])
    /\ UNCHANGED <<client, called, todo, loop, reached, queues, issued, executed, ran>>

SkipSystem ==
    /\ Running /\ turn < Len(systems[Head(todo)])
    /\ ~ShouldRun(Current)
    /\ turn' = turn + 1
    /\ UNCHANGED <<client, called, todo, loop, reached, queues, issued, executed, ran>>

BeginFlush ==
    /\ Running /\ turn = Len(systems[Head(todo)])
    /\ loop' = 1 /\ reached' = 0 /\ executed' = << >>
    /\ UNCHANGED <<client, called, todo, turn, queues, issued, ran>>

Queue == queues[FlushSequence[loop]]

\* The discipline of the hooks: they issue commands of the kinds flush has yet
\* to come to.  A loop over a queue does not see what is appended to it, nor
\* does one that is over, and the queue is emptied all the same.
StillToCome ==
    CASE FlushSequence[loop] = "add" -> {"remove", "set", "kill"}
      [] FlushSequence[loop] = "remove" -> {"set", "kill"}
      [] FlushSequence[loop] = "set" -> {"kill"}
      [] OTHER -> {}

\* One command and the hooks it runs.
ExecuteCommand ==
    /\ loop # 0 /\ reached < Len(Queue)
    /\ reached' = reached + 1
    /\ executed' = Append(executed, Queue[reached + 1])
    /\ MayIssue(StillToCome)
    /\ UNCHANGED <<client, called, todo, turn, loop, ran>>

NextLoop ==
    /\ loop \in 1 .. Len(FlushSequence) - 1 /\ reached = Len(Queue)
    /\ loop' = loop + 1 /\ reached' = 0
    /\ UNCHANGED <<client, called, todo, turn, queues, issued, executed, ran>>

\* Wrong: one queue is forgotten when they are emptied.
KillsKept ==
    /\ loop = Len(FlushSequence) /\ reached = Len(Queue)
    /\ queues' = [k \in Kind |-> IF k = "kill" THEN queues[k] ELSE << >>]
    /\ issued' = 0
    /\ loop' = 0 /\ reached' = 0 /\ todo' = Tail(todo) /\ turn' = 0
    /\ UNCHANGED <<client, called, executed, ran>>

\* The queues are emptied, and the next phase is run.
EndFlush ==
    /\ loop = Len(FlushSequence) /\ reached = Len(Queue)
    /\ queues' = [k \in Kind |-> << >>]
    /\ issued' = 0
    /\ loop' = 0 /\ reached' = 0 /\ todo' = Tail(todo) /\ turn' = 0
    /\ UNCHANGED <<client, called, executed, ran>>

Step ==
    \/ RunSystem \/ SkipSystem
    \/ BeginFlush \/ ExecuteCommand \/ NextLoop \/ EndFlush

Next ==
    \/ \E p \in UsedPhases, wish \in Wishes : RegisterSystem(p, wish)
    \/ \E k \in Kind : ClientIssue(k)
    \/ InitSingleton \/ Start \/ Progress
    \/ Step

\* Functions of systems and hooks return, and run() calls progress for ever.
Fairness == WF_vars(Step) /\ SF_vars(Progress)

Spec == Init /\ [][Next]_vars /\ Fairness

-----------------------------------------------------------------------------
(* Safety *)

\* The systems of the phases called: the phase's place among them and the system's
\* in the phase.
Places ==
    UNION {{<<i, j>> : j \in DOMAIN systems[called[i]]} : i \in DOMAIN called}

SystemAt(x) == systems[called[x[1]]][x[2]]

Earlier(x, y) == x[1] < y[1] \/ (x[1] = y[1] /\ x[2] < y[2])

RunsOf(x) == {k \in DOMAIN ran : ran[k] = SystemAt(x).id}

\* When start or progress returns, each of its systems without conditions has run,
\* none has run twice, and all that have ran phase by phase in the order they were
\* registered, whatever the conditions of their neighbours were and whatever they did.
FrameComplete ==
    [][~Idle /\ Idle' =>
        /\ \A x \in Places : SystemAt(x).conditions = << >> => RunsOf(x) # {}
        /\ \A x \in Places : \A k, l \in RunsOf(x) : k = l
        /\ \A x, y \in Places : Earlier(x, y) =>
               \A k \in RunsOf(x), l \in RunsOf(y) : k < l]_vars

\* A flush that ends has executed every command issued since the last one, by
\* systems, by the client and by its own hooks, once each, and the kills last.
FlushComplete ==
    [][loop # 0 /\ loop' = 0 =>
        LET kills == Range(queues["kill"])
        IN  /\ Len(executed) = issued
            /\ Range(executed) = 1 .. issued
            /\ \A i, j \in DOMAIN executed :
                  executed[i] \in kills /\ executed[j] \notin kills => j < i]_vars

\* Whether a system runs is decided by the singleton as it is at its turn.
DecidedByState ==
    [][turn' = turn + 1 =>
        (ran' # ran <=>
            \A cond \in Range(Current.conditions) : Singleton = cond.value)]_vars

-----------------------------------------------------------------------------
(* Liveness *)

\* System n is run by progress, and its conditions hold of the singleton.
Eligible(n) ==
    \E p \in Range(ProgressPhases) : \E sys \in Range(systems[p]) :
        /\ sys.id = n
        /\ \A cond \in Range(sys.conditions) : cond.value = Singleton

\* A system whose state lasts is run again and again.
LastingStateRuns ==
    \A n \in 1 .. MaxSystems :
        <>[]Eligible(n) => []<>(n \in Range(ran))
=============================================================================
