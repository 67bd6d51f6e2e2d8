------------------------------- MODULE MCParts -------------------------------
(***************************************************************************)
(* One run for the parts of the engine that are correct by themselves:     *)
(* containers, the arrays of types and queries, the event registries, and  *)
(* the registries of plugins and components.  A behaviour is about one of  *)
(* them, the subject, and leaves what belongs to the others as it was at   *)
(* first.                                                                  *)
(***************************************************************************)
EXTENDS EntityTypes, Vectors, SparseArrays, QueryTerms, Events, EntityEvents, Setup

CONSTANTS render, window, audio   \* the plugins

VARIABLE subject

ASSUME PartsAssumption ==
    /\ EntityTypesAssumption /\ VectorsAssumption /\ SparseAssumption
    /\ QueryTermsAssumption /\ EventsAssumption /\ EntityEventsAssumption
    /\ SetupAssumption /\ RequiredAssumption

-----------------------------------------------------------------------------
(* Small instances *)

ManyIds == 1 .. 8
FarIds == {0, 1, 3, 4, 9}
FewIds == 0 .. 3
TwoWords == {0, 2}
Three == 0 .. 2

\* Rendering and windows name each other; each plugin brings a component.
PluginSteps ==
    (render :> <<window, 1>>) @@ (window :> <<0, render>>) @@ (audio :> <<2>>)

\* Up to two requirements, in one order.
ShortLists ==
    {<< >>} \cup {<<i>> : i \in Three}
        \cup {<<i[1], i[2]>> : i \in {j \in Three \X Three : j[1] > j[2]}}

OwnersAlike == Permutations(Owner)

-----------------------------------------------------------------------------

state == <<typeVars, vectorVars, sparseVars, termVars, eventVars, entityEventVars, setupVars>>

PartsInit ==
    /\ subject \in {"types", "vectors", "sparse", "terms", "events", "entity events", "setup"}
    /\ TypesInit /\ VectorsInit /\ SparseInit /\ TermsInit /\ EventsInit /\ EntityEventsInit
    /\ SetupInit
    /\ subject # "setup" => direct = [c \in ComponentType |-> << >>]

TypesStep ==
    /\ subject = "types" /\ TypesNext
    /\ UNCHANGED <<subject, vectorVars, sparseVars, termVars, eventVars, entityEventVars, setupVars>>

VectorsStep ==
    /\ subject = "vectors" /\ VectorsNext
    /\ UNCHANGED <<subject, typeVars, sparseVars, termVars, eventVars, entityEventVars, setupVars>>

SparseStep ==
    /\ subject = "sparse" /\ SparseNext
    /\ UNCHANGED <<subject, typeVars, vectorVars, termVars, eventVars, entityEventVars, setupVars>>

TermsStep ==
    /\ subject = "terms" /\ TermsNext
    /\ UNCHANGED <<subject, typeVars, vectorVars, sparseVars, eventVars, entityEventVars, setupVars>>

EventsStep ==
    /\ subject = "events" /\ StackNext
    /\ UNCHANGED <<subject, typeVars, vectorVars, sparseVars, termVars, entityEventVars, setupVars>>

EntityEventsStep ==
    /\ subject = "entity events" /\ EntityEventsNext
    /\ UNCHANGED <<subject, typeVars, vectorVars, sparseVars, termVars, eventVars, setupVars>>

SetupStep ==
    /\ subject = "setup" /\ InOrderNext
    /\ UNCHANGED <<subject, typeVars, vectorVars, sparseVars, termVars, eventVars, entityEventVars>>

PartsNext ==
    TypesStep \/ VectorsStep \/ SparseStep \/ TermsStep \/ EventsStep \/ EntityEventsStep
        \/ SetupStep

PartsSpec == PartsInit /\ [][PartsNext]_<<subject, state>>
=============================================================================
