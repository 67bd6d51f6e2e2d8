------------------------------ MODULE Relations ------------------------------
(***************************************************************************)
(* Entity relations: a child's RelationTarget component names its parent,  *)
(* a parent's RelationSource component lists its children, and component   *)
(* hooks keep the two in step.                                             *)
(***************************************************************************)
EXTENDS Operations

CONSTANTS
    RelationTarget, RelationSource    \* the two component ids of one relation

ASSUME RelationsAssumption ==
    /\ RelationTarget \in Component /\ RelationSource \in Component
    /\ RelationTarget # RelationSource

-----------------------------------------------------------------------------
(* The hooks *)

\* EcsVec::remove: the first occurrence goes, the last element takes its place.
RemoveFrom(list, x) ==
    IF \E j \in DOMAIN list : list[j] = x
    THEN SwapRemove(list, CHOOSE j \in DOMAIN list :
                             list[j] = x /\ \A k \in 1 .. j - 1 : list[k] # x)
    ELSE list

\* removeComponent of the RelationSource of p, whose hook frees the list.
RemoveSource(st, p) ==
    IF RelationSource \notin TypeIn(st, p) THEN st
    ELSE MoveTo(Put(st, p, RelationSource, << >>), p,
                TypeIn(st, p) \ {RelationSource})

\* Wrong: the parent's list is removed although other children are on it.
LeaveAndRemove(st, c) ==
    IF ~Readable(st, c, RelationTarget) THEN Abort(st)
    ELSE LET p == Get(st, c, RelationTarget)
         IN  IF ~Readable(st, p, RelationSource) THEN Abort(st)
             ELSE RemoveSource(st, p)

\* RelationTarget::onRemove, and the first half of RelationTarget::onSet:
\* child c leaves the list of its parent, an emptied list is removed.
LeaveParent(st, c) ==
    IF ~Readable(st, c, RelationTarget) THEN Abort(st)
    ELSE LET p == Get(st, c, RelationTarget)
         IN  IF ~Readable(st, p, RelationSource) THEN Abort(st)
             ELSE LET list == RemoveFrom(Get(st, p, RelationSource), c)
                      st1 == Put(st, p, RelationSource, list)
                  IN  IF list = << >> THEN RemoveSource(st1, p) ELSE st1

\* The second half of RelationTarget::onSet: child c joins the list of p.
JoinParent(st, c, p) ==
    IF ~(st.ok /\ AliveIn(st, p)) THEN Abort(st)
    ELSE IF RelationSource \in TypeIn(st, p)
         THEN Put(st, p, RelationSource, Append(Get(st, p, RelationSource), c))
         ELSE Put(AddIn(st, p, RelationSource), p, RelationSource, <<c>>)

\* Wrong: a child with a parent does not leave that parent's list.
RelateWithoutLeaving(st, c, p) ==
    LET joined == JoinParent(st, c, p)
    IN  IF joined.ok THEN Put(AddIn(joined, c, RelationTarget), c, RelationTarget, p)
        ELSE joined

\* World::relate: setComponent runs the hook, then adds and writes the target.
RelateIn(st, c, p) ==
    LET left == IF RelationTarget \in TypeIn(st, c) THEN LeaveParent(st, c) ELSE st
        joined == JoinParent(left, c, p)
    IN  IF joined.ok THEN Put(AddIn(joined, c, RelationTarget), c, RelationTarget, p)
        ELSE joined

\* removeComponent of the RelationTarget of c.
RemoveTargetIn(st, c) == RemoveIn(st, LeaveParent(st, c), c, RelationTarget)

\* destroyEntity: the hooks of the table h is in, in component id order.
DestroyIn(st, h) ==
    LET t == TypeIn(st, h)
        left == IF RelationTarget \in t THEN LeaveParent(st, h) ELSE st
        freed == IF RelationSource \notin t THEN left
                 ELSE IF Readable(left, h, RelationSource)
                      THEN Put(left, h, RelationSource, << >>) ELSE Abort(left)
    IN  RetireIn(st, freed, h)

-----------------------------------------------------------------------------
(* Operations of the client *)

Relate(c, p) == Usable(c) /\ Becomes(RelateIn(Store, c, p))

\* World::unrelate returns early unless p is the target of c.
HasTarget(c, p) ==
    Readable(Store, c, RelationTarget) /\ Get(Store, c, RelationTarget) = p

Unrelate(c, p) ==
    Usable(c) /\ HasTarget(c, p) /\ Becomes(RemoveTargetIn(Store, c))

Destroy(h) == Usable(h) /\ Becomes(DestroyIn(Store, h))

\* Components without hooks come and go as in Storage.
Plain(h) ==
    /\ \E c \in Component \ {RelationTarget, RelationSource} :
          \/ RemoveComponent(h, c)
          \/ AddComponent(h, c, Unspecified)
    /\ UNCHANGED aborted

\* Indices do not wrap and table 0 is left alone: those limits of Storage are
\* not the subject here.
DestroyUnlisted(h) ==
    /\ h.generation < Generations - 1
    /\ ~(TypeOf(h) = RootType /\ Listed(h))
    /\ Destroy(h)

IsParent(h) == RelationSource \in TypeOf(h)
Children(p) == IF IsParent(p) THEN Get(Store, p, RelationSource) ELSE << >>

RelationNext ==
    /\ ~aborted
    /\ \/ Create
       \/ \E h \in live :
            \/ DestroyUnlisted(h)
            \/ Plain(h)
            \/ \E p \in live : Relate(h, p) \/ Unrelate(h, p)

RelationSpec == OpInit /\ [][RelationNext]_opVars

\* As RelationNext, but no parent is destroyed before its children and no
\* entity is made its own parent.
KeepParentsNext ==
    /\ ~aborted
    /\ \/ Create
       \/ \E h \in live :
            \/ ~IsParent(h) /\ DestroyUnlisted(h)
            \/ Plain(h)
            \/ \E p \in live \ {h} : Relate(h, p) \/ Unrelate(h, p)

KeepParentsSpec == OpInit /\ [][KeepParentsNext]_opVars

-----------------------------------------------------------------------------
(* The discipline under which relations are correct *)

\* Removing the target of c makes its parent migrate first when c is the last
\* child.  That moves c, and the row that was fetched for c is stale, if both
\* are in one table and c is in its last row, or if c is its own parent.
UnrelateSteadily(c, p) ==
    /\ HasTarget(c, p)
    /\ RemoveTargetIn(Store, c).steady
    /\ Unrelate(c, p)

\* No parent is destroyed before its children, an entity that is its own parent
\* included, and targets are removed only where rows stay put.
CarefulNext ==
    /\ ~aborted
    /\ \/ Create
       \/ \E h \in live :
            \/ ~IsParent(h) /\ DestroyUnlisted(h)
            \/ Plain(h)
            \/ \E p \in live : Relate(h, p) \/ UnrelateSteadily(h, p)

CarefulSpec == OpInit /\ [][CarefulNext]_opVars

-----------------------------------------------------------------------------
(* Safety *)

\* p is the target of c exactly when c is on the list of p, once; a parent
\* without children has no list.
LinksAgree ==
    \A p \in live :
        LET list == Children(p)
            targets == {c \in live : /\ RelationTarget \in TypeOf(c)
                                     /\ Get(Store, c, RelationTarget) = p}
        IN  /\ {list[j] : j \in DOMAIN list} = targets
            /\ Len(list) = Cardinality(targets)
            /\ IsParent(p) => list # << >>

\* The hooks never look at a dead entity or at a component that is not there.
HooksFindTheirEntities == ~aborted
=============================================================================
