----------------------------- MODULE EntityStore -----------------------------
(***************************************************************************)
(* What an EntityManager promises its client: every live entity handle     *)
(* owns a set of components, each with a value.  Operations on one handle  *)
(* never disturb another handle, and a handle that was destroyed never     *)
(* comes back.  There are no tables, rows, generations or free lists here; *)
(* module Storage is shown to implement this one.                          *)
(***************************************************************************)
CONSTANTS
    Handle,      \* everything createEntity can return
    Component,   \* registered component ids
    Value        \* contents of one component

VARIABLES
    store,       \* live handle -> (component it has -> value)
    used         \* handles ever handed out

vars == <<store, used>>

Live == DOMAIN store

\* The components of h, with c bound to v.
With(h, c, v) ==
    [d \in DOMAIN store[h] \cup {c} |-> IF d = c THEN v ELSE store[h][d]]

Without(h, c) == [d \in DOMAIN store[h] \ {c} |-> store[h][d]]

TypeOK ==
    /\ used \subseteq Handle
    /\ Live \subseteq used
    /\ \A h \in Live : /\ DOMAIN store[h] \subseteq Component
                       /\ \A c \in DOMAIN store[h] : store[h][c] \in Value

Init == store = << >> /\ used = {}

\* A fresh handle: never one that was handed out before.
Create(h) ==
    /\ h \notin used
    /\ used' = used \cup {h}
    /\ store' = [x \in Live \cup {h} |-> IF x = h THEN << >> ELSE store[x]]

Destroy(h) ==
    /\ h \in Live
    /\ store' = [x \in Live \ {h} |-> store[x]]
    /\ UNCHANGED used

\* Adding leaves the value of the new component unspecified.
Add(h, c, v) ==
    /\ h \in Live
    /\ c \notin DOMAIN store[h]
    /\ store' = [store EXCEPT ![h] = With(h, c, v)]
    /\ UNCHANGED used

Set(h, c, v) ==
    /\ h \in Live
    /\ store' = [store EXCEPT ![h] = With(h, c, v)]
    /\ UNCHANGED used

Remove(h, c) ==
    /\ h \in Live
    /\ store' = [store EXCEPT ![h] = Without(h, c)]
    /\ UNCHANGED used

Next ==
    \E h \in Handle :
        \/ Create(h)
        \/ Destroy(h)
        \/ \E c \in Component :
              \/ Remove(h, c)
              \/ \E v \in Value : Add(h, c, v) \/ Set(h, c, v)

Spec == Init /\ [][Next]_vars
=============================================================================
