------------------------------ MODULE MCStorage ------------------------------
\* Small instances of Storage for TLC.
EXTENDS Storage

\* Explore no further once a generation is the last one: no wrap-around.
NoWrap == \A i \in Allocated : rec[i].generation < Generations - 1
=============================================================================
