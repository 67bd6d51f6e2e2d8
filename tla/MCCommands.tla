------------------------------ MODULE MCCommands ------------------------------
\* Small instances of Commands for TLC.
EXTENDS Commands

CONSTANTS small, large

\* Bytes: two small components fill the initial 16, a large one outgrows it.
MCSize == [c \in {small, large} |-> IF c = small THEN 8 ELSE 24]
=============================================================================
