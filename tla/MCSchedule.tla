------------------------------ MODULE MCSchedule ------------------------------
\* A small instance of Schedule for TLC.
EXTENDS Schedule

CONSTANTS a, b

MCWishes == {<< >>, <<b>>, <<a, b>>}
MCUsedPhases == {"Startup", "Update", "Physics"}
=============================================================================
