------------------------------- MODULE MCSetup -------------------------------
\* A small instance of Setup for TLC.
EXTENDS Setup

CONSTANTS render, window, audio

MCComponent == 0 .. 2

\* Rendering and windows name each other; each plugin brings a component.
MCSteps ==
    [p \in Plugin |-> IF p = render THEN <<window, 1>>
                      ELSE IF p = window THEN <<0, render>> ELSE <<2>>]

\* Up to two requirements, in one order.
MCLists ==
    {<< >>} \cup {<<c>> : c \in ComponentType}
        \cup {<<p[1], p[2]>> : p \in {q \in ComponentType \X ComponentType : q[1] > q[2]}}
=============================================================================
