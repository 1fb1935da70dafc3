------------------------------ MODULE MCReseau ------------------------------
(***************************************************************************)
(* Instances of Reseau for TLC.                                            *)
(***************************************************************************)
EXTENDS Reseau, TLC

CONSTANTS a, b, c

MCNodes == {a, b, c}

\* The author at one end of a line: the middle node passes the message on.
MCLine == {{a, b}, {b, c}}

\* The second link can fail at every turn, the others at all but one.
MCFaults == [l \in MCLine |-> IF l = {b, c} THEN 2 ELSE 1]

=============================================================================
