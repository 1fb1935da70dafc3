---------------------------- MODULE MCInondation ----------------------------
(***************************************************************************)
(* Instances of Inondation for TLC.                                        *)
(***************************************************************************)
EXTENDS Inondation, TLC

CONSTANTS p1, me, a

MCOne == {p1}
MCIds == {me, a}

MCBootLong == {Recent + 1}

=============================================================================
