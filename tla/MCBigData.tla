----------------------------- MODULE MCBigData ------------------------------
(***************************************************************************)
(* Instances of BigData for TLC: fragments of 2 bytes; messages of 1 byte  *)
(* (short), 3 (a short last fragment), 4 (an exact cut) and 5 (three       *)
(* fragments).                                                             *)
(***************************************************************************)
EXTENDS BigData, TLC

CONSTANT a

MCOneWriter == {a}
MCLengths   == {1, 3, 4, 5}
MCFour      == {4}

=============================================================================
