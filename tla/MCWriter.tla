------------------------------ MODULE MCWriter ------------------------------
(***************************************************************************)
(* Instances of Writer for TLC.  A node of 5 bytes takes between one and   *)
(* five TLVs of 1 to 3 bytes; a path of 3 bytes cuts it in two.            *)
(***************************************************************************)
EXTENDS Writer, TLC

CONSTANTS p1, p2

MCPeers   == {p1, p2}
MCLengths == 1..3
MCPaths   == {3, 5}

=============================================================================
