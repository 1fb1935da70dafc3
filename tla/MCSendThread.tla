---------------------------- MODULE MCSendThread ----------------------------
(***************************************************************************)
(* Instances of SendThread for TLC.                                        *)
(***************************************************************************)
EXTENDS SendThread, TLC

CONSTANTS p1, p2

MCOne   == {p1}
MCPeers == {p1, p2}
MCBoth  == {"hello_sender", "neighbour_sender"}

\* Both senders at work with one address, or neighbour_sender and main with
\* two.
MCNarrow ==
  \/ At("hello_sender", "sleep")
  \/ DOMAIN g_neighbours \cup g_environs \cup {work[t] : t \in Thread}
       \cup UNION {DOMAIN list[t] : t \in Sender} \subseteq {p1}

=============================================================================
