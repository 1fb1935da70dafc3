---------------------------- MODULE Propagation -----------------------------
(***************************************************************************)
(* What a network of Floodus nodes promises about one message, without the *)
(* datagrams, the retries and the clocks: it spreads along the links, to   *)
(* every node that a link still in use connects to one it has reached.     *)
(***************************************************************************)
CONSTANTS
  Node,    (* the nodes                                                    *)
  Author,  (* the one whose user writes the message                        *)
  Linked   (* pairs of nodes that are each other's symmetric neighbours    *)

VARIABLES
  reached,  (* nodes that have the message                                 *)
  links     (* links still in use                                          *)

propagationVars == <<reached, links>>

Init ==
  /\ reached = {}
  /\ links = Linked

Write ==
  /\ reached = {}
  /\ reached' = {Author}
  /\ UNCHANGED links

\* The message goes over one link of L.
SpreadOver(L, q) ==
  /\ q \notin reached
  /\ \E p \in reached : {p, q} \in L
  /\ reached' = reached \cup {q}
  /\ UNCHANGED links

\* Nodes stop being neighbours; a message on its way may still arrive.
Cut ==
  /\ links' \in SUBSET links
  /\ links' # links
  /\ UNCHANGED reached

Next == Write \/ Cut \/ \E q \in Node : SpreadOver(Linked, q)

Safety == Init /\ [][Next]_propagationVars

\* A message that can still spread does: over a link in use.
Spec ==
  /\ Safety
  /\ \A q \in Node : WF_propagationVars(SpreadOver(links, q))

=============================================================================
