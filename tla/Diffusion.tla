----------------------------- MODULE Diffusion ------------------------------
(***************************************************************************)
(* What the flooding of one node promises, without the list, the clock,    *)
(* the counters or the neighbour tables: a memory of the messages being    *)
(* flooded and, for each, of the addresses that still have to acknowledge  *)
(* it.  A message is displayed at most when it enters the memory; owing    *)
(* addresses are only ever struck off; every message is forgotten in the   *)
(* end.                                                                    *)
(***************************************************************************)
CONSTANTS IpPort, Key

VARIABLES
  remembered,  (* message -> addresses that still owe an acknowledgement   *)
  shown        (* messages displayed by the last step                      *)

diffusionVars == <<remembered, shown>>

Init ==
  /\ remembered = [k \in {} |-> {}]
  /\ shown = {}

\* A message that is not remembered enters, from the network (displayed) or
\* from the user (not displayed).
Accept(k) ==
  /\ k \notin DOMAIN remembered
  /\ \E R \in SUBSET IpPort :
       remembered' = [j \in DOMAIN remembered \cup {k} |->
                        IF j = k THEN R ELSE remembered[j]]
  /\ shown' \in {{}, {k}}

StrikeOff(k) ==
  /\ k \in DOMAIN remembered
  /\ \E R \in SUBSET remembered[k] : remembered' = [remembered EXCEPT ![k] = R]
  /\ shown' = {}

Forget(k) ==
  /\ k \in DOMAIN remembered
  /\ remembered' = [j \in DOMAIN remembered \ {k} |-> remembered[j]]
  /\ shown' = {}

\* The display is over.
Quiet ==
  /\ shown' = {}
  /\ UNCHANGED remembered

Next ==
  \/ \E k \in Key : Accept(k) \/ StrikeOff(k) \/ Forget(k)
  \/ Quiet

Safety == Init /\ [][Next]_diffusionVars

Spec == Safety /\ \A k \in Key : WF_diffusionVars(Forget(k))

=============================================================================
