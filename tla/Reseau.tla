------------------------------- MODULE Reseau -------------------------------
(***************************************************************************)
(* Several Floodus nodes and one message: the flooding of inondation.c in  *)
(* every node, with the network between them.  A TLV can be lost, arrive   *)
(* several times, or be late; each link has a budget of faults, a loss or  *)
(* a second of delay.                                                      *)
(*                                                                         *)
(* The Hellos keep the neighbours symmetric meanwhile: Inondation has what *)
(* happens when they do not, and several messages.  A message that is due  *)
(* is flooded within its second.                                           *)
(***************************************************************************)
EXTENDS Naturals

CONSTANTS
  Node,         (* the nodes                                               *)
  Author,       (* the one whose user writes the message                   *)
  Linked,       (* pairs of nodes that are symmetric neighbours at first   *)
  COUNT_INOND,  (* a message is dropped when its count exceeds this: 5     *)
  Faults        (* link -> faults it may have                              *)

ASSUME ReseauAssumption ==
  /\ Author \in Node
  /\ \A l \in Linked : \E n, p \in Node : n # p /\ l = {n, p}
  /\ COUNT_INOND \in Nat
  /\ Faults \in [Linked -> Nat]

\* Powers of two, which the provers have no theory for.
ASSUME PowerAssumption ==
  /\ 2^0 = 1
  /\ \A n \in 0..(COUNT_INOND + 1) : 2^(n + 1) = 2 * 2^n

VARIABLES
  g_floods,  (* nodes that are flooding the message -> their entry for it  *)
  symetric,  (* node -> its symmetric neighbours                           *)
  network,   (* TLVs on their way                                          *)
  shown,     (* history: how often each node displayed the message, 2 for  *)
             (* more; the author's own line counts                         *)
  faults     (* history: faults of each link so far                        *)

vars == <<g_floods, symetric, network, shown, faults>>

-----------------------------------------------------------------------------
MaxDelay == 2^(COUNT_INOND + 2) - 1

Message == [count: 0..(COUNT_INOND + 1), send_time: 0..MaxDelay,
            recipient: SUBSET Node]

Tlv == [src: Node, dest: Node, type: {"data", "ack", "go_away"}]

TlvTo(n, R, type) == {[src |-> n, dest |-> p, type |-> type] : p \in R}

Peers(n) == {p \in Node : {n, p} \in Linked}

Has(n) == n \in DOMAIN g_floods

With(n, msg) == [m \in DOMAIN g_floods \cup {n} |->
                   IF m = n THEN msg ELSE g_floods[m]]
Without(n)   == [m \in DOMAIN g_floods \ {n} |-> g_floods[m]]

\* Mutant: only the author's message gets recipients.
CreateMessage_Author(n) ==
  [count |-> 0, send_time |-> 1,
   recipient |-> IF n = Author THEN symetric[n] ELSE {}]

\* create_message: every symmetric neighbour but the author.
CreateMessage(n) ==
  [count |-> 0, send_time |-> 1, recipient |-> symetric[n] \ {Author}]

RemoveSender(n, p) == With(n, [g_floods[n] EXCEPT !.recipient = @ \ {p}])

Init ==
  /\ g_floods = [n \in {} |-> {}]
  /\ symetric = [n \in Node |-> Peers(n)]
  /\ network = {}
  /\ shown = [n \in Node |-> 0]
  /\ faults = [l \in Linked |-> 0]

-----------------------------------------------------------------------------
(* A node treats a TLV; left is what is on its way once it is delivered    *)

\* Mutant: a copy of a message in the list is not acknowledged.
Known_Silent(tlv, left) ==
  /\ Has(tlv.dest)
  /\ g_floods' = RemoveSender(tlv.dest, tlv.src)
  /\ network' = left
  /\ UNCHANGED shown

Acked(tlv, left) == left \cup TlvTo(tlv.dest, {tlv.src}, "ack")

\* contains_message finds it: its sender is struck off.
Known(tlv, left) ==
  /\ Has(tlv.dest)
  /\ g_floods' = RemoveSender(tlv.dest, tlv.src)
  /\ network' = Acked(tlv, left)
  /\ UNCHANGED shown

\* It is displayed and flooded in turn, its sender being a recipient.
New(tlv, left) ==
  /\ ~Has(tlv.dest)
  /\ g_floods' = With(tlv.dest, CreateMessage(tlv.dest))
  /\ shown' = [shown EXCEPT ![tlv.dest] = IF @ = 0 THEN 1 ELSE 2]
  /\ network' = Acked(tlv, left)

ApplyTlvData(tlv, left) ==
  /\ tlv.type = "data"
  /\ \/ tlv.src \in symetric[tlv.dest] /\ (Known(tlv, left) \/ New(tlv, left))
     \/ /\ tlv.src \notin symetric[tlv.dest]
        /\ network' = left
        /\ UNCHANGED <<g_floods, shown>>
  /\ UNCHANGED symetric

ApplyTlvAck(tlv, left) ==
  /\ tlv.type = "ack"
  /\ g_floods' = IF Has(tlv.dest) THEN RemoveSender(tlv.dest, tlv.src)
                                  ELSE g_floods
  /\ network' = left
  /\ UNCHANGED <<symetric, shown>>

\* The GoAway of flood_goaway has code 2: its sender is a potential
\* neighbour from now on.
ApplyTlvGoaway(tlv, left) ==
  /\ tlv.type = "go_away"
  /\ symetric' = [symetric EXCEPT ![tlv.dest] = @ \ {tlv.src}]
  /\ network' = left
  /\ UNCHANGED <<g_floods, shown>>

\* The user of Author writes the message.
AddMyMessage ==
  /\ shown[Author] = 0
  /\ g_floods' = With(Author, CreateMessage(Author))
  /\ shown' = [shown EXCEPT ![Author] = 1]
  /\ UNCHANGED <<symetric, network, faults>>

-----------------------------------------------------------------------------
(* A node's turn *)

Due(n) == Has(n) /\ g_floods[n].send_time = 0

\* Mutants of the bound: one turn too few, one turn too many.
Exhausted_Early(n) == g_floods[n].count >= COUNT_INOND
Exhausted_Late(n)  == g_floods[n].count > COUNT_INOND + 1

Exhausted(n) == g_floods[n].count > COUNT_INOND

FloodData(n) ==
  /\ Due(n)
  /\ ~Exhausted(n)
  /\ LET msg == g_floods[n]
         to  == msg.recipient \cap symetric[n]
     IN  /\ \E delay \in 2^(msg.count + 1) .. 2^(msg.count + 2) - 1 :
              g_floods' = With(n, [count |-> msg.count + 1,
                                   send_time |-> delay, recipient |-> to])
         /\ network' = network \cup TlvTo(n, to, "data")
  /\ UNCHANGED <<symetric, shown, faults>>

\* The recipients left are demoted and told, the message is forgotten.
FloodGoAway(n) ==
  /\ Due(n)
  /\ Exhausted(n)
  /\ LET to == g_floods[n].recipient \cap symetric[n]
     IN  /\ symetric' = [symetric EXCEPT ![n] = @ \ to]
         /\ network' = network \cup TlvTo(n, to, "go_away")
  /\ g_floods' = Without(n)
  /\ UNCHANGED <<shown, faults>>

-----------------------------------------------------------------------------
(* The network *)

LinkOf(tlv) == {tlv.src, tlv.dest}

Deliver(tlv) ==
  /\ tlv \in network
  /\ LET left == network \ {tlv}
     IN  ApplyTlvData(tlv, left) \/ ApplyTlvAck(tlv, left)
           \/ ApplyTlvGoaway(tlv, left)
  /\ UNCHANGED faults

\* A copy stays on its way.
DeliverCopy(tlv) ==
  /\ tlv \in network
  /\ ApplyTlvData(tlv, network) \/ ApplyTlvAck(tlv, network)
       \/ ApplyTlvGoaway(tlv, network)
  /\ UNCHANGED faults

Lose(tlv) ==
  /\ tlv \in network
  /\ faults[LinkOf(tlv)] < Faults[LinkOf(tlv)]
  /\ network' = network \ {tlv}
  /\ faults' = [faults EXCEPT ![LinkOf(tlv)] = @ + 1]
  /\ UNCHANGED <<g_floods, symetric, shown>>

Late == {LinkOf(tlv) : tlv \in network}

\* A second passes.  It is a fault of the links that have not delivered yet.
Second ==
  /\ \A n \in DOMAIN g_floods : ~Due(n)
  /\ \A l \in Late : faults[l] < Faults[l]
  /\ DOMAIN g_floods # {}
  /\ g_floods' = [n \in DOMAIN g_floods |->
                    [g_floods[n] EXCEPT !.send_time = @ - 1]]
  /\ faults' = [l \in Linked |-> IF l \in Late THEN faults[l] + 1 ELSE faults[l]]
  /\ UNCHANGED <<symetric, network, shown>>

-----------------------------------------------------------------------------
Next ==
  \/ AddMyMessage
  \/ \E n \in Node : FloodData(n) \/ FloodGoAway(n)
  \/ \E tlv \in network : Deliver(tlv) \/ DeliverCopy(tlv) \/ Lose(tlv)
  \/ Second

\* Time passes, the nodes take their turns, and a TLV that is not lost
\* arrives.
Spec ==
  /\ Init
  /\ [][Next]_vars
  /\ WF_vars(Second)
  /\ \A n \in Node : WF_vars(FloodData(n) \/ FloodGoAway(n))
  /\ \A tlv \in Tlv : WF_vars(Deliver(tlv))

-----------------------------------------------------------------------------
(* Correctness *)

\* Type invariant.
TypeOK ==
  /\ DOMAIN g_floods \subseteq Node
  /\ g_floods \in [DOMAIN g_floods -> Message]
  /\ symetric \in [Node -> SUBSET Node]
  /\ network \subseteq Tlv
  /\ shown \in [Node -> 0..2]
  /\ faults \in [Linked -> Nat]
  /\ \A l \in Linked : faults[l] <= Faults[l]

\* A neighbour is demoted by the flooding only when more than COUNT_INOND
\* datagrams between the two were lost or late: every turn is a chance.
DemotedForFaults ==
  \A l \in Linked : faults[l] <= COUNT_INOND =>
    \A n, p \in l : n # p => p \in symetric[n]

\* As long as no link had more faults than that, nobody displays the message
\* twice and the author does not get it back: every copy comes while its
\* receiver has not forgotten the message.
ShownOnce ==
  (\A l \in Linked : faults[l] <= COUNT_INOND) => \A n \in Node : shown[n] <= 1

\* Nodes that have displayed the message, links both ends still use.
Propagation == INSTANCE Propagation WITH
  reached <- {n \in Node : shown[n] > 0},
  links <- {l \in Linked : \A n, p \in l : n # p => p \in symetric[n]}

\* The flooding spreads the message to every node that links still in use
\* connect to the author, and only along links.
ImplementsPropagation == Propagation!Spec

=============================================================================
