---------------------------- MODULE ReseauProofs ------------------------------
(***************************************************************************)
(* Proofs about Reseau, for every set of nodes and links, every number of  *)
(* turns and every budget of faults: types, what a demotion by the         *)
(* flooding supposes, that each step of the network is one of Propagation, *)
(* and that nobody shows the message twice.                                *)
(***************************************************************************)
EXTENDS Reseau, Arithmetic, TLAPS

-----------------------------------------------------------------------------
(* Types *)

\* The powers of two the delays are drawn from.
LEMMA Powers ==
  /\ \A n \in 0..(COUNT_INOND + 2) :
       2^n \in Nat \ {0} /\ \A m \in 0..n : 2^m <= 2^n
  /\ \A n \in 0..(COUNT_INOND + 1) : 2^(n + 1) = 2 * 2^n
<1> DEFINE N == COUNT_INOND + 2
<1>1. N \in Nat /\ N - 1 = COUNT_INOND + 1
  BY ReseauAssumption
<1>2. 2^0 = 1 /\ \A n \in 0..(N - 1) : 2^(n + 1) = 2 * 2^n
  BY <1>1, PowerAssumption
<1>3. \A n \in 0..N : 2^n \in Nat \ {0} /\ \A m \in 0..n : 2^m <= 2^n
  BY <1>1, <1>2, PowersGrow
<1> QED BY <1>3, PowerAssumption

LEMMA Delays ==
  ASSUME NEW count \in 0..COUNT_INOND,
         NEW delay \in 2^(count + 1) .. 2^(count + 2) - 1
  PROVE  delay \in 1..MaxDelay
<1>1. COUNT_INOND \in Nat
  BY ReseauAssumption
<1>2. /\ count + 1 \in 0..(COUNT_INOND + 2)
      /\ count + 2 \in 0..(COUNT_INOND + 2)
      /\ COUNT_INOND + 2 \in 0..(COUNT_INOND + 2)
  BY <1>1
<1>3. /\ 2^(count + 1) \in Nat \ {0}
      /\ 2^(count + 2) \in Nat
      /\ 2^(COUNT_INOND + 2) \in Nat
      /\ 2^(count + 2) <= 2^(COUNT_INOND + 2)
  BY <1>1, <1>2, Powers
<1> QED
  BY <1>3 DEF MaxDelay

LEMMA FreshMessage ==
  ASSUME NEW n \in Node, symetric \in [Node -> SUBSET Node]
  PROVE  CreateMessage(n) \in Message
<1>1. COUNT_INOND \in Nat
  BY ReseauAssumption
<1>2. 1 \in 0..MaxDelay
  <2>1. /\ COUNT_INOND + 2 \in 0..(COUNT_INOND + 2)
        /\ 1 \in 0..(COUNT_INOND + 2)
        /\ 0 \in 0..(COUNT_INOND + 2)
    BY <1>1
  <2>2. \A m, n_1 \in 0..(COUNT_INOND + 2) :
          m <= n_1 => 2^m <= 2^n_1 /\ 2^n_1 \in Nat
    BY Powers
  <2>4. 1 <= COUNT_INOND + 2
    BY <1>1
  <2>5. 2^(COUNT_INOND + 2) \in Nat /\ 2^1 <= 2^(COUNT_INOND + 2)
    BY <2>1, <2>2, <2>4, Zenon
  <2>3. 2^1 = 2
    OBVIOUS
  <2> QED
    BY <2>3, <2>5 DEF MaxDelay
<1> QED
  BY <1>1, <1>2 DEF CreateMessage, Message

LEMMA WithType ==
  ASSUME TypeOK, NEW n \in Node, NEW msg \in Message
  PROVE  /\ DOMAIN With(n, msg) = DOMAIN g_floods \cup {n}
         /\ DOMAIN With(n, msg) \subseteq Node
         /\ With(n, msg) \in [DOMAIN With(n, msg) -> Message]
BY DEF TypeOK, With

LEMMA RemoveSenderMessage ==
  ASSUME TypeOK, NEW n \in DOMAIN g_floods, NEW p
  PROVE  [g_floods[n] EXCEPT !.recipient = @ \ {p}] \in Message
BY DEF TypeOK, Message

\* What the TLVs added to the network are.
LEMMA TlvsTo ==
  ASSUME NEW n \in Node, NEW R \in SUBSET Node,
         NEW type \in {"data", "ack", "go_away"}
  PROVE  TlvTo(n, R, type) \subseteq Tlv
BY DEF TlvTo, Tlv

\* One TLV treated, whether its copy stays on its way or not.
Treats(tlv, left) ==
  ApplyTlvData(tlv, left) \/ ApplyTlvAck(tlv, left) \/ ApplyTlvGoaway(tlv, left)

LEMMA TreatsType ==
  ASSUME TypeOK, NEW tlv \in network, NEW left \in SUBSET network,
         Treats(tlv, left), UNCHANGED faults
  PROVE  TypeOK'
<1>0. /\ tlv \in Tlv /\ tlv.src \in Node /\ tlv.dest \in Node
      /\ left \subseteq Tlv /\ Acked(tlv, left) \subseteq Tlv
  BY DEF TypeOK, Tlv, Acked, TlvTo
<1>1. CASE ApplyTlvData(tlv, left) /\ Known(tlv, left)
  <2>1. [g_floods[tlv.dest] EXCEPT !.recipient = @ \ {tlv.src}] \in Message
    BY <1>1, RemoveSenderMessage DEF Known, Has
  <2> QED
    BY <1>0, <1>1, <2>1, WithType
       DEF ApplyTlvData, Known, RemoveSender, TypeOK
<1>2. CASE ApplyTlvData(tlv, left) /\ New(tlv, left)
  <2>1. CreateMessage(tlv.dest) \in Message
    BY <1>0, FreshMessage DEF TypeOK
  <2>2. shown' \in [Node -> 0..2]
    BY <1>0, <1>2 DEF New, TypeOK
  <2> QED
    BY <1>0, <1>2, <2>1, <2>2, WithType DEF ApplyTlvData, New, TypeOK
<1>3. CASE /\ ApplyTlvData(tlv, left)
           /\ UNCHANGED <<g_floods, shown>> /\ network' = left
  BY <1>0, <1>3 DEF ApplyTlvData, TypeOK
<1>4. CASE ApplyTlvAck(tlv, left)
  <2>1. CASE Has(tlv.dest)
    <3>1. [g_floods[tlv.dest] EXCEPT !.recipient = @ \ {tlv.src}] \in Message
      BY <2>1, RemoveSenderMessage DEF Has
    <3> QED
      BY <1>0, <1>4, <2>1, <3>1, WithType
         DEF ApplyTlvAck, RemoveSender, TypeOK
  <2>2. CASE ~Has(tlv.dest)
    BY <1>0, <1>4, <2>2 DEF ApplyTlvAck, TypeOK
  <2> QED
    BY <2>1, <2>2
<1>5. CASE ApplyTlvGoaway(tlv, left)
  BY <1>0, <1>5 DEF ApplyTlvGoaway, TypeOK
<1> QED
  BY <1>1, <1>2, <1>3, <1>4, <1>5 DEF Treats, ApplyTlvData

LEMMA TypeOKInit == Init => TypeOK
<1> SUFFICES ASSUME Init PROVE TypeOK
  OBVIOUS
<1>1. \A n \in Node : Peers(n) \subseteq Node
  BY DEF Peers
<1> QED
  BY <1>1, ReseauAssumption DEF Init, TypeOK

LEMMA TypeOKStep ==
  ASSUME TypeOK, [Next]_vars
  PROVE  TypeOK'
<1>1. CASE AddMyMessage
  <2>1. Author \in Node /\ CreateMessage(Author) \in Message
    BY ReseauAssumption, FreshMessage DEF TypeOK
  <2>2. shown' \in [Node -> 0..2]
    <3>1. shown' = [n \in Node |-> IF n = Author THEN 1 ELSE shown[n]]
      BY <1>1 DEF AddMyMessage, TypeOK
    <3> QED
      BY <3>1 DEF TypeOK
  <2>3. /\ DOMAIN g_floods' \subseteq Node
        /\ g_floods' \in [DOMAIN g_floods' -> Message]
    BY <1>1, <2>1, WithType DEF AddMyMessage
  <2> QED
    BY <1>1, <2>2, <2>3 DEF AddMyMessage, TypeOK
<1>2. ASSUME NEW n \in Node, FloodData(n) PROVE TypeOK'
  <2> DEFINE msg == g_floods[n]
             to  == msg.recipient \cap symetric[n]
  <2>1. msg \in Message /\ to \in SUBSET Node
    BY <1>2 DEF FloodData, Due, Has, TypeOK, Message
  <2>2. msg.count \in 0..COUNT_INOND
    BY <1>2, <2>1, ReseauAssumption DEF FloodData, Exhausted, Message
  <2>3. PICK delay \in 2^(msg.count + 1) .. 2^(msg.count + 2) - 1 :
          g_floods' = With(n, [count |-> msg.count + 1, send_time |-> delay,
                               recipient |-> to])
    BY <1>2 DEF FloodData
  <2>4. [count |-> msg.count + 1, send_time |-> delay, recipient |-> to]
          \in Message
    <3>1. delay \in 1..MaxDelay
      BY <2>2, Delays
    <3>2. delay \in 0..MaxDelay
      BY <3>1
    <3>3. msg.count + 1 \in 0..(COUNT_INOND + 1)
      BY <2>2, ReseauAssumption
    <3> QED
      BY <2>1, <3>2, <3>3 DEF Message
  <2>5. network' \subseteq Tlv
    <3>1. TlvTo(n, to, "data") \subseteq Tlv
      BY <2>1, TlvsTo
    <3> QED
      BY <1>2, <3>1 DEF FloodData, TypeOK
  <2> QED
    BY <1>2, <2>3, <2>4, <2>5, WithType DEF FloodData, TypeOK
<1>3. ASSUME NEW n \in Node, FloodGoAway(n) PROVE TypeOK'
  <2> DEFINE to == g_floods[n].recipient \cap symetric[n]
  <2>1. to \in SUBSET Node
    BY <1>3 DEF TypeOK
  <2>2. network' \subseteq Tlv
    <3>1. TlvTo(n, to, "go_away") \subseteq Tlv
      BY <2>1, TlvsTo
    <3> QED
      BY <1>3, <3>1 DEF FloodGoAway, TypeOK
  <2> QED
    BY <1>3, <2>2 DEF FloodGoAway, Without, TypeOK
<1>4. ASSUME NEW tlv \in network, Deliver(tlv) PROVE TypeOK'
  BY <1>4, TreatsType DEF Deliver, Treats
<1>5. ASSUME NEW tlv \in network, DeliverCopy(tlv) PROVE TypeOK'
  BY <1>5, TreatsType DEF DeliverCopy, Treats
<1>6. ASSUME NEW tlv \in network, Lose(tlv) PROVE TypeOK'
  <2>1. /\ faults' \in [Linked -> Nat]
        /\ \A l \in Linked : faults'[l] <= Faults[l]
    <3>1. /\ faults' \in [Linked -> Nat]
          /\ \A l \in Linked : faults'[l] = IF l = LinkOf(tlv)
                                            THEN faults[l] + 1 ELSE faults[l]
      <4>1. faults' = [l \in Linked |-> IF l = LinkOf(tlv)
                                        THEN faults[l] + 1 ELSE faults[l]]
        BY <1>6 DEF Lose, TypeOK
      <4>2. \A l \in Linked : faults[l] \in Nat /\ faults[l] + 1 \in Nat
        BY DEF TypeOK
      <4> QED
        BY <4>1, <4>2
    <3>2. \A l \in Linked : faults[l] <= Faults[l] /\ faults[l] \in Nat
                               /\ Faults[l] \in Nat
      BY ReseauAssumption DEF TypeOK
    <3>3. faults[LinkOf(tlv)] < Faults[LinkOf(tlv)]
      BY <1>6 DEF Lose
    <3> QED
      BY <3>1, <3>2, <3>3
  <2> QED
    BY <1>6, <2>1 DEF Lose, TypeOK
<1>7. CASE Second
  <2>1. /\ faults' \in [Linked -> Nat]
        /\ \A l \in Linked : faults'[l] <= Faults[l]
    BY <1>7, ReseauAssumption DEF Second, TypeOK
  <2>2. \A n \in DOMAIN g_floods :
          [g_floods[n] EXCEPT !.send_time = @ - 1] \in Message
    <3>1. TAKE n \in DOMAIN g_floods
    <3>2. /\ g_floods[n] \in Message
          /\ g_floods[n].send_time # 0
      BY <1>7 DEF Second, Due, Has, TypeOK
    <3>3. /\ g_floods[n].send_time \in 0..MaxDelay
          /\ MaxDelay \in Int
      <4>1. COUNT_INOND + 2 \in 0..(COUNT_INOND + 2)
        BY ReseauAssumption
      <4>2. 2^(COUNT_INOND + 2) \in Nat
        BY <4>1, Powers
      <4> QED
        BY <3>2, <4>2 DEF Message, MaxDelay
    <3>4. g_floods[n].send_time - 1 \in 0..MaxDelay
      BY <3>2, <3>3
    <3> QED
      BY <3>2, <3>4 DEF Message
  <2>3. /\ DOMAIN g_floods' = DOMAIN g_floods
        /\ g_floods' \in [DOMAIN g_floods -> Message]
    BY <1>7, <2>2 DEF Second
  <2> QED
    BY <1>7, <2>1, <2>3 DEF Second, TypeOK
<1>8. CASE UNCHANGED vars
  BY <1>8 DEF vars, TypeOK
<1> QED
  BY <1>1, <1>2, <1>3, <1>4, <1>5, <1>6, <1>7, <1>8 DEF Next

\* Entries, TLVs and counts keep their types on any network.
THEOREM ReseauTypes == Spec => []TypeOK
BY TypeOKInit, TypeOKStep, PTL DEF Spec

-----------------------------------------------------------------------------
(* The steps of the tables and of the network, seen from one link *)

LEMMA Links ==
  ASSUME NEW n \in Node, NEW p \in Peers(n)
  PROVE  {n, p} \in Linked /\ n \in Peers(p) /\ p \in Node
<1>1. {n, p} \in Linked /\ p \in Node
  BY DEF Peers
<1>2. {p, n} = {n, p}
  OBVIOUS
<1> QED
  BY <1>1, <1>2 DEF Peers

\* Nobody becomes symmetric again, no fault is taken back.
LEMMA OnlyWorse ==
  ASSUME TypeOK, [Next]_vars
  PROVE  /\ \A n \in Node : symetric'[n] \subseteq symetric[n]
         /\ \A l \in Linked : faults'[l] >= faults[l]
<1> USE DEF TypeOK
<1>1. CASE AddMyMessage
  BY <1>1 DEF AddMyMessage
<1>2. ASSUME NEW n \in Node, FloodData(n) \/ FloodGoAway(n)
      PROVE  /\ \A m \in Node : symetric'[m] \subseteq symetric[m]
             /\ faults' = faults
  BY <1>2 DEF FloodData, FloodGoAway
<1>3. ASSUME NEW tlv \in network, Deliver(tlv) \/ DeliverCopy(tlv)
      PROVE  /\ \A m \in Node : symetric'[m] \subseteq symetric[m]
             /\ faults' = faults
  BY <1>3 DEF Deliver, DeliverCopy, ApplyTlvData, ApplyTlvAck, ApplyTlvGoaway
<1>4. ASSUME NEW tlv \in network, Lose(tlv)
      PROVE  /\ symetric' = symetric
             /\ \A l \in Linked : faults'[l] >= faults[l]
  <2>1. faults' = [l \in Linked |-> IF l = LinkOf(tlv)
                                    THEN faults[l] + 1 ELSE faults[l]]
    BY <1>4 DEF Lose
  <2>2. \A l \in Linked : faults[l] \in Nat
    OBVIOUS
  <2> QED
    BY <1>4, <2>1, <2>2 DEF Lose
<1>5. CASE Second
  <2>1. \A l \in Linked : faults[l] \in Nat
    OBVIOUS
  <2> QED
    BY <1>5, <2>1 DEF Second
<1>6. CASE UNCHANGED vars
  BY <1>6 DEF vars
<1>7. \A l \in Linked : faults[l] >= faults[l]
  OBVIOUS
<1> QED
  BY <1>1, <1>2, <1>3, <1>4, <1>5, <1>6, <1>7 DEF Next

-----------------------------------------------------------------------------
(* Demotions *)

\* The message or its acknowledgement is between the two nodes.
InTransit(n, p) ==
  \/ [src |-> n, dest |-> p, type |-> "data"] \in network
  \/ [src |-> p, dest |-> n, type |-> "ack"] \in network

Broken(l) == faults[l] > COUNT_INOND

\* Each turn that has left a recipient owing was a fault of its link, the
\* last one excepted while its datagrams are still within their second.
TurnsAreChances ==
  \A n \in DOMAIN g_floods : \A p \in g_floods[n].recipient \cap symetric[n] :
    \/ Broken({n, p})
    \/ faults[{n, p}] >= g_floods[n].count
    \/ /\ faults[{n, p}] + 1 >= g_floods[n].count
       /\ g_floods[n].send_time > 0
       /\ g_floods[n].send_time >= 2^g_floods[n].count
       /\ InTransit(n, p)

GoodbyesForFaults ==
  \A tlv \in network :
    tlv.type = "go_away" => LinkOf(tlv) \in Linked /\ Broken(LinkOf(tlv))

PeersOnly == \A n \in Node : symetric[n] \subseteq Peers(n)

Demoted == \A n \in Node : \A p \in Peers(n) \ symetric[n] : Broken({n, p})

FaultInv ==
  /\ TypeOK
  /\ PeersOnly
  /\ TurnsAreChances
  /\ GoodbyesForFaults
  /\ Demoted

LEMMA FaultInvInit == Init => FaultInv
<1> SUFFICES ASSUME Init PROVE FaultInv
  OBVIOUS
<1>1. TypeOK
  BY TypeOKInit
<1>2. DOMAIN g_floods = {} /\ network = {}
  BY DEF Init
<1>3. \A n \in Node : symetric[n] = Peers(n)
  BY DEF Init
<1> QED
  BY <1>1, <1>2, <1>3
     DEF FaultInv, PeersOnly, TurnsAreChances, GoodbyesForFaults, Demoted

LEMMA BrokenStays ==
  ASSUME TypeOK, [Next]_vars, NEW l \in Linked, Broken(l)
  PROVE  Broken(l)'
<1>1. faults'[l] >= faults[l]
  BY OnlyWorse
<1>2. faults[l] \in Nat /\ faults'[l] \in Nat /\ COUNT_INOND \in Nat
  BY TypeOKStep, ReseauAssumption DEF TypeOK
<1> QED
  BY <1>1, <1>2 DEF Broken

\* What a turn does not touch keeps its chance.
LEMMA ChanceKept ==
  ASSUME FaultInv, [Next]_vars,
         NEW n \in DOMAIN g_floods, n \in DOMAIN g_floods',
         NEW p \in g_floods'[n].recipient \cap symetric'[n],
         p \in g_floods[n].recipient,
         g_floods'[n].count = g_floods[n].count,
         g_floods'[n].send_time = g_floods[n].send_time,
         InTransit(n, p) => \/ InTransit(n, p)'
                            \/ Broken({n, p})
                            \/ faults'[{n, p}] >= faults[{n, p}] + 1
  PROVE  \/ Broken({n, p})'
         \/ faults'[{n, p}] >= g_floods'[n].count
         \/ /\ faults'[{n, p}] + 1 >= g_floods'[n].count
            /\ g_floods'[n].send_time > 0
            /\ g_floods'[n].send_time >= 2^g_floods'[n].count
            /\ InTransit(n, p)'
<1>1. /\ TypeOK /\ n \in Node /\ p \in symetric[n] /\ p \in Peers(n)
  BY OnlyWorse DEF FaultInv, TypeOK, PeersOnly
<1>2. /\ {n, p} \in Linked
      /\ faults[{n, p}] \in Nat /\ faults'[{n, p}] \in Nat
      /\ faults'[{n, p}] >= faults[{n, p}]
      /\ g_floods[n].count \in Nat
      /\ Broken({n, p}) => Broken({n, p})'
  <2>1. {n, p} \in Linked
    BY <1>1, Links
  <2>2. g_floods[n] \in Message
    BY <1>1 DEF TypeOK
  <2>3. g_floods[n].count \in Nat
    BY <2>2, ReseauAssumption DEF Message
  <2> QED
    BY <1>1, <2>1, <2>3, OnlyWorse, TypeOKStep, BrokenStays DEF TypeOK
<1>3. \/ Broken({n, p})
      \/ faults[{n, p}] >= g_floods[n].count
      \/ /\ faults[{n, p}] + 1 >= g_floods[n].count
         /\ g_floods[n].send_time > 0
         /\ g_floods[n].send_time >= 2^g_floods[n].count
         /\ InTransit(n, p)
  BY <1>1 DEF FaultInv, TurnsAreChances
<1>4. CASE Broken({n, p})
  BY <1>2, <1>4
<1>5. CASE faults[{n, p}] >= g_floods[n].count
  BY <1>2, <1>5
<1>6. CASE /\ faults[{n, p}] + 1 >= g_floods[n].count
           /\ g_floods[n].send_time > 0
           /\ g_floods[n].send_time >= 2^g_floods[n].count
           /\ InTransit(n, p)
  <2>1. CASE InTransit(n, p)'
    <3>1. faults'[{n, p}] + 1 >= g_floods[n].count
      BY <1>2, <1>6
    <3> QED
      BY <1>6, <2>1, <3>1
  <2>2. CASE Broken({n, p})
    BY <1>2, <2>2
  <2>3. CASE faults'[{n, p}] >= faults[{n, p}] + 1
    BY <1>2, <1>6, <2>3
  <2> QED
    BY <1>6, <2>1, <2>2, <2>3
<1> QED
  BY <1>3, <1>4, <1>5, <1>6

\* A TLV treated while another is on its way: a Data that goes was
\* acknowledged, unless its receiver had demoted its sender.
LEMMA TreatsTransit ==
  ASSUME FaultInv, NEW tlv \in network,
         NEW left, left = network \/ left = network \ {tlv},
         Treats(tlv, left),
         NEW n \in Node, NEW p \in symetric[n],
         ~(tlv.type = "ack" /\ tlv.src = p /\ tlv.dest = n),
         InTransit(n, p)
  PROVE  InTransit(n, p)' \/ Broken({n, p})
<1> DEFINE mine   == [src |-> n, dest |-> p, type |-> "data"]
           answer == [src |-> p, dest |-> n, type |-> "ack"]
<1>1. left \subseteq network'
  BY DEF Treats, ApplyTlvData, ApplyTlvAck, ApplyTlvGoaway, Known, New, Acked
<1>2. tlv # answer
  OBVIOUS
<1>3. CASE tlv = mine
  <2>1. tlv.src = n /\ tlv.dest = p /\ tlv.type = "data"
    BY <1>3
  <2>2. ApplyTlvData(tlv, left)
    BY <2>1 DEF Treats, ApplyTlvAck, ApplyTlvGoaway
  <2>3. CASE n \in symetric[p]
    <3>1. network' = Acked(tlv, left)
      BY <2>1, <2>2, <2>3 DEF ApplyTlvData, Known, New
    <3>2. answer \in TlvTo(p, {n}, "ack")
      BY DEF TlvTo
    <3> QED
      BY <2>1, <3>1, <3>2 DEF Acked, InTransit
  <2>4. CASE n \notin symetric[p]
    <3>1. n \in Peers(p) /\ p \in Node /\ {p, n} = {n, p}
      BY Links DEF FaultInv, PeersOnly
    <3> QED
      BY <2>4, <3>1 DEF FaultInv, Demoted
  <2> QED
    BY <2>3, <2>4
<1>4. CASE tlv # mine
  BY <1>1, <1>2, <1>4 DEF InTransit
<1> QED
  BY <1>3, <1>4

\* The chances of one link after a step.
Chance(n, p) ==
  \/ Broken({n, p})
  \/ faults[{n, p}] >= g_floods[n].count
  \/ /\ faults[{n, p}] + 1 >= g_floods[n].count
     /\ g_floods[n].send_time > 0
     /\ g_floods[n].send_time >= 2^g_floods[n].count
     /\ InTransit(n, p)

LEMMA NewEntryChance ==
  ASSUME TypeOK, TypeOK', PeersOnly, [Next]_vars, NEW n \in Node,
         NEW p \in symetric'[n], g_floods'[n].count = 0
  PROVE  Chance(n, p)'
<1>1. p \in symetric[n]
  BY OnlyWorse
<1>2. {n, p} \in Linked
  BY <1>1, Links DEF PeersOnly
<1>3. faults'[{n, p}] \in Nat
  BY <1>2 DEF TypeOK
<1> QED
  BY <1>3 DEF Chance

LEMMA TreatsChance ==
  ASSUME FaultInv, [Next]_vars, NEW tlv \in network,
         NEW left, left = network \/ left = network \ {tlv},
         Treats(tlv, left), UNCHANGED faults,
         NEW n \in DOMAIN g_floods',
         NEW p \in g_floods'[n].recipient \cap symetric'[n]
  PROVE  Chance(n, p)'
<1>0. /\ TypeOK /\ TypeOK' /\ PeersOnly /\ n \in Node
      /\ p \in symetric'[n] /\ p \in symetric[n]
      /\ tlv.src \in Node /\ tlv.dest \in Node
  BY OnlyWorse, TypeOKStep DEF FaultInv, TypeOK, Tlv
<1>1. CASE ~Has(tlv.dest) /\ n = tlv.dest
  <2>1. New(tlv, left)
    BY <1>1 DEF Treats, ApplyTlvData, ApplyTlvAck, ApplyTlvGoaway, Has, Known
  <2>2. g_floods'[n].count = 0
    BY <1>1, <2>1 DEF New, With, CreateMessage
  <2> QED
    BY <1>0, <2>2, NewEntryChance
<1>2. CASE Has(tlv.dest) \/ n # tlv.dest
  <2>1. \/ UNCHANGED g_floods
        \/ Has(tlv.dest) /\ g_floods' = RemoveSender(tlv.dest, tlv.src)
        \/ n # tlv.dest /\ g_floods' = With(tlv.dest, CreateMessage(tlv.dest))
    BY <1>2 DEF Treats, ApplyTlvData, ApplyTlvAck, ApplyTlvGoaway, Known, New
  <2>2. /\ n \in DOMAIN g_floods
        /\ p \in g_floods[n].recipient
        /\ g_floods'[n].count = g_floods[n].count
        /\ g_floods'[n].send_time = g_floods[n].send_time
        /\ Has(tlv.dest) /\ n = tlv.dest
             /\ g_floods' = RemoveSender(tlv.dest, tlv.src) => p # tlv.src
    <3>1. CASE UNCHANGED g_floods /\ ~(Has(tlv.dest) /\ n = tlv.dest
             /\ g_floods' = RemoveSender(tlv.dest, tlv.src))
      BY <3>1
    <3>2. CASE Has(tlv.dest) /\ g_floods' = RemoveSender(tlv.dest, tlv.src)
      <4>1. DOMAIN g_floods' = DOMAIN g_floods
        BY <3>2 DEF RemoveSender, With, Has
      <4>2. CASE n = tlv.dest
        <5>1. g_floods'[n] = [g_floods[n] EXCEPT !.recipient = @ \ {tlv.src}]
          BY <3>2, <4>2 DEF RemoveSender, With, Has
        <5>2. g_floods[n] \in Message
          BY <1>0, <4>1 DEF TypeOK
        <5> QED
          BY <4>1, <5>1, <5>2 DEF Message
      <4>3. CASE n # tlv.dest
        BY <3>2, <4>1, <4>3 DEF RemoveSender, With
      <4> QED
        BY <4>2, <4>3
    <3>3. CASE n # tlv.dest /\ g_floods' = With(tlv.dest, CreateMessage(tlv.dest))
      BY <3>3 DEF With
    <3> QED
      BY <2>1, <3>1, <3>2, <3>3
  <2>3. ~(tlv.type = "ack" /\ tlv.src = p /\ tlv.dest = n)
    <3>1. SUFFICES ASSUME tlv.type = "ack", tlv.src = p, tlv.dest = n
                   PROVE  FALSE
      OBVIOUS
    <3>2. Has(tlv.dest) /\ g_floods' = RemoveSender(tlv.dest, tlv.src)
      BY <2>2, <3>1 DEF Treats, ApplyTlvData, ApplyTlvAck, ApplyTlvGoaway, Has
    <3> QED
      BY <2>2, <3>1, <3>2
  <2>4. InTransit(n, p) => InTransit(n, p)' \/ Broken({n, p})
    BY <1>0, <2>3, TreatsTransit
  <2> QED
    BY <1>0, <2>2, <2>4, ChanceKept DEF Chance
<1> QED
  BY <1>1, <1>2

LEMMA ChanceStep ==
  ASSUME FaultInv, [Next]_vars
  PROVE  TurnsAreChances'
<1> SUFFICES ASSUME NEW n \in DOMAIN g_floods',
                    NEW p \in g_floods'[n].recipient \cap symetric'[n]
             PROVE  Chance(n, p)'
  BY DEF TurnsAreChances, Chance
<1>0. /\ TypeOK /\ TypeOK' /\ PeersOnly /\ n \in Node
      /\ p \in symetric'[n] /\ p \in symetric[n] /\ {n, p} \in Linked
      /\ faults[{n, p}] \in Nat /\ faults'[{n, p}] \in Nat
  <2>1. /\ TypeOK /\ TypeOK' /\ PeersOnly /\ n \in Node
        /\ p \in symetric'[n] /\ p \in symetric[n]
    BY OnlyWorse, TypeOKStep DEF FaultInv, TypeOK
  <2>2. {n, p} \in Linked
    BY <2>1, Links DEF PeersOnly
  <2> QED
    BY <2>1, <2>2 DEF TypeOK
<1>1. CASE AddMyMessage
  <2>1. CASE n = Author
    BY <1>0, <1>1, <2>1, NewEntryChance
       DEF AddMyMessage, With, CreateMessage
  <2>2. CASE n # Author
    <3>1. /\ n \in DOMAIN g_floods /\ g_floods'[n] = g_floods[n]
          /\ InTransit(n, p) => InTransit(n, p)'
      BY <1>1, <2>2 DEF AddMyMessage, With, InTransit
    <3> QED
      BY <1>0, <3>1, ChanceKept DEF Chance
  <2> QED
    BY <2>1, <2>2
<1>2. ASSUME NEW m \in Node, FloodData(m) PROVE Chance(n, p)'
  <2> DEFINE msg == g_floods[m]
             to  == msg.recipient \cap symetric[m]
  <2>1. PICK delay \in 2^(msg.count + 1) .. 2^(msg.count + 2) - 1 :
          g_floods' = With(m, [count |-> msg.count + 1, send_time |-> delay,
                               recipient |-> to])
    BY <1>2 DEF FloodData
  <2>2. network' = network \cup TlvTo(m, to, "data") /\ UNCHANGED faults
    BY <1>2 DEF FloodData
  <2>3. CASE n = m
    <3>1. msg \in Message /\ msg.count \in 0..COUNT_INOND
      <4>1. msg \in Message /\ ~Exhausted(m)
        BY <1>0, <1>2 DEF FloodData, Due, Has, TypeOK
      <4> QED
        BY <4>1, ReseauAssumption DEF Message, Exhausted
    <3>2. delay > 0
      BY <3>1, Delays
    <3>3. /\ g_floods'[n].count = msg.count + 1
          /\ g_floods'[n].send_time = delay
          /\ p \in to
      BY <2>1, <2>3 DEF With
    <3>4. InTransit(n, p)'
      <4>1. [src |-> n, dest |-> p, type |-> "data"] \in TlvTo(m, to, "data")
        BY <2>3, <3>3 DEF TlvTo
      <4> QED
        BY <2>2, <4>1 DEF InTransit
    <3>5. Broken({n, p}) \/ faults[{n, p}] >= msg.count
      <4>1. n \in DOMAIN g_floods /\ g_floods[n].send_time = 0
        BY <1>2, <2>3 DEF FloodData, Due, Has
      <4>2. p \in g_floods[n].recipient \cap symetric[n]
        BY <2>3, <3>3
      <4>3. Chance(n, p)
        BY <4>1, <4>2 DEF FaultInv, TurnsAreChances, Chance
      <4> QED
        BY <2>3, <4>1, <4>3 DEF Chance
    <3>6. CASE Broken({n, p})
      BY <2>2, <3>6 DEF Chance, Broken
    <3>7. CASE faults[{n, p}] >= msg.count
      <4>1. faults'[{n, p}] + 1 >= g_floods'[n].count
        BY <1>0, <2>2, <3>1, <3>3, <3>7
      <4> QED
        BY <3>2, <3>3, <3>4, <4>1 DEF Chance
    <3> QED
      BY <3>5, <3>6, <3>7
  <2>4. CASE n # m
    <3>1. /\ n \in DOMAIN g_floods /\ g_floods'[n] = g_floods[n]
          /\ InTransit(n, p) => InTransit(n, p)'
      BY <2>1, <2>2, <2>4 DEF With, InTransit
    <3> QED
      BY <1>0, <3>1, ChanceKept DEF Chance
  <2> QED
    BY <2>3, <2>4
<1>3. ASSUME NEW m \in Node, FloodGoAway(m) PROVE Chance(n, p)'
  <2>1. /\ n \in DOMAIN g_floods /\ g_floods'[n] = g_floods[n]
        /\ InTransit(n, p) => InTransit(n, p)'
    BY <1>3 DEF FloodGoAway, Without, InTransit
  <2> QED
    BY <1>0, <2>1, ChanceKept DEF Chance
<1>4. ASSUME NEW tlv \in network, Deliver(tlv) PROVE Chance(n, p)'
  BY <1>4, TreatsChance DEF Deliver, Treats
<1>5. ASSUME NEW tlv \in network, DeliverCopy(tlv) PROVE Chance(n, p)'
  BY <1>5, TreatsChance DEF DeliverCopy, Treats
<1>6. ASSUME NEW tlv \in network, Lose(tlv) PROVE Chance(n, p)'
  <2>1. n \in DOMAIN g_floods /\ g_floods'[n] = g_floods[n]
    BY <1>6 DEF Lose
  <2>2. ASSUME InTransit(n, p), ~InTransit(n, p)'
        PROVE  faults'[{n, p}] >= faults[{n, p}] + 1
    <3>1. \/ tlv = [src |-> n, dest |-> p, type |-> "data"]
          \/ tlv = [src |-> p, dest |-> n, type |-> "ack"]
      BY <1>6, <2>2 DEF Lose, InTransit
    <3>2. LinkOf(tlv) = {n, p}
      BY <3>1 DEF LinkOf
    <3>3. faults'[{n, p}] = faults[{n, p}] + 1
      BY <1>0, <1>6, <3>2 DEF Lose, TypeOK
    <3> QED
      BY <1>0, <3>3
  <2> QED
    BY <1>0, <2>1, <2>2, ChanceKept DEF Chance
<1>7. CASE Second
  <2>1. n \in DOMAIN g_floods
    BY <1>7 DEF Second
  <2>2. /\ g_floods[n] \in Message
        /\ g_floods'[n] = [g_floods[n] EXCEPT !.send_time = @ - 1]
    BY <1>0, <1>7, <2>1 DEF Second, TypeOK
  <2>3. /\ g_floods'[n].count = g_floods[n].count
        /\ g_floods'[n].recipient = g_floods[n].recipient
        /\ g_floods[n].count \in Nat
    BY <2>2, ReseauAssumption DEF Message
  <2>4. /\ InTransit(n, p) => faults'[{n, p}] = faults[{n, p}] + 1
        /\ faults'[{n, p}] >= faults[{n, p}]
    <3>1. InTransit(n, p) => {n, p} \in Late
      BY DEF InTransit, Late, LinkOf
    <3>2. faults'[{n, p}] = IF {n, p} \in Late THEN faults[{n, p}] + 1
                                               ELSE faults[{n, p}]
      BY <1>0, <1>7 DEF Second
    <3> QED
      BY <1>0, <3>1, <3>2
  <2>5. \/ Broken({n, p})
        \/ faults[{n, p}] >= g_floods[n].count
        \/ faults[{n, p}] + 1 >= g_floods[n].count /\ InTransit(n, p)
    BY <1>0, <2>1, <2>3 DEF FaultInv, TurnsAreChances
  <2>6. CASE Broken({n, p})
    BY <1>0, <2>6, BrokenStays DEF Chance
  <2>7. CASE ~Broken({n, p})
    <3>1. faults'[{n, p}] >= g_floods'[n].count
      BY <1>0, <2>3, <2>4, <2>5, <2>7
    <3> QED
      BY <3>1 DEF Chance
  <2> QED
    BY <2>6, <2>7
<1>8. CASE UNCHANGED vars
  <2>1. /\ n \in DOMAIN g_floods /\ g_floods'[n] = g_floods[n]
        /\ InTransit(n, p) => InTransit(n, p)'
    BY <1>8 DEF vars, InTransit
  <2> QED
    BY <1>0, <2>1, ChanceKept DEF Chance
<1> QED
  BY <1>1, <1>2, <1>3, <1>4, <1>5, <1>6, <1>7, <1>8 DEF Next

LEMMA GoodbyesStep ==
  ASSUME FaultInv, [Next]_vars
  PROVE  GoodbyesForFaults'
<1> SUFFICES ASSUME NEW tlv \in network', tlv.type = "go_away"
             PROVE  LinkOf(tlv) \in Linked /\ Broken(LinkOf(tlv))'
  BY DEF GoodbyesForFaults, LinkOf
<1>0. TypeOK /\ TypeOK' /\ PeersOnly
  BY TypeOKStep DEF FaultInv
<1>1. CASE tlv \in network
  <2> DEFINE l == LinkOf(tlv)
  <2>1. l \in Linked /\ Broken(l)
    BY <1>1 DEF FaultInv, GoodbyesForFaults
  <2> HIDE DEF l
  <2>2. Broken(l)'
    BY <1>0, <2>1, BrokenStays
  <2> QED
    BY <2>1, <2>2 DEF l, LinkOf, Broken
<1>2. CASE tlv \notin network
  <2>1. \E n \in Node : FloodGoAway(n)
                        /\ tlv \in TlvTo(n, g_floods[n].recipient
                                              \cap symetric[n], "go_away")
    <3>1. ASSUME NEW n \in Node, FloodData(n) PROVE FALSE
      BY <1>2, <3>1 DEF FloodData, TlvTo
    <3>2. ASSUME NEW old \in network, Deliver(old) \/ DeliverCopy(old)
          PROVE  FALSE
      BY <1>2, <3>2
         DEF Deliver, DeliverCopy, ApplyTlvData, ApplyTlvAck, ApplyTlvGoaway,
             Known, New, Acked, TlvTo
    <3>3. ~AddMyMessage /\ ~Second /\ ~UNCHANGED vars
      BY <1>2 DEF AddMyMessage, Second, vars
    <3>4. \A old \in network : ~Lose(old)
      BY <1>2 DEF Lose
    <3>5. PICK n \in Node : FloodGoAway(n)
      BY <3>1, <3>2, <3>3, <3>4 DEF Next
    <3> QED
      BY <1>2, <3>5 DEF FloodGoAway
  <2>2. PICK n \in Node :
          FloodGoAway(n)
          /\ \E q \in g_floods[n].recipient \cap symetric[n] :
               tlv = [src |-> n, dest |-> q, type |-> "go_away"]
    BY <2>1 DEF TlvTo
  <2>3. PICK p \in g_floods[n].recipient \cap symetric[n] :
          tlv = [src |-> n, dest |-> p, type |-> "go_away"]
    BY <2>2
  <2>4. /\ n \in DOMAIN g_floods /\ g_floods[n].send_time = 0
        /\ g_floods[n].count > COUNT_INOND
        /\ g_floods[n].count \in Nat
        /\ faults' = faults
    BY <1>0, <2>2, ReseauAssumption
       DEF FloodGoAway, Due, Has, Exhausted, TypeOK, Message
  <2>5. Chance(n, p)
    BY <2>4, <2>3 DEF FaultInv, TurnsAreChances, Chance
  <2>6. faults[{n, p}] \in Nat
    BY <1>0, <2>3, Links DEF PeersOnly, TypeOK
  <2>7. Broken({n, p})
    BY <2>4, <2>5, <2>6, ReseauAssumption DEF Chance, Broken
  <2>8. LinkOf(tlv) = {n, p}
    BY <2>3 DEF LinkOf
  <2>9. {n, p} \in Linked
    BY <1>0, <2>3, Links DEF PeersOnly
  <2> QED
    BY <2>4, <2>7, <2>8, <2>9 DEF Broken, LinkOf
<1> QED
  BY <1>1, <1>2

LEMMA DemotedStep ==
  ASSUME FaultInv, [Next]_vars
  PROVE  Demoted'
<1> SUFFICES ASSUME NEW n \in Node, NEW p \in Peers(n), p \notin symetric'[n]
             PROVE  Broken({n, p})'
  BY DEF Demoted, Broken, Peers
<1>0. /\ TypeOK /\ TypeOK' /\ PeersOnly /\ {n, p} \in Linked
  BY TypeOKStep, Links DEF FaultInv
<1>1. CASE p \notin symetric[n]
  <2> DEFINE l == {n, p}
  <2>1. l \in Linked /\ Broken(l)
    BY <1>0, <1>1 DEF FaultInv, Demoted
  <2> HIDE DEF l
  <2>2. Broken(l)'
    BY <1>0, <2>1, BrokenStays
  <2> QED
    BY <2>2 DEF l, Broken
<1>2. CASE p \in symetric[n]
  <2>1. ASSUME NEW m \in Node, FloodGoAway(m) PROVE Broken({n, p})'
    <3>1. n = m /\ p \in g_floods[m].recipient \cap symetric[m]
      BY <1>0, <1>2, <2>1 DEF FloodGoAway, TypeOK
    <3>2. /\ n \in DOMAIN g_floods /\ g_floods[n].send_time = 0
          /\ g_floods[n].count > COUNT_INOND
          /\ g_floods[n].count \in Nat
          /\ faults' = faults
      BY <1>0, <2>1, <3>1, ReseauAssumption
         DEF FloodGoAway, Due, Has, Exhausted, TypeOK, Message
    <3>3. Chance(n, p)
      BY <3>1, <3>2 DEF FaultInv, TurnsAreChances, Chance
    <3>4. faults[{n, p}] \in Nat
      BY <1>0 DEF TypeOK
    <3>5. Broken({n, p})
      BY <3>2, <3>3, <3>4, ReseauAssumption DEF Chance, Broken
    <3> QED
      BY <3>2, <3>5 DEF Broken
  <2>2. ASSUME NEW tlv \in network, Deliver(tlv) \/ DeliverCopy(tlv)
        PROVE  Broken({n, p})'
    <3>1. /\ tlv.type = "go_away" /\ faults' = faults
          /\ symetric' = [symetric EXCEPT ![tlv.dest] = @ \ {tlv.src}]
      BY <1>2, <2>2
         DEF Deliver, DeliverCopy, ApplyTlvData, ApplyTlvAck, ApplyTlvGoaway
    <3>2. tlv.dest = n /\ tlv.src = p
      BY <1>0, <1>2, <3>1 DEF TypeOK
    <3>3. LinkOf(tlv) = {n, p}
      BY <3>2 DEF LinkOf
    <3> QED
      BY <3>1, <3>3 DEF FaultInv, GoodbyesForFaults, Broken
  <2>3. ~AddMyMessage /\ ~Second /\ ~UNCHANGED vars
    BY <1>2 DEF AddMyMessage, Second, vars
  <2>4. \A m \in Node : ~FloodData(m)
    BY <1>2 DEF FloodData
  <2>5. \A tlv \in network : ~Lose(tlv)
    BY <1>2 DEF Lose
  <2> QED
    BY <2>1, <2>2, <2>3, <2>4, <2>5 DEF Next
<1> QED
  BY <1>1, <1>2

LEMMA FaultInvStep ==
  ASSUME FaultInv, [Next]_vars
  PROVE  FaultInv'
<1>1. PeersOnly'
  BY OnlyWorse DEF FaultInv, PeersOnly, Peers
<1> QED
  BY <1>1, TypeOKStep, ChanceStep, GoodbyesStep, DemotedStep DEF FaultInv

\* On any network, two nodes stop flooding each other only after more than
\* COUNT_INOND faults of their link.
THEOREM DemotionsForFaults == Spec => []DemotedForFaults
<1>1. FaultInv => DemotedForFaults
  <2> SUFFICES ASSUME FaultInv, NEW l \in Linked, faults[l] <= COUNT_INOND,
                      NEW n \in l, NEW p \in l, n # p
               PROVE  p \in symetric[n]
    BY DEF DemotedForFaults
  <2>1. l = {n, p} /\ n \in Node /\ p \in Node
    BY ReseauAssumption
  <2>2. p \in Peers(n)
    BY <2>1 DEF Peers
  <2>3. faults[l] \in Nat /\ COUNT_INOND \in Nat
    BY ReseauAssumption DEF FaultInv, TypeOK
  <2> QED
    BY <2>1, <2>2, <2>3 DEF FaultInv, Demoted, Broken
<1> QED
  BY <1>1, FaultInvInit, FaultInvStep, PTL DEF Spec

-----------------------------------------------------------------------------
(* The network implements Propagation, liveness apart *)

\* Who sends the message or floods it has displayed it, the author first.
Spread ==
  /\ TypeOK
  /\ PeersOnly
  /\ \A tlv \in network : tlv.type = "data" => shown[tlv.src] > 0
  /\ \A n \in DOMAIN g_floods : shown[n] > 0
  /\ \A n \in Node : shown[n] > 0 => shown[Author] > 0

LEMMA SpreadInit == Init => Spread
BY FaultInvInit DEF FaultInv, Init, Spread

\* What a step does to the nodes that have displayed the message.
LEMMA ShownStep ==
  ASSUME Spread, [Next]_vars
  PROVE  \/ shown' = shown
         \/ /\ AddMyMessage
            /\ \A n \in Node : shown[n] = 0
            /\ \A n \in Node : shown'[n] > 0 <=> n = Author
         \/ \E q \in Node, p \in Node :
              /\ shown[p] > 0 /\ {p, q} \in Linked
              /\ UNCHANGED symetric
              /\ \A n \in Node : shown'[n] > 0 <=> shown[n] > 0 \/ n = q
<1>0. TypeOK /\ \A n \in Node : shown[n] \in 0..2
  BY DEF Spread, TypeOK
<1>1. CASE AddMyMessage
  <2>1. \A n \in Node : shown[n] = 0
    BY <1>0, <1>1 DEF AddMyMessage, Spread
  <2>2. \A n \in Node : shown'[n] = IF n = Author THEN 1 ELSE shown[n]
    BY <1>1 DEF AddMyMessage, Spread, TypeOK
  <2> QED
    BY <1>1, <2>1, <2>2
<1>2. ASSUME NEW tlv \in network, Deliver(tlv) \/ DeliverCopy(tlv)
      PROVE  \/ shown' = shown
             \/ \E q \in Node, p \in Node :
                  /\ shown[p] > 0 /\ {p, q} \in Linked
                  /\ UNCHANGED symetric
                  /\ \A n \in Node : shown'[n] > 0 <=> shown[n] > 0 \/ n = q
  <2>1. PICK left : Treats(tlv, left)
    BY <1>2 DEF Deliver, DeliverCopy, Treats
  <2>2. SUFFICES ASSUME shown' # shown PROVE
          \E q \in Node, p \in Node :
            /\ shown[p] > 0 /\ {p, q} \in Linked
            /\ UNCHANGED symetric
            /\ \A n \in Node : shown'[n] > 0 <=> shown[n] > 0 \/ n = q
    OBVIOUS
  <2>3. /\ tlv.type = "data" /\ New(tlv, left) /\ UNCHANGED symetric
        /\ tlv.src \in symetric[tlv.dest]
    BY <2>1, <2>2
       DEF Treats, ApplyTlvData, ApplyTlvAck, ApplyTlvGoaway, Known
  <2> DEFINE q == tlv.dest
             p == tlv.src
  <2>4. p \in Node /\ q \in Node /\ shown[p] > 0
    BY <1>0, <2>3 DEF TypeOK, Tlv, Spread
  <2>5. {p, q} \in Linked
    <3>1. p \in Peers(q) /\ {p, q} = {q, p}
      BY <2>3, <2>4 DEF Spread, PeersOnly
    <3> QED
      BY <3>1 DEF Peers
  <2>6. \A n \in Node : shown'[n] = IF n = q THEN IF shown[n] = 0 THEN 1 ELSE 2
                                    ELSE shown[n]
    BY <1>0, <2>3 DEF New, TypeOK
  <2>7. \A n \in Node : shown'[n] > 0 <=> shown[n] > 0 \/ n = q
    BY <1>0, <2>6
  <2> QED
    BY <2>3, <2>4, <2>5, <2>7
<1>3. ASSUME ~AddMyMessage,
             \A tlv \in network : ~Deliver(tlv) /\ ~DeliverCopy(tlv)
      PROVE  shown' = shown
  BY <1>3 DEF Next, FloodData, FloodGoAway, Lose, Second, vars
<1> QED
  BY <1>1, <1>2, <1>3

LEMMA SpreadStep ==
  ASSUME Spread, [Next]_vars
  PROVE  Spread'
<1>0. /\ TypeOK /\ TypeOK' /\ PeersOnly'
      /\ \A n \in Node : shown[n] \in 0..2 /\ shown'[n] \in 0..2
      /\ Author \in Node
  BY TypeOKStep, OnlyWorse, ReseauAssumption
     DEF Spread, PeersOnly, Peers, TypeOK
<1>1. \A n \in Node : shown[n] > 0 => shown'[n] > 0
  <2> SUFFICES ASSUME NEW n \in Node, shown[n] > 0 PROVE shown'[n] > 0
    OBVIOUS
  <2>1. shown[n] # 0
    BY <1>0
  <2>2. \/ shown' = shown
        \/ shown[n] = 0
        \/ shown'[n] > 0 <=> shown[n] > 0
    BY ShownStep
  <2> QED
    BY <2>1, <2>2
<1>2. \A n \in Node : shown'[n] > 0 => shown'[Author] > 0
  BY <1>0, <1>1, ShownStep DEF Spread
<1>3. ASSUME NEW tlv \in network', tlv.type = "data", tlv \notin network
      PROVE  shown[tlv.src] > 0
  <2>1. \A old \in network : ~Deliver(old) /\ ~DeliverCopy(old)
    BY <1>3
       DEF Deliver, DeliverCopy, ApplyTlvData, ApplyTlvAck, ApplyTlvGoaway,
           Known, New, Acked, TlvTo
  <2>2. /\ \A n \in Node : ~FloodGoAway(n)
        /\ ~AddMyMessage /\ ~Second /\ ~UNCHANGED vars
        /\ \A old \in network : ~Lose(old)
    BY <1>3 DEF FloodGoAway, TlvTo, AddMyMessage, Second, vars, Lose
  <2>3. PICK n \in Node : FloodData(n)
    BY <2>1, <2>2 DEF Next
  <2>4. tlv.src = n
    BY <1>3, <2>3 DEF FloodData, TlvTo
  <2> QED
    BY <2>3, <2>4 DEF FloodData, Due, Has, Spread
<1>4. \A tlv \in network' : tlv.type = "data" => shown'[tlv.src] > 0
  <2> SUFFICES ASSUME NEW tlv \in network', tlv.type = "data"
               PROVE  shown'[tlv.src] > 0
    OBVIOUS
  <2>1. shown[tlv.src] > 0 /\ tlv.src \in Node
    BY <1>0, <1>3 DEF Spread, TypeOK, Tlv
  <2> QED
    BY <1>1, <2>1
<1>5. \A n \in DOMAIN g_floods' : shown'[n] > 0
  <2> SUFFICES ASSUME NEW n \in DOMAIN g_floods' PROVE shown'[n] > 0
    OBVIOUS
  <2>0. n \in Node
    BY <1>0 DEF TypeOK
  <2>1. CASE n \in DOMAIN g_floods
    BY <1>1, <2>0, <2>1 DEF Spread
  <2>2. CASE n \notin DOMAIN g_floods
    <3>1. CASE AddMyMessage
      BY <1>0, <2>2, <3>1 DEF AddMyMessage, With, TypeOK
    <3>2. ASSUME NEW tlv \in network, Deliver(tlv) \/ DeliverCopy(tlv)
          PROVE  shown'[n] > 0
      <4>1. PICK left : Treats(tlv, left)
        BY <3>2 DEF Deliver, DeliverCopy, Treats
      <4>2. New(tlv, left) /\ n = tlv.dest
        BY <2>2, <4>1
           DEF Treats, ApplyTlvData, ApplyTlvAck, ApplyTlvGoaway, Known, New,
               RemoveSender, With, Has
      <4> QED
        BY <1>0, <2>0, <4>2 DEF New, TypeOK
    <3>3. /\ \A m \in Node : ~FloodData(m) /\ ~FloodGoAway(m)
          /\ \A old \in network : ~Lose(old)
          /\ ~Second /\ ~UNCHANGED vars
      BY <2>2 DEF FloodData, FloodGoAway, Due, Has, With, Without, Lose,
                  Second, vars
    <3> QED
      BY <3>1, <3>2, <3>3 DEF Next
  <2> QED
    BY <2>1, <2>2
<1> QED
  BY <1>0, <1>2, <1>4, <1>5 DEF Spread

LEMMA InitImplements == Init => Propagation!Init
<1> SUFFICES ASSUME Init PROVE Propagation!Init
  OBVIOUS
<1>1. {n \in Node : shown[n] > 0} = {}
  BY DEF Init
<1>2. {l \in Linked : \A n, p \in l : n # p => p \in symetric[n]} = Linked
  <2> SUFFICES ASSUME NEW l \in Linked, NEW n \in l, NEW p \in l, n # p
               PROVE  p \in symetric[n]
    OBVIOUS
  <2>1. l = {n, p} /\ n \in Node /\ p \in Node
    BY ReseauAssumption
  <2> QED
    BY <2>1 DEF Init, Peers
<1> QED
  BY <1>1, <1>2 DEF Propagation!Init

LEMMA StepImplements ==
  ASSUME Spread, [Next]_vars
  PROVE  [Propagation!Next]_(Propagation!propagationVars)
<1> DEFINE reached == {n \in Node : shown[n] > 0}
           links   == {l \in Linked : \A n, p \in l : n # p => p \in symetric[n]}
<1>0. Author \in Node /\ \A n \in Node : shown[n] \in 0..2
  BY ReseauAssumption DEF Spread, TypeOK
<1>1. CASE shown' = shown
  <2>1. links' \subseteq links
    <3>1. \A l \in Linked : l \subseteq Node
      BY ReseauAssumption
    <3> QED
      BY <3>1, OnlyWorse DEF Spread
  <2>2. reached' = reached
    BY <1>1
  <2>3. CASE links' = links
    BY <2>2, <2>3 DEF Propagation!propagationVars
  <2>4. CASE links' # links
    BY <2>1, <2>2, <2>4 DEF Propagation!Next, Propagation!Cut
  <2> QED
    BY <2>3, <2>4
<1>2. CASE /\ AddMyMessage
           /\ \A n \in Node : shown[n] = 0
           /\ \A n \in Node : shown'[n] > 0 <=> n = Author
  <2>1. reached = {} /\ reached' = {Author}
    BY <1>0, <1>2
  <2>2. links' = links
    BY <1>2 DEF AddMyMessage
  <2> QED
    BY <2>1, <2>2 DEF Propagation!Next, Propagation!Write
<1>3. ASSUME NEW q \in Node, NEW p \in Node,
             shown[p] > 0, {p, q} \in Linked, UNCHANGED symetric,
             \A n \in Node : shown'[n] > 0 <=> shown[n] > 0 \/ n = q
      PROVE  [Propagation!Next]_(Propagation!propagationVars)
  <2>1. /\ p \in reached
        /\ reached' = reached \cup {q}
        /\ links' = links
    BY <1>3
  <2>2. CASE q \in reached
    BY <2>1, <2>2 DEF Propagation!propagationVars
  <2>3. CASE q \notin reached
    BY <1>3, <2>1, <2>3 DEF Propagation!Next, Propagation!SpreadOver
  <2> QED
    BY <2>2, <2>3
<1> QED
  BY <1>1, <1>2, <1>3, ShownStep

\* The message spreads node by node over links, from the author on, whatever
\* is lost, late or repeated, and links are only ever cut.
THEOREM ImplementsPropagationSafety == Spec => Propagation!Safety
BY SpreadInit, SpreadStep, InitImplements, StepImplements, PTL
   DEF Spec, Propagation!Safety

-----------------------------------------------------------------------------
(* How long a node keeps the message, how long it may send it              *)

\* Seconds before msg is forgotten, at least: the shortest delays.
MinLeft(msg) == msg.send_time + 2^(COUNT_INOND + 2) - 2^(msg.count + 1)

\* Seconds from turn i to turn i + k, at most: the longest delays.
Reach(i, k) == 2^(i + k + 2) - 2^(i + 2) - k

LEMMA ReachGrows ==
  ASSUME NEW i \in 0..COUNT_INOND, NEW k \in 0..(COUNT_INOND - i)
  PROVE  /\ Reach(i, k) \in Nat /\ k <= Reach(i, k)
         /\ \A j \in 0..k : Reach(i, j) \in Nat /\ Reach(i, j) <= Reach(i, k)
<1> DEFINE N == COUNT_INOND - i
           S == {m \in 0..N : /\ Reach(i, m) \in Nat /\ m <= Reach(i, m)
                              /\ \A j \in 0..m : /\ Reach(i, j) \in Nat
                                                 /\ Reach(i, j) <= Reach(i, m)}
<1>1. N \in Nat /\ COUNT_INOND \in Nat
  BY ReseauAssumption
<1>2. 0 \in S
  <2>1. i + 0 + 2 = i + 2 /\ i + 2 \in 0..(COUNT_INOND + 2)
    BY <1>1
  <2>2. 2^(i + 2) \in Nat
    BY <2>1, Powers
  <2>3. Reach(i, 0) = 0
    BY <2>1, <2>2 DEF Reach
  <2> QED BY <1>1, <2>3
<1>3. ASSUME NEW m \in 0..(N - 1), m \in S PROVE m + 1 \in S
  <2> DEFINE e == i + m + 1
  <2>1. /\ e \in 0..(COUNT_INOND + 1) /\ e + 1 \in 0..(COUNT_INOND + 1)
        /\ i + m + 2 = e + 1 /\ i + (m + 1) + 2 = (e + 1) + 1
        /\ i + 2 \in 0..(COUNT_INOND + 2)
        /\ e \in 0..(COUNT_INOND + 2) /\ e + 1 \in 0..(COUNT_INOND + 2)
    BY <1>1
  <2> HIDE DEF e
  <2>2. /\ 2^e \in Nat \ {0} /\ 2^(e + 1) = 2 * 2^e
        /\ 2^((e + 1) + 1) = 2 * 2^(e + 1) /\ 2^(i + 2) \in Nat
    BY <2>1, Powers
  <2>3. Reach(i, m + 1) = Reach(i, m) + (2^(e + 1) - 1) /\ 2^(e + 1) >= 2
    BY <2>1, <2>2 DEF Reach
  <2>4. /\ Reach(i, m) \in Nat /\ m <= Reach(i, m)
        /\ \A j \in 0..m : Reach(i, j) \in Nat /\ Reach(i, j) <= Reach(i, m)
    BY <1>3
  <2>5. /\ Reach(i, m + 1) \in Nat /\ m + 1 <= Reach(i, m + 1)
        /\ Reach(i, m) <= Reach(i, m + 1)
    BY <2>2, <2>3, <2>4
  <2>6. ASSUME NEW j \in 0..(m + 1)
        PROVE  Reach(i, j) \in Nat /\ Reach(i, j) <= Reach(i, m + 1)
    <3>1. j = m + 1 \/ j \in 0..m
      OBVIOUS
    <3> QED BY <2>4, <2>5, <3>1
  <2>7. m + 1 \in 0..N
    BY <1>1
  <2> QED BY <2>5, <2>6, <2>7
<1> HIDE DEF S
<1>4. \A m \in 0..N : m \in S
  BY <1>1, <1>2, <1>3, NatSetInduction
<1> QED BY <1>4 DEF S

\* One turn is the longest delay after it, and the turns after that.
LEMMA ReachTurn ==
  ASSUME NEW i \in 0..COUNT_INOND, NEW k \in 1..(COUNT_INOND - i)
  PROVE  Reach(i, k) = 2^(i + 2) - 1 + Reach(i + 1, k - 1)
<1>1. /\ i + k + 2 \in 0..(COUNT_INOND + 2) /\ i + 2 \in 0..(COUNT_INOND + 1)
      /\ i + 2 \in 0..(COUNT_INOND + 2) /\ i + 3 \in 0..(COUNT_INOND + 2)
      /\ (i + 1) + (k - 1) + 2 = i + k + 2 /\ (i + 1) + 2 = i + 3 /\ (i + 2) + 1 = i + 3
  BY ReseauAssumption
<1>2. /\ 2^(i + k + 2) \in Nat /\ 2^(i + 2) \in Nat /\ 2^(i + 3) = 2 * 2^(i + 2)
  BY <1>1, Powers
<1> QED BY <1>1, <1>2 DEF Reach

\* Who takes the message later than somebody keeps it longer than the other
\* may send it.
LEMMA NewcomerOutlives ==
  ASSUME NEW i \in 0..COUNT_INOND, NEW k \in 0..(COUNT_INOND - i),
         NEW s \in Nat, s <= 2^(i + 1) - 1
  PROVE  s + Reach(i, k) < 2^(COUNT_INOND + 2) - 1
<1>1. /\ i + k + 2 \in 0..(COUNT_INOND + 2) /\ i + 1 \in 0..(COUNT_INOND + 1)
      /\ i + 1 \in 0..(COUNT_INOND + 2)
      /\ COUNT_INOND + 2 \in 0..(COUNT_INOND + 2) /\ (i + 1) + 1 = i + 2
      /\ i + k + 2 \in 0..(COUNT_INOND + 2)
      /\ i + k + 2 <= COUNT_INOND + 2
  BY ReseauAssumption
<1>2. /\ 2^(i + k + 2) \in Nat /\ 2^(i + 1) \in Nat \ {0} /\ 2^(i + 2) = 2 * 2^(i + 1)
      /\ 2^(COUNT_INOND + 2) \in Nat
  BY <1>1, Powers
<1>3. 2^(i + k + 2) <= 2^(COUNT_INOND + 2)
  <2>1. i + k + 2 \in 0..(COUNT_INOND + 2)
    BY <1>1
  <2> QED BY <1>1, <2>1, Powers
<1> QED BY <1>2, <1>3 DEF Reach

\* Who took it early, f faults ago, still keeps it longer than a newcomer may
\* send it on a link with the faults left.
LEMMA ElderOutlives ==
  ASSUME NEW f \in 0..COUNT_INOND
  PROVE  2^(COUNT_INOND + 2) - 2^(f + 1) > 1 + Reach(0, COUNT_INOND - f)
<1> DEFINE N == COUNT_INOND
<1>1. N \in Nat /\ f \in Nat /\ f <= N
  BY ReseauAssumption
<1> HIDE DEF N
<1>2. 0 + (N - f) + 2 = N - f + 2 /\ 0 + 2 = 2
  BY <1>1
<1>3. 2^2 = 4 /\ 2^1 = 2
  OBVIOUS
<1>4. Reach(0, N - f) = 2^(N - f + 2) - 4 - (N - f)
  BY <1>2, <1>3 DEF Reach
<1>5. N + 2 \in 0..(N + 2) /\ N + 1 \in 0..(N + 1) /\ N + 1 \in 0..(N + 2)
      /\ (N + 1) + 1 = N + 2 /\ f + 1 \in 0..(N + 1) /\ f + 1 \in 0..(N + 2)
  BY <1>1
<1>6. 2^(N + 2) \in Nat /\ 2^(N + 1) \in Nat /\ 2^(N + 2) = 2 * 2^(N + 1)
      /\ 2^(f + 1) \in Nat /\ 2^(f + 1) <= 2^(N + 1)
  BY <1>5, Powers DEF N
<1>7. CASE f = 0
  <2>1. N - f + 2 = N + 2 /\ f + 1 = 1 /\ N - f = N
    BY <1>1, <1>7
  <2>2. 2^(f + 1) = 2 /\ Reach(0, N - f) = 2^(N + 2) - 4 - N
    BY <1>3, <1>4, <2>1
  <2>3. 2^(N + 2) - 2^(f + 1) > 1 + Reach(0, N - f)
    BY <1>1, <1>6, <2>2
  <2> QED BY <2>3 DEF N
<1>8. CASE f # 0
  <2>1. N - f + 2 \in 0..(N + 1)
    BY <1>1, <1>8
  <2>2. 2^(N - f + 2) <= 2^(N + 1) /\ 2^(N - f + 2) \in Nat
    <3>1. N - f + 2 \in 0..(N + 2)
      BY <1>1, <1>8
    <3> QED BY <1>5, <2>1, <3>1, Powers DEF N
  <2> QED BY <1>1, <1>4, <1>6, <2>2 DEF N
<1> QED BY <1>7, <1>8

-----------------------------------------------------------------------------
(* Entries and TLVs, whatever the faults *)

LEMMA ShownGrows ==
  ASSUME Spread, [Next]_vars, NEW n \in Node, shown[n] > 0
  PROVE  shown'[n] > 0
<1>1. shown[n] \in 0..2
  BY DEF Spread, TypeOK
<1>2. shown[n] # 0
  BY <1>1
<1>3. shown' = shown \/ shown[n] = 0 \/ (shown'[n] > 0 <=> shown[n] > 0)
               \/ shown'[n] > 0
  BY ShownStep
<1> QED BY <1>2, <1>3

\* What a step does to an entry: it is new, has had its turn, or has only
\* become older and lost recipients.
LEMMA EntryStep ==
  ASSUME TypeOK, [Next]_vars, NEW n \in DOMAIN g_floods'
  PROVE  \/ g_floods'[n] = CreateMessage(n)
         \/ FloodData(n)
         \/ /\ n \in DOMAIN g_floods
            /\ g_floods'[n].count = g_floods[n].count
            /\ g_floods'[n].send_time \in {g_floods[n].send_time, g_floods[n].send_time - 1}
            /\ g_floods'[n].recipient \subseteq g_floods[n].recipient
<1> DEFINE Older == /\ n \in DOMAIN g_floods
                    /\ g_floods'[n].count = g_floods[n].count
                    /\ g_floods'[n].send_time \in {g_floods[n].send_time,
                                                   g_floods[n].send_time - 1}
                    /\ g_floods'[n].recipient \subseteq g_floods[n].recipient
           Goal == g_floods'[n] = CreateMessage(n) \/ FloodData(n) \/ Older
<1>1. CASE AddMyMessage
  BY <1>1 DEF AddMyMessage, With
<1>2. ASSUME NEW m \in Node, FloodData(m) PROVE Goal
  <2>1. n = m \/ (n \in DOMAIN g_floods /\ g_floods'[n] = g_floods[n])
    BY <1>2 DEF FloodData, With
  <2> QED BY <1>2, <2>1
<1>3. ASSUME NEW m \in Node, FloodGoAway(m) PROVE Goal
  BY <1>3 DEF FloodGoAway, Without
<1>4. ASSUME NEW tlv \in network, Deliver(tlv) \/ DeliverCopy(tlv) PROVE Goal
  <2>1. PICK left : Treats(tlv, left)
    BY <1>4 DEF Deliver, DeliverCopy, Treats
  <2>2. \/ UNCHANGED g_floods
        \/ Has(tlv.dest) /\ g_floods' = RemoveSender(tlv.dest, tlv.src)
        \/ g_floods' = With(tlv.dest, CreateMessage(tlv.dest))
    BY <2>1 DEF Treats, ApplyTlvData, ApplyTlvAck, ApplyTlvGoaway, Known, New
  <2>3. CASE UNCHANGED g_floods
    BY <2>3
  <2>4. CASE Has(tlv.dest) /\ g_floods' = RemoveSender(tlv.dest, tlv.src)
    <3>1. n \in DOMAIN g_floods
      BY <2>4 DEF RemoveSender, With, Has
    <3>2. \/ g_floods'[n] = g_floods[n]
          \/ g_floods'[n] = [g_floods[n] EXCEPT !.recipient = @ \ {tlv.src}]
      BY <2>4, <3>1 DEF RemoveSender, With, Has
    <3>3. g_floods[n] \in Message
      BY <3>1 DEF TypeOK
    <3> QED BY <3>1, <3>2, <3>3 DEF Message
  <2>5. CASE g_floods' = With(tlv.dest, CreateMessage(tlv.dest))
    BY <2>5 DEF With
  <2> QED BY <2>2, <2>3, <2>4, <2>5
<1>5. ASSUME NEW tlv \in network, Lose(tlv) PROVE Goal
  BY <1>5 DEF Lose
<1>6. CASE Second
  <2>1. /\ n \in DOMAIN g_floods
        /\ g_floods'[n] = [g_floods[n] EXCEPT !.send_time = @ - 1]
    BY <1>6 DEF Second
  <2>2. g_floods[n] \in Message
    BY <2>1 DEF TypeOK
  <2> QED BY <2>1, <2>2 DEF Message
<1>7. CASE UNCHANGED vars
  BY <1>7 DEF vars
<1> QED BY <1>1, <1>2, <1>3, <1>4, <1>5, <1>6, <1>7 DEF Next

\* The TLVs a step puts on their way: those of a turn, or an acknowledgement.
LEMMA TlvStep ==
  ASSUME TypeOK, [Next]_vars, NEW tlv \in network', tlv \notin network
  PROVE  \/ /\ tlv.type \in {"data", "go_away"} /\ tlv.src \in Node
            /\ Has(tlv.src)
            /\ tlv.dest \in g_floods[tlv.src].recipient \cap symetric[tlv.src]
         \/ /\ tlv.type = "ack"
            /\ \E old \in network :
                 /\ old.type = "data" /\ old.src = tlv.dest /\ old.dest = tlv.src
                 /\ old.src \in symetric[old.dest]
                 /\ Deliver(old) \/ DeliverCopy(old)
<1>1. ASSUME NEW n \in Node, NEW type \in {"data", "go_away"}, Has(n),
             tlv \in TlvTo(n, g_floods[n].recipient \cap symetric[n], type)
      PROVE  /\ tlv.type \in {"data", "go_away"} /\ tlv.src \in Node
             /\ Has(tlv.src)
             /\ tlv.dest \in g_floods[tlv.src].recipient \cap symetric[tlv.src]
  BY <1>1 DEF TlvTo
<1>2. ASSUME NEW n \in Node, FloodData(n)
      PROVE  Has(n) /\ tlv \in TlvTo(n, g_floods[n].recipient \cap symetric[n], "data")
  BY <1>2 DEF FloodData, Due
<1>3. ASSUME NEW n \in Node, FloodGoAway(n)
      PROVE  Has(n) /\ tlv \in TlvTo(n, g_floods[n].recipient \cap symetric[n], "go_away")
  BY <1>3 DEF FloodGoAway, Due
<1>4. ASSUME NEW old \in network, Deliver(old) \/ DeliverCopy(old)
      PROVE  /\ tlv.type = "ack"
             /\ old.type = "data" /\ old.src = tlv.dest /\ old.dest = tlv.src
             /\ old.src \in symetric[old.dest]
  <2>1. PICK left \in SUBSET network : Treats(old, left)
    BY <1>4 DEF Deliver, DeliverCopy, Treats
  <2>2. /\ ApplyTlvData(old, left) /\ old.src \in symetric[old.dest]
        /\ network' = Acked(old, left)
    BY <2>1 DEF Treats, ApplyTlvData, ApplyTlvAck, ApplyTlvGoaway, Known, New
  <2> QED BY <2>2 DEF ApplyTlvData, Acked, TlvTo
<1>5. /\ ~AddMyMessage /\ ~Second /\ ~UNCHANGED vars
      /\ \A old \in network : ~Lose(old)
  BY DEF AddMyMessage, Second, vars, Lose
<1> QED BY <1>1, <1>2, <1>3, <1>4, <1>5 DEF Next

\* Recipients are peers other than the author, a due date is no further than
\* the longest delay, and TLVs follow links, none taking the message back to
\* the author.
LinkInv ==
  /\ \A n \in DOMAIN g_floods :
       /\ g_floods[n].recipient \subseteq Peers(n) \ {Author}
       /\ g_floods[n].send_time <= 2^(g_floods[n].count + 1) - 1
  /\ \A tlv \in network :
       /\ LinkOf(tlv) \in Linked
       /\ tlv.type # "go_away" => shown[tlv.src] > 0
       /\ tlv.type = "data" => tlv.dest # Author

LEMMA TurnIs ==
  ASSUME TypeOK, NEW n \in Node, FloodData(n)
  PROVE  /\ Has(n) /\ g_floods[n] \in Message
         /\ g_floods[n].count \in 0..COUNT_INOND /\ g_floods[n].send_time = 0
         /\ DOMAIN g_floods' = DOMAIN g_floods
         /\ \A m \in DOMAIN g_floods : m # n => g_floods'[m] = g_floods[m]
         /\ g_floods'[n].count = g_floods[n].count + 1
         /\ g_floods'[n].recipient = g_floods[n].recipient \cap symetric[n]
         /\ g_floods'[n].send_time \in
              2^(g_floods[n].count + 1) .. 2^(g_floods[n].count + 2) - 1
<1> DEFINE msg == g_floods[n]
           to == msg.recipient \cap symetric[n]
<1>1. Has(n) /\ msg \in Message /\ msg.count \in 0..COUNT_INOND /\ msg.send_time = 0
  BY ReseauAssumption DEF FloodData, Due, Has, Exhausted, TypeOK, Message
<1>2. PICK delay \in 2^(msg.count + 1) .. 2^(msg.count + 2) - 1 :
        g_floods' = With(n, [count |-> msg.count + 1, send_time |-> delay,
                             recipient |-> to])
  BY DEF FloodData
<1>3. /\ DOMAIN g_floods' = DOMAIN g_floods
      /\ \A m \in DOMAIN g_floods : m # n => g_floods'[m] = g_floods[m]
      /\ g_floods'[n] = [count |-> msg.count + 1, send_time |-> delay, recipient |-> to]
  BY <1>1, <1>2 DEF With, Has
<1> QED BY <1>1, <1>3

LEMMA LinkInvStep ==
  ASSUME Spread, LinkInv, [Next]_vars
  PROVE  LinkInv'
<1>1. TypeOK /\ TypeOK' /\ PeersOnly /\ COUNT_INOND \in Nat
  BY TypeOKStep, ReseauAssumption DEF Spread
<1>2. ASSUME NEW n \in DOMAIN g_floods'
      PROVE  /\ g_floods'[n].recipient \subseteq Peers(n) \ {Author}
             /\ g_floods'[n].send_time <= 2^(g_floods'[n].count + 1) - 1
  <2>1. n \in Node
    BY <1>1 DEF TypeOK
  <2>2. CASE g_floods'[n] = CreateMessage(n)
    <3>1. /\ g_floods'[n].recipient = symetric[n] \ {Author}
          /\ g_floods'[n].send_time = 1 /\ g_floods'[n].count = 0
      BY <2>2 DEF CreateMessage
    <3>2. 2^(0 + 1) = 2
      OBVIOUS
    <3> QED BY <1>1, <2>1, <3>1, <3>2 DEF PeersOnly
  <2>3. CASE FloodData(n)
    <3> DEFINE count == g_floods[n].count
    <3>1. /\ n \in DOMAIN g_floods /\ count \in 0..COUNT_INOND
          /\ g_floods'[n].count = count + 1
          /\ g_floods'[n].recipient \subseteq g_floods[n].recipient
          /\ g_floods'[n].send_time \in 2^(count + 1) .. 2^(count + 2) - 1
      BY <1>1, <2>1, <2>3, TurnIs DEF Has
    <3>2. /\ (count + 1) + 1 = count + 2 /\ count + 1 \in 0..(COUNT_INOND + 2)
          /\ count + 2 \in 0..(COUNT_INOND + 2)
      BY <1>1, <3>1
    <3>3. 2^(count + 1) \in Int /\ 2^(count + 2) \in Int
      BY <3>2, Powers
    <3>4. g_floods'[n].send_time <= 2^(g_floods'[n].count + 1) - 1
      BY <3>1, <3>2, <3>3
    <3> QED BY <3>1, <3>4 DEF LinkInv
  <2>4. CASE /\ n \in DOMAIN g_floods
             /\ g_floods'[n].count = g_floods[n].count
             /\ g_floods'[n].send_time \in {g_floods[n].send_time,
                                            g_floods[n].send_time - 1}
             /\ g_floods'[n].recipient \subseteq g_floods[n].recipient
    <3>1. g_floods[n] \in Message
      BY <1>1, <2>4 DEF TypeOK
    <3>2. /\ g_floods[n].send_time \in Int /\ g_floods[n].count \in 0..(COUNT_INOND + 1)
          /\ g_floods[n].count + 1 \in 0..(COUNT_INOND + 2)
      <4>1. MaxDelay \in Int
        <5>1. COUNT_INOND + 2 \in 0..(COUNT_INOND + 2)
          BY <1>1
        <5> QED BY <5>1, Powers DEF MaxDelay
      <4> QED BY <1>1, <3>1, <4>1 DEF Message
    <3>3. 2^(g_floods[n].count + 1) \in Int
      BY <3>2, Powers
    <3>4. g_floods[n].send_time <= 2^(g_floods[n].count + 1) - 1
      BY <2>4 DEF LinkInv
    <3>5. g_floods'[n].send_time <= 2^(g_floods'[n].count + 1) - 1
      BY <2>4, <3>2, <3>3, <3>4
    <3> QED BY <2>4, <3>5 DEF LinkInv
  <2> QED BY <1>1, <2>2, <2>3, <2>4, EntryStep
<1>3. ASSUME NEW tlv \in network'
      PROVE  /\ LinkOf(tlv) \in Linked
             /\ tlv.type # "go_away" => shown'[tlv.src] > 0
             /\ tlv.type = "data" => tlv.dest # Author
  <2>1. tlv.src \in Node /\ tlv.dest \in Node
    BY <1>1 DEF TypeOK, Tlv
  <2>2. CASE tlv \in network
    BY <2>1, <2>2, ShownGrows DEF LinkInv
  <2>3. CASE /\ tlv.type \in {"data", "go_away"} /\ Has(tlv.src)
             /\ tlv.dest \in g_floods[tlv.src].recipient \cap symetric[tlv.src]
    <3>1. tlv.dest \in Peers(tlv.src) /\ tlv.dest # Author
      BY <2>3 DEF LinkInv, Has
    <3>2. LinkOf(tlv) \in Linked
      BY <2>1, <3>1, Links DEF LinkOf
    <3>3. shown[tlv.src] > 0
      BY <2>3 DEF Spread, Has
    <3> QED BY <2>1, <3>1, <3>2, <3>3, ShownGrows
  <2>4. ASSUME NEW old \in network, tlv.type = "ack",
               old.type = "data", old.src = tlv.dest, old.dest = tlv.src,
               old.src \in symetric[old.dest], Deliver(old) \/ DeliverCopy(old)
        PROVE  LinkOf(tlv) \in Linked /\ shown'[tlv.src] > 0
    <3>1. LinkOf(tlv) = LinkOf(old)
      BY <2>4 DEF LinkOf
    <3>2. PICK left : Treats(old, left)
      BY <2>4 DEF Deliver, DeliverCopy, Treats
    <3>3. Known(old, left) \/ New(old, left)
      BY <2>4, <3>2 DEF Treats, ApplyTlvData, ApplyTlvAck, ApplyTlvGoaway
    <3>4. ASSUME Known(old, left) PROVE shown'[tlv.src] > 0
      BY <2>1, <2>4, <3>4, ShownGrows DEF Known, Has, Spread
    <3>5. ASSUME New(old, left) PROVE shown'[tlv.src] > 0
      <4>1. shown'[old.dest] = IF shown[old.dest] = 0 THEN 1 ELSE 2
        BY <1>1, <2>1, <2>4, <3>5 DEF New, TypeOK
      <4> QED BY <2>4, <4>1
    <3> QED BY <3>1, <3>3, <3>4, <3>5 DEF LinkInv
  <2> QED BY <1>1, <2>2, <2>3, <2>4, TlvStep
<1> QED BY <1>2, <1>3 DEF LinkInv, LinkOf, Peers

LEMMA LinkInvInit == Init => LinkInv
BY DEF Init, LinkInv

-----------------------------------------------------------------------------
(* Nobody displays the message twice while no link is broken               *)

Fine == \A l \in Linked : faults[l] <= COUNT_INOND

\* Turns after the next of p whose Data could still find n without an answer,
\* with the faults their link has left: -1 for none, not even the next.
Tries(p, n) ==
  COUNT_INOND - faults[{p, n}]
    - (IF InTransit(p, n) /\ g_floods[p].send_time > 0 THEN 1 ELSE 0)

Once == \A n \in Node : shown[n] <= 1

\* Who has displayed the message keeps it for each peer that has not.
Owed ==
  \A n \in Node : \A p \in Peers(n) \ {Author} :
    shown[n] > 0 /\ shown[p] = 0 => Has(n) /\ p \in g_floods[n].recipient

\* A recipient that has the message keeps it longer than it can be sent to it.
Outlived ==
  \A p \in DOMAIN g_floods : \A n \in g_floods[p].recipient :
    shown[n] > 0 /\ Tries(p, n) >= 0 =>
      /\ Has(n)
      /\ MinLeft(g_floods[n]) > g_floods[p].send_time
                                + Reach(g_floods[p].count, Tries(p, n))

\* And longer than a Data on its way can be late.
InTime ==
  \A tlv \in network :
    tlv.type = "data" /\ shown[tlv.dest] > 0 =>
      /\ Has(tlv.dest)
      /\ MinLeft(g_floods[tlv.dest]) > COUNT_INOND - faults[LinkOf(tlv)]

OnceInv ==
  /\ FaultInv
  /\ Spread
  /\ LinkInv
  /\ Fine => Once /\ Owed /\ Outlived /\ InTime

LEMMA FineBefore ==
  ASSUME TypeOK, [Next]_vars, Fine'
  PROVE  Fine
<1> SUFFICES ASSUME NEW l \in Linked PROVE faults[l] <= COUNT_INOND
  BY DEF Fine
<1>1. faults[l] \in Nat /\ faults'[l] \in Nat /\ COUNT_INOND \in Nat
  BY TypeOKStep, ReseauAssumption DEF TypeOK
<1>2. faults'[l] >= faults[l] /\ faults'[l] <= COUNT_INOND
  BY OnlyWorse DEF Fine
<1> QED BY <1>1, <1>2

\* Without a broken link every peer is still a neighbour, nobody says goodbye
\* and a recipient has not owed longer than its link's faults explain.
LEMMA Steady ==
  ASSUME FaultInv, LinkInv, Fine
  PROVE  /\ \A n \in Node : symetric[n] = Peers(n)
         /\ \A tlv \in network : tlv.type # "go_away"
         /\ \A l \in Linked : ~Broken(l) /\ faults[l] \in 0..COUNT_INOND
         /\ \A n \in DOMAIN g_floods :
              n \in Node /\ g_floods[n].count \in 0..(COUNT_INOND + 1)
                         /\ g_floods[n].send_time \in Nat
<1>1. TypeOK /\ COUNT_INOND \in Nat
  BY ReseauAssumption DEF FaultInv
<1>2. ASSUME NEW l \in Linked
      PROVE  ~Broken(l) /\ faults[l] \in 0..COUNT_INOND
  BY <1>1 DEF Fine, Broken, TypeOK
<1>3. ASSUME NEW n \in Node PROVE symetric[n] = Peers(n)
  <2>1. \A p \in Peers(n) : {n, p} \in Linked
    BY Links
  <2> QED BY <1>2, <2>1 DEF FaultInv, Demoted, PeersOnly
<1>4. ASSUME NEW tlv \in network PROVE tlv.type # "go_away"
  BY <1>2 DEF FaultInv, GoodbyesForFaults
<1>5. ASSUME NEW n \in DOMAIN g_floods
      PROVE  /\ n \in Node /\ g_floods[n].count \in 0..(COUNT_INOND + 1)
             /\ g_floods[n].send_time \in Nat
  BY <1>1 DEF TypeOK, Message
<1> QED BY <1>2, <1>3, <1>4, <1>5

LEMMA Owing ==
  ASSUME FaultInv, LinkInv, Fine,
         NEW n \in DOMAIN g_floods, NEW p \in g_floods[n].recipient
  PROVE  /\ p \in Peers(n) /\ p \in symetric[n] /\ p \in Node /\ p # Author
         /\ {n, p} \in Linked /\ p # n
         /\ \/ g_floods[n].count <= faults[{n, p}]
            \/ /\ g_floods[n].count = faults[{n, p}] + 1
               /\ g_floods[n].send_time > 0
               /\ g_floods[n].send_time >= 2^g_floods[n].count
               /\ InTransit(n, p)
         /\ Tries(n, p) \in Int
         /\ Tries(n, p) <= COUNT_INOND - g_floods[n].count
         /\ Tries(n, p) <= COUNT_INOND - faults[{n, p}]
<1> DEFINE l == {n, p}
<1>1. n \in Node /\ g_floods[n].count \in 0..(COUNT_INOND + 1)
  BY Steady
<1>2. p \in Peers(n) /\ p \in Node /\ p # Author /\ p \in symetric[n]
  BY <1>1, Steady DEF LinkInv, Peers
<1>3. l \in Linked
  BY <1>1, <1>2, Links
<1>4. p # n
  <2>1. \E a, b \in Node : a # b /\ l = {a, b}
    BY <1>3, ReseauAssumption
  <2> QED BY <2>1
<1>5. ~Broken(l) /\ faults[l] \in 0..COUNT_INOND
  BY <1>3, Steady
<1>6. Chance(n, p)
  BY <1>2 DEF FaultInv, TurnsAreChances, Chance
<1> HIDE DEF l
<1>7. /\ COUNT_INOND \in Nat /\ faults[l] \in Nat /\ g_floods[n].count \in Nat
  BY <1>1, <1>5, ReseauAssumption
<1>8. \/ g_floods[n].count <= faults[l]
      \/ /\ g_floods[n].count = faults[l] + 1
         /\ g_floods[n].send_time > 0
         /\ g_floods[n].send_time >= 2^g_floods[n].count
         /\ InTransit(n, p)
  BY <1>5, <1>6, <1>7 DEF Chance, l
<1>9. Tries(n, p) = COUNT_INOND - faults[l]
             - (IF InTransit(n, p) /\ g_floods[n].send_time > 0 THEN 1 ELSE 0)
  BY DEF Tries, l
<1>10. /\ Tries(n, p) \in Int
       /\ Tries(n, p) <= COUNT_INOND - g_floods[n].count
       /\ Tries(n, p) <= COUNT_INOND - faults[l]
  BY <1>7, <1>8, <1>9
<1> QED BY <1>2, <1>3, <1>4, <1>8, <1>10 DEF l

\* Between the turns of its node an entry only ages and loses recipients.
LEMMA EntryAges ==
  ASSUME Spread, [Next]_vars, NEW n \in DOMAIN g_floods,
         ~FloodData(n), ~FloodGoAway(n)
  PROVE  /\ n \in DOMAIN g_floods'
         /\ g_floods'[n].count = g_floods[n].count
         /\ g_floods'[n].recipient \subseteq g_floods[n].recipient
         /\ Second => g_floods'[n].send_time = g_floods[n].send_time - 1
         /\ ~Second => g_floods'[n].send_time = g_floods[n].send_time
<1> DEFINE Same == n \in DOMAIN g_floods' /\ g_floods'[n] = g_floods[n]
<1>1. TypeOK /\ n \in Node /\ g_floods[n] \in Message
  BY DEF Spread, TypeOK
<1>2. ASSUME AddMyMessage PROVE Same
  <2>1. shown[Author] = 0 /\ shown[n] > 0 /\ shown[n] \in Nat
    BY <1>1, <1>2 DEF AddMyMessage, Spread, TypeOK
  <2>2. n # Author
    BY <2>1
  <2> QED BY <1>2, <2>2 DEF AddMyMessage, With
<1>3. ASSUME NEW m \in Node, FloodData(m) PROVE Same
  BY <1>1, <1>3, TurnIs
<1>4. ASSUME NEW m \in Node, FloodGoAway(m) PROVE Same
  <2>1. n # m
    BY <1>4
  <2> QED BY <1>4, <2>1 DEF FloodGoAway, Without
<1>5. ASSUME NEW tlv \in network, Deliver(tlv) \/ DeliverCopy(tlv)
      PROVE  Same \/ /\ n \in DOMAIN g_floods'
                     /\ g_floods'[n] = [g_floods[n] EXCEPT !.recipient = @ \ {tlv.src}]
  <2>1. PICK left : Treats(tlv, left)
    BY <1>5 DEF Deliver, DeliverCopy, Treats
  <2>2. \/ UNCHANGED g_floods
        \/ Has(tlv.dest) /\ g_floods' = RemoveSender(tlv.dest, tlv.src)
        \/ ~Has(tlv.dest) /\ g_floods' = With(tlv.dest, CreateMessage(tlv.dest))
    BY <2>1 DEF Treats, ApplyTlvData, ApplyTlvAck, ApplyTlvGoaway, Known, New
  <2> QED BY <2>2 DEF RemoveSender, With, Has
<1>6. ASSUME NEW tlv \in network, Lose(tlv) PROVE Same
  BY <1>6 DEF Lose
<1>7. ASSUME UNCHANGED vars PROVE Same
  BY <1>7 DEF vars
<1>8. CASE Second
  <2>1. /\ n \in DOMAIN g_floods'
        /\ g_floods'[n] = [g_floods[n] EXCEPT !.send_time = @ - 1]
    BY <1>8 DEF Second
  <2> QED BY <1>1, <1>8, <2>1 DEF Message
<1>9. CASE ~Second
  <2>1. Same \/ \E q : /\ n \in DOMAIN g_floods'
                       /\ g_floods'[n] = [g_floods[n] EXCEPT !.recipient = @ \ {q}]
    BY <1>2, <1>3, <1>4, <1>5, <1>6, <1>7, <1>9 DEF Next
  <2> QED BY <1>1, <1>9, <2>1 DEF Message
<1> QED BY <1>8, <1>9

LEMMA LeftType ==
  ASSUME TypeOK, NEW n \in DOMAIN g_floods
  PROVE  MinLeft(g_floods[n]) \in Int
<1>1. COUNT_INOND \in Nat
  BY ReseauAssumption
<1>2. g_floods[n].count \in 0..(COUNT_INOND + 1) /\ g_floods[n].send_time \in Int
  <2>1. g_floods[n] \in Message
    BY DEF TypeOK
  <2> QED BY <2>1 DEF Message
<1>3. /\ g_floods[n].count + 1 \in 0..(COUNT_INOND + 2)
      /\ COUNT_INOND + 2 \in 0..(COUNT_INOND + 2)
  BY <1>1, <1>2
<1> QED BY <1>2, <1>3, Powers DEF MinLeft

\* A node that keeps the message has it still after a step, as long before it.
LEMMA LeftStep ==
  ASSUME Spread, [Next]_vars,
         NEW n \in DOMAIN g_floods, MinLeft(g_floods[n]) > 0
  PROVE  /\ n \in DOMAIN g_floods'
         /\ MinLeft(g_floods[n]) \in Int /\ MinLeft(g_floods'[n]) \in Int
         /\ Second => MinLeft(g_floods'[n]) = MinLeft(g_floods[n]) - 1
         /\ ~Second => MinLeft(g_floods'[n]) >= MinLeft(g_floods[n])
<1> DEFINE old == g_floods[n]
<1>1. TypeOK /\ n \in Node /\ old \in Message /\ COUNT_INOND \in Nat
  BY ReseauAssumption DEF Spread, TypeOK
<1>2. old.count \in 0..(COUNT_INOND + 1) /\ old.send_time \in Nat
  BY <1>1 DEF Message
<1>3. /\ old.count + 1 \in 0..(COUNT_INOND + 2)
      /\ COUNT_INOND + 2 \in 0..(COUNT_INOND + 2)
  BY <1>1, <1>2
<1>4. 2^(old.count + 1) \in Nat /\ 2^(COUNT_INOND + 2) \in Nat
  BY <1>3, Powers
<1>5. MinLeft(old) \in Int
  BY <1>1, LeftType
<1>6. ~FloodGoAway(n)
  <2>1. SUFFICES ASSUME FloodGoAway(n) PROVE FALSE
    OBVIOUS
  <2>2. old.send_time = 0 /\ old.count > COUNT_INOND
    BY <2>1 DEF FloodGoAway, Due, Exhausted
  <2>3. old.count + 1 = COUNT_INOND + 2
    BY <1>1, <1>2, <2>2
  <2>4. MinLeft(old) = 0
    BY <1>4, <2>2, <2>3 DEF MinLeft
  <2> QED BY <2>4
<1>7. CASE FloodData(n)
  <2>1. /\ n \in DOMAIN g_floods'
        /\ old.count \in 0..COUNT_INOND /\ old.send_time = 0
        /\ g_floods'[n].count = old.count + 1
        /\ g_floods'[n].send_time \in 2^(old.count + 1) .. 2^(old.count + 2) - 1
    BY <1>1, <1>7, TurnIs
  <2>2. /\ old.count + 1 \in 0..(COUNT_INOND + 1)
        /\ (old.count + 1) + 1 = old.count + 2
    BY <1>1, <2>1
  <2>3. 2^(old.count + 2) = 2 * 2^(old.count + 1)
    BY <2>2, Powers
  <2>4. MinLeft(g_floods'[n]) = g_floods'[n].send_time + 2^(COUNT_INOND + 2)
                                - 2^(old.count + 2)
    BY <2>1, <2>2 DEF MinLeft
  <2>5. MinLeft(old) = 2^(COUNT_INOND + 2) - 2^(old.count + 1)
    BY <1>4, <2>1 DEF MinLeft
  <2>6. ~Second
    BY <1>1, <1>7 DEF FloodData, Second, Due, Has
  <2> QED BY <1>4, <2>1, <2>3, <2>4, <2>5, <2>6
<1>8. CASE ~FloodData(n)
  <2>1. /\ n \in DOMAIN g_floods' /\ g_floods'[n].count = old.count
        /\ Second => g_floods'[n].send_time = old.send_time - 1
        /\ ~Second => g_floods'[n].send_time = old.send_time
    BY <1>6, <1>8, EntryAges
  <2> QED BY <1>2, <1>4, <2>1 DEF MinLeft
<1> QED BY <1>7, <1>8

\* While it does, the tries left to a recipient do not grow.
LEMMA TriesFall ==
  ASSUME FaultInv, Spread, LinkInv, Fine, [Next]_vars,
         NEW p \in DOMAIN g_floods, p \in DOMAIN g_floods', ~FloodData(p),
         NEW n \in g_floods'[p].recipient
  PROVE  /\ n \in g_floods[p].recipient
         /\ Tries(p, n) \in Int /\ Tries(p, n)' \in Int
         /\ Tries(p, n)' <= Tries(p, n)
<1> DEFINE l == {p, n}
           on == InTransit(p, n) /\ g_floods[p].send_time > 0
           cost(b) == IF b THEN 1 ELSE 0
<1>1. ~FloodGoAway(p)
  BY DEF FloodGoAway, Without
<1>2. /\ n \in g_floods[p].recipient
      /\ Second => g_floods'[p].send_time = g_floods[p].send_time - 1
      /\ ~Second => g_floods'[p].send_time = g_floods[p].send_time
  BY <1>1, EntryAges
<1>3. /\ TypeOK /\ TypeOK' /\ p \in Node /\ n \in symetric[p] /\ l \in Linked
      /\ Tries(p, n) \in Int /\ ~Broken(l)
  BY <1>2, Owing, Steady, TypeOKStep DEF FaultInv
<1>4. faults[l] \in Nat /\ faults'[l] \in Nat /\ faults'[l] >= faults[l]
  BY <1>3, OnlyWorse DEF TypeOK
<1>5. COUNT_INOND \in Nat
  BY ReseauAssumption
<1>6. Tries(p, n) = COUNT_INOND - faults[l] - cost(on)
  BY DEF Tries
<1>7. Tries(p, n)' = COUNT_INOND - faults'[l] - cost(on')
  BY DEF Tries
<1>8. ASSUME InTransit(p, n), ~InTransit(p, n)', ~Second
      PROVE  faults'[l] >= faults[l] + 1
  <2>1. ASSUME NEW tlv \in network, NEW left, left = network \/ left = network \ {tlv},
               Treats(tlv, left)
        PROVE  FALSE
    <3>1. tlv.type = "ack" /\ tlv.src = n /\ tlv.dest = p
      BY <1>3, <1>8, <2>1, TreatsTransit
    <3>2. g_floods' = RemoveSender(p, n)
      BY <2>1, <3>1 DEF Treats, ApplyTlvData, ApplyTlvAck, ApplyTlvGoaway, Has
    <3>3. g_floods'[p] = [g_floods[p] EXCEPT !.recipient = @ \ {n}]
      BY <3>2 DEF RemoveSender, With
    <3>4. g_floods[p] \in Message
      BY <1>3 DEF TypeOK
    <3> QED BY <3>3, <3>4 DEF Message
  <2>2. \A tlv \in network : ~Deliver(tlv) /\ ~DeliverCopy(tlv)
    <3>1. ASSUME NEW tlv \in network, Deliver(tlv) PROVE FALSE
      BY <2>1, <3>1 DEF Deliver, Treats
    <3>2. ASSUME NEW tlv \in network, DeliverCopy(tlv) PROVE FALSE
      BY <2>1, <3>2 DEF DeliverCopy, Treats
    <3> QED BY <3>1, <3>2
  <2>3. ~(network \subseteq network')
    BY <1>8 DEF InTransit
  <2>4. PICK tlv \in network : Lose(tlv)
    BY <1>8, <2>2, <2>3 DEF Next, AddMyMessage, FloodData, FloodGoAway, vars
  <2>5. \/ tlv = [src |-> p, dest |-> n, type |-> "data"]
        \/ tlv = [src |-> n, dest |-> p, type |-> "ack"]
    BY <1>8, <2>4 DEF Lose, InTransit
  <2>6. LinkOf(tlv) = l
    BY <2>5 DEF LinkOf
  <2>7. faults'[l] = faults[l] + 1
    BY <1>3, <2>4, <2>6 DEF Lose, TypeOK
  <2> QED BY <1>4, <2>7
<1>9. ASSUME Second, InTransit(p, n) PROVE faults'[l] = faults[l] + 1
  <2>1. l \in Late
    BY <1>9 DEF InTransit, Late, LinkOf
  <2> QED BY <1>3, <1>9, <2>1 DEF Second
<1> HIDE DEF l
<1>10. \/ on => on'
       \/ faults'[l] >= faults[l] + 1
  <2>1. CASE Second
    BY <1>4, <1>9, <2>1
  <2>2. CASE ~Second
    BY <1>2, <1>8, <2>2
  <2> QED BY <2>1, <2>2
<1>11. cost(on) \in {0, 1} /\ cost(on') \in {0, 1} /\ (on => cost(on) = 1)
       /\ (on' => cost(on') = 1) /\ (~on => cost(on) = 0)
  OBVIOUS
<1> HIDE DEF on, cost
<1>12. Tries(p, n)' <= Tries(p, n) /\ Tries(p, n)' \in Int
  BY <1>4, <1>5, <1>6, <1>7, <1>10, <1>11
<1> QED BY <1>2, <1>3, <1>12

\* A node gets the message, and an entry for it, for the first time and at
\* once: nobody has it yet when the author does.
LEMMA Arrival ==
  ASSUME OnceInv, Fine, [Next]_vars, NEW n \in Node,
         \/ n \in DOMAIN g_floods' /\ n \notin DOMAIN g_floods
         \/ shown[n] = 0 /\ shown'[n] # 0
  PROVE  /\ n \notin DOMAIN g_floods /\ shown[n] = 0 /\ shown'[n] = 1
         /\ DOMAIN g_floods' = DOMAIN g_floods \cup {n}
         /\ g_floods'[n] = CreateMessage(n)
         /\ \A m \in DOMAIN g_floods : g_floods'[m] = g_floods[m]
         /\ n = Author => \A m \in Node : shown[m] = 0
         /\ faults' = faults
<1>1. /\ FaultInv /\ Spread /\ LinkInv /\ TypeOK /\ InTime
      /\ shown \in [Node -> 0..2]
  BY DEF OnceInv, FaultInv, TypeOK
<1> DEFINE Goal == /\ n \notin DOMAIN g_floods /\ shown[n] = 0 /\ shown'[n] = 1
                   /\ DOMAIN g_floods' = DOMAIN g_floods \cup {n}
                   /\ g_floods'[n] = CreateMessage(n)
                   /\ \A m \in DOMAIN g_floods : g_floods'[m] = g_floods[m]
                   /\ n = Author => \A m \in Node : shown[m] = 0
                   /\ faults' = faults
<1>2. ASSUME AddMyMessage PROVE Goal
  <2>1. \A m \in Node : shown[m] = 0
    BY <1>1, <1>2 DEF AddMyMessage, Spread
  <2>2. DOMAIN g_floods = {}
    <3>1. ASSUME NEW m \in DOMAIN g_floods PROVE FALSE
      <4>1. m \in Node /\ shown[m] > 0
        BY <1>1, <3>1 DEF Spread, TypeOK
      <4> QED BY <2>1, <4>1
    <3> QED BY <3>1
  <2>3. /\ g_floods' = With(Author, CreateMessage(Author)) /\ faults' = faults
        /\ shown' = [shown EXCEPT ![Author] = 1]
    BY <1>2 DEF AddMyMessage
  <2>4. n = Author
    BY <1>1, <2>2, <2>3 DEF With
  <2>5. /\ DOMAIN g_floods' = DOMAIN g_floods \cup {n}
        /\ g_floods'[n] = CreateMessage(n) /\ shown'[n] = 1
    BY <1>1, <2>3, <2>4 DEF With
  <2> QED BY <2>1, <2>2, <2>3, <2>5
<1>3. ASSUME NEW tlv \in network, NEW left, Treats(tlv, left), faults' = faults
      PROVE  Goal
  <2>1. tlv.type = "data" /\ New(tlv, left) /\ n = tlv.dest
    BY <1>1, <1>3
       DEF Treats, ApplyTlvData, ApplyTlvAck, ApplyTlvGoaway, Known, New,
           RemoveSender, With, Has
  <2>2. ~Has(n) /\ g_floods' = With(n, CreateMessage(n))
        /\ shown' = [shown EXCEPT ![n] = IF @ = 0 THEN 1 ELSE 2]
    BY <2>1 DEF New
  <2>3. shown[n] = 0
    <3>1. ~(shown[n] > 0) /\ shown[n] \in Nat
      BY <1>1, <2>1, <2>2 DEF InTime
    <3> QED BY <3>1
  <2>4. n # Author
    BY <1>1, <2>1 DEF LinkInv
  <2>5. shown'[n] = 1
    BY <1>1, <2>2, <2>3
  <2>6. /\ DOMAIN g_floods' = DOMAIN g_floods \cup {n}
        /\ g_floods'[n] = CreateMessage(n)
        /\ \A m \in DOMAIN g_floods : g_floods'[m] = g_floods[m]
    BY <2>2 DEF With, Has
  <2> QED BY <1>3, <2>2, <2>3, <2>4, <2>5, <2>6 DEF Has
<1>4. ASSUME NEW tlv \in network, Deliver(tlv) \/ DeliverCopy(tlv) PROVE Goal
  <2>1. PICK left : Treats(tlv, left)
    BY <1>4 DEF Deliver, DeliverCopy, Treats
  <2>2. faults' = faults
    BY <1>4 DEF Deliver, DeliverCopy
  <2> HIDE DEF Goal
  <2> QED BY <1>3, <2>1, <2>2
<1>5. \A m \in Node : ~FloodData(m) /\ ~FloodGoAway(m)
  BY DEF FloodData, FloodGoAway, Due, Has, With, Without
<1>6. ~Second /\ ~UNCHANGED vars /\ \A tlv \in network : ~Lose(tlv)
  BY DEF Second, vars, Lose
<1> HIDE DEF Goal
<1>7. Goal
  BY <1>2, <1>4, <1>5, <1>6 DEF Next
<1> QED BY <1>7 DEF Goal

LEMMA OnceStep ==
  ASSUME OnceInv, Fine, [Next]_vars
  PROVE  Once'
<1> SUFFICES ASSUME NEW n \in Node PROVE shown'[n] <= 1
  BY DEF Once
<1>1. TypeOK /\ shown \in [Node -> 0..2] /\ shown[n] \in 0..1
  BY DEF OnceInv, FaultInv, TypeOK, Once
<1>2. CASE shown[n] = 0
  <2>1. shown'[n] # 0 => shown'[n] = 1
    BY <1>2, Arrival
  <2> QED BY <2>1
<1>3. CASE shown[n] = 1
  <2>1. SUFFICES ASSUME shown'[n] # shown[n] PROVE FALSE
    BY <1>3
  <2>2. ~AddMyMessage
    BY <1>1, <1>3, <2>1 DEF AddMyMessage
  <2>3. ASSUME NEW tlv \in network, Deliver(tlv) \/ DeliverCopy(tlv) PROVE FALSE
    <3>1. PICK left : Treats(tlv, left)
      BY <2>3 DEF Deliver, DeliverCopy, Treats
    <3>2. n = tlv.dest /\ ~Has(n) /\ tlv.type = "data"
      BY <1>1, <2>1, <3>1
         DEF Treats, ApplyTlvData, ApplyTlvAck, ApplyTlvGoaway, Known, New
    <3> QED BY <1>3, <3>2 DEF OnceInv, InTime
  <2> QED
    BY <2>1, <2>2, <2>3 DEF Next, FloodData, FloodGoAway, Lose, Second, vars
<1> QED BY <1>1, <1>2, <1>3

LEMMA OwedStep ==
  ASSUME OnceInv, Fine, [Next]_vars
  PROVE  Owed'
<1> SUFFICES ASSUME NEW n \in Node, NEW p \in Peers(n) \ {Author},
                    shown'[n] > 0, shown'[p] = 0
             PROVE  n \in DOMAIN g_floods' /\ p \in g_floods'[n].recipient
  BY DEF Owed, Has, Peers
<1>1. /\ FaultInv /\ Spread /\ LinkInv /\ TypeOK /\ Owed
      /\ shown \in [Node -> 0..2] /\ p \in Node
  BY DEF OnceInv, FaultInv, TypeOK, Peers
<1>2. shown[p] = 0
  BY <1>1, ShownGrows
<1>3. CASE shown[n] = 0
  <2>1. n \in DOMAIN g_floods' /\ g_floods'[n] = CreateMessage(n)
    <3>1. shown'[n] # 0
      OBVIOUS
    <3> QED BY <1>3, <3>1, Arrival
  <2>2. symetric[n] = Peers(n) /\ symetric' \in [Node -> SUBSET Node]
    BY <1>1, Steady, TypeOKStep DEF TypeOK
  <2> QED BY <2>1, <2>2 DEF CreateMessage
<1>4. CASE shown[n] # 0
  <2>1. n \in DOMAIN g_floods /\ p \in g_floods[n].recipient
    BY <1>1, <1>2, <1>4 DEF Owed, Has
  <2>2. /\ p \in symetric[n] /\ ~FloodGoAway(n)
    <3>0. p \in symetric[n]
      BY <1>1, <2>1, Owing
    <3>1. SUFFICES ASSUME FloodGoAway(n) PROVE FALSE
      BY <3>0
    <3>2. {n, p} \in Linked /\ g_floods[n].count <= faults[{n, p}]
      <4>1. g_floods[n].send_time = 0
        BY <3>1 DEF FloodGoAway, Due
      <4>2. ~(g_floods[n].send_time > 0)
        BY <4>1
      <4> QED BY <1>1, <2>1, <4>2, Owing
    <3>3. /\ g_floods[n].count > COUNT_INOND /\ g_floods[n].count \in Nat
          /\ faults[{n, p}] \in 0..COUNT_INOND /\ COUNT_INOND \in Nat
      BY <1>1, <2>1, <3>1, <3>2, Steady, ReseauAssumption
         DEF FloodGoAway, Exhausted
    <3> QED BY <3>2, <3>3
  <2>3. CASE FloodData(n)
    BY <2>1, <2>2, <2>3, <1>1, TurnIs
  <2>4. CASE ~FloodData(n)
    <3>1. /\ n \in DOMAIN g_floods'
      BY <1>1, <2>1, <2>2, <2>4, EntryAges
    <3>2. SUFFICES ASSUME p \notin g_floods'[n].recipient PROVE FALSE
      BY <3>1
    <3>3. g_floods[n] \in Message
      BY <1>1, <2>1 DEF TypeOK
    <3>4. ASSUME NEW tlv \in network, Deliver(tlv) \/ DeliverCopy(tlv) PROVE FALSE
      <4>1. PICK left : Treats(tlv, left)
        BY <3>4 DEF Deliver, DeliverCopy, Treats
      <4>2. tlv.type # "go_away" /\ tlv.src = p
        BY <2>1, <3>2, <3>3, <4>1
           DEF Treats, ApplyTlvData, ApplyTlvAck, ApplyTlvGoaway, Known, New,
               RemoveSender, With, Has, Message
      <4> QED BY <1>1, <1>2, <4>2 DEF LinkInv
    <3>5. ~AddMyMessage
      <4>1. shown[Author] # 0
        BY <1>1, <1>4 DEF Spread
      <4> QED BY <4>1 DEF AddMyMessage
    <3>6. ASSUME NEW m \in Node, FloodData(m) PROVE FALSE
      BY <1>1, <2>1, <2>4, <3>2, <3>6, TurnIs
    <3>7. ASSUME NEW m \in Node, FloodGoAway(m) PROVE FALSE
      BY <2>1, <2>2, <3>2, <3>7 DEF FloodGoAway, Without
    <3>8. ~Second
      BY <2>1, <3>2, <3>3 DEF Second, Message
    <3>9. /\ ~UNCHANGED vars /\ \A tlv \in network : ~Lose(tlv)
      BY <2>1, <3>2 DEF vars, Lose
    <3> QED BY <3>4, <3>5, <3>6, <3>7, <3>8, <3>9 DEF Next
  <2> QED BY <2>3, <2>4
<1> QED BY <1>3, <1>4

\* What a node that has just got the message has left to keep it.
LEMMA NewcomerLeft ==
  ASSUME NEW n \in Node
  PROVE  /\ MinLeft(CreateMessage(n)) = 2^(COUNT_INOND + 2) - 1
         /\ MinLeft(CreateMessage(n)) \in Int
         /\ MinLeft(CreateMessage(n)) > COUNT_INOND
<1>1. COUNT_INOND \in Nat
  BY ReseauAssumption
<1>2. COUNT_INOND + 2 \in 0..(COUNT_INOND + 2) /\ 2^(0 + 1) = 2 /\ 2^(0 + 2) = 4
  BY <1>1
<1>3. 2^(COUNT_INOND + 2) \in Nat
  BY <1>2, Powers
<1>4. CreateMessage(n).count = 0 /\ CreateMessage(n).send_time = 1
  BY DEF CreateMessage
<1>5. MinLeft(CreateMessage(n)) = 1 + 2^(COUNT_INOND + 2) - 2
  BY <1>2, <1>4 DEF MinLeft
<1>6. COUNT_INOND <= Reach(0, COUNT_INOND)
  <2>1. 0 \in 0..COUNT_INOND /\ COUNT_INOND \in 0..(COUNT_INOND - 0)
    BY <1>1
  <2> QED BY <2>1, ReachGrows
<1>7. Reach(0, COUNT_INOND) = 2^(COUNT_INOND + 2) - 4 - COUNT_INOND
  <2>1. 0 + COUNT_INOND + 2 = COUNT_INOND + 2
    BY <1>1
  <2> QED BY <1>2, <2>1 DEF Reach
<1> QED BY <1>1, <1>3, <1>5, <1>6, <1>7

\* A turn of p, seen from a recipient that has the message.
LEMMA OutlivedTurn ==
  ASSUME OnceInv, Fine, [Next]_vars, NEW p \in DOMAIN g_floods, FloodData(p),
         NEW n \in g_floods'[p].recipient, shown[n] > 0
  PROVE  /\ n \in DOMAIN g_floods'
         /\ MinLeft(g_floods'[n]) > COUNT_INOND - faults'[{p, n}]
         /\ Tries(p, n)' >= 0 =>
              MinLeft(g_floods'[n]) > g_floods'[p].send_time
                + Reach(g_floods'[p].count, Tries(p, n)')
<1> DEFINE i == g_floods[p].count
           k == COUNT_INOND - faults[{p, n}]
<1>1. FaultInv /\ Spread /\ LinkInv /\ TypeOK /\ Outlived /\ COUNT_INOND \in Nat
  BY ReseauAssumption DEF OnceInv, FaultInv
<1>2. /\ p \in Node /\ i \in 0..COUNT_INOND /\ g_floods[p].send_time = 0
      /\ n \in g_floods[p].recipient
      /\ DOMAIN g_floods' = DOMAIN g_floods
      /\ \A m \in DOMAIN g_floods : m # p => g_floods'[m] = g_floods[m]
      /\ g_floods'[p].count = i + 1
      /\ g_floods'[p].send_time \in 2^(i + 1) .. 2^(i + 2) - 1
  BY <1>1, TurnIs DEF TypeOK
<1>3. n # p /\ {p, n} \in Linked /\ n \in symetric[p]
  BY <1>1, <1>2, Owing
<1>4. faults[{p, n}] \in 0..COUNT_INOND /\ i <= faults[{p, n}]
  <2>1. ~(g_floods[p].send_time > 0)
    BY <1>2
  <2> QED BY <1>1, <1>2, <1>3, <2>1, Owing, Steady
<1>5. k \in 0..(COUNT_INOND - i)
  BY <1>1, <1>2, <1>4
<1>6. Tries(p, n) = k
  <2>1. ~(g_floods[p].send_time > 0) /\ k \in Int
    BY <1>2, <1>5
  <2> QED BY <1>5, <2>1 DEF Tries
<1>7. Has(n) /\ MinLeft(g_floods[n]) > 0 + Reach(i, k)
  BY <1>2, <1>5, <1>6, <1>1 DEF Outlived
<1>8. n \in DOMAIN g_floods' /\ g_floods'[n] = g_floods[n]
  BY <1>2, <1>3, <1>7 DEF Has
<1>10. MinLeft(g_floods[n]) \in Int
  BY <1>1, <1>7, LeftType DEF Has
<1>11. Reach(i, k) \in Nat /\ k <= Reach(i, k) /\ faults' = faults
  BY <1>2, <1>5, ReachGrows DEF FloodData
<1>12. i + 1 \in 0..(COUNT_INOND + 2) /\ i + 2 \in 0..(COUNT_INOND + 2)
  BY <1>1, <1>2
<1>13. 2^(i + 1) \in Nat \ {0} /\ 2^(i + 2) \in Nat
  BY <1>12, Powers
<1>14. Tries(p, n)' = k - 1
  <2>1. InTransit(p, n)'
    <3>1. network' = network \cup TlvTo(p, g_floods[p].recipient \cap symetric[p], "data")
      BY DEF FloodData
    <3> QED BY <1>2, <1>3, <3>1 DEF InTransit, TlvTo
  <2>2. g_floods'[p].send_time > 0
    BY <1>2, <1>13
  <2> QED BY <1>11, <2>1, <2>2 DEF Tries
<1>15. ASSUME k - 1 >= 0
       PROVE  MinLeft(g_floods[n]) > g_floods'[p].send_time + Reach(i + 1, k - 1)
  <2>1. k \in 1..(COUNT_INOND - i)
    BY <1>5, <1>15
  <2>2. Reach(i, k) = 2^(i + 2) - 1 + Reach(i + 1, k - 1)
    BY <1>2, <2>1, ReachTurn
  <2>3. Reach(i + 1, k - 1) \in Int
    <3>1. i + 1 \in 0..COUNT_INOND /\ k - 1 \in 0..(COUNT_INOND - (i + 1))
      BY <1>1, <1>2, <2>1
    <3> QED BY <3>1, ReachGrows
  <2>4. g_floods'[p].send_time \in Int /\ g_floods'[p].send_time <= 2^(i + 2) - 1
    BY <1>2, <1>13
  <2> HIDE DEF i, k
  <2> QED BY <1>7, <1>10, <1>13, <2>2, <2>3, <2>4
<1>16. MinLeft(g_floods[n]) > k
  BY <1>5, <1>7, <1>10, <1>11
<1> QED BY <1>2, <1>8, <1>11, <1>14, <1>15, <1>16

\* An entry that comes, seen from a peer that has the message already.
LEMMA OutlivedElder ==
  ASSUME OnceInv, Fine, [Next]_vars, NEW p \in Node,
         p \in DOMAIN g_floods', p \notin DOMAIN g_floods,
         NEW n \in g_floods'[p].recipient, shown[n] > 0, Tries(p, n)' >= 0
  PROVE  /\ n \in DOMAIN g_floods'
         /\ MinLeft(g_floods'[n]) > g_floods'[p].send_time
              + Reach(g_floods'[p].count, Tries(p, n)')
<1> DEFINE f == faults[{p, n}]
           c == g_floods[n].count
           s == g_floods[n].send_time
<1>1. FaultInv /\ Spread /\ LinkInv /\ TypeOK /\ Owed /\ COUNT_INOND \in Nat
  BY ReseauAssumption DEF OnceInv, FaultInv
<1>2. /\ shown[p] = 0 /\ g_floods'[p] = CreateMessage(p) /\ faults' = faults
      /\ \A m \in DOMAIN g_floods : m \in DOMAIN g_floods'
                                    /\ g_floods'[m] = g_floods[m]
      /\ p = Author => \A m \in Node : shown[m] = 0
  BY Arrival
<1>3. n \in symetric[p] /\ n \in Peers(p) /\ n \in Node /\ p \in Peers(n)
      /\ {p, n} \in Linked /\ {n, p} = {p, n}
  <2>1. n \in symetric[p]
    BY <1>2 DEF CreateMessage
  <2>2. n \in Peers(p)
    BY <1>1, <2>1, Steady
  <2> QED BY <2>1, <2>2, Links DEF Peers
<1>4. p # Author
  <2>1. shown[n] # 0
    OBVIOUS
  <2> QED BY <1>2, <1>3, <2>1
<1>5. n \in DOMAIN g_floods /\ p \in g_floods[n].recipient
  BY <1>1, <1>2, <1>3, <1>4 DEF Owed, Has
<1>6. /\ f \in 0..COUNT_INOND /\ c \in 0..(COUNT_INOND + 1) /\ s \in Nat
      /\ c <= f \/ (c = f + 1 /\ s >= 2^c)
  BY <1>1, <1>3, <1>5, Steady, Owing
<1>7. MinLeft(g_floods[n]) >= 2^(COUNT_INOND + 2) - 2^(f + 1)
      /\ MinLeft(g_floods[n]) \in Int /\ 2^(f + 1) \in Int
      /\ 2^(COUNT_INOND + 2) \in Int
  <2>1. /\ c + 1 \in 0..(COUNT_INOND + 2) /\ f + 1 \in 0..(COUNT_INOND + 2)
        /\ c \in 0..(COUNT_INOND + 1) /\ c \in 0..(COUNT_INOND + 2)
        /\ COUNT_INOND + 2 \in 0..(COUNT_INOND + 2)
    BY <1>1, <1>6
  <2>2. /\ 2^(c + 1) \in Nat /\ 2^(f + 1) \in Nat /\ 2^c \in Nat
        /\ 2^(COUNT_INOND + 2) \in Nat /\ 2^(c + 1) = 2 * 2^c
    BY <2>1, Powers
  <2>3. MinLeft(g_floods[n]) = s + 2^(COUNT_INOND + 2) - 2^(c + 1)
    BY DEF MinLeft
  <2>4. CASE c <= f
    <3>1. c + 1 \in 0..(f + 1)
      BY <1>6, <2>4
    <3>2. 2^(c + 1) <= 2^(f + 1)
      BY <2>1, <3>1, Powers
    <3> HIDE DEF f, c, s
    <3> QED BY <1>6, <2>2, <2>3, <3>2
  <2>5. CASE c = f + 1 /\ s >= 2^c
    <3> HIDE DEF f, c, s
    <3> QED BY <1>6, <2>2, <2>3, <2>5
  <2> QED BY <1>6, <2>4, <2>5
<1>8. 2^(COUNT_INOND + 2) - 2^(f + 1) > 1 + Reach(0, COUNT_INOND - f)
  BY <1>6, ElderOutlives
<1>9. Tries(p, n)' \in 0..(COUNT_INOND - f)
  <2>1. Tries(p, n)' \in {COUNT_INOND - f, COUNT_INOND - f - 1}
    <3>1. COUNT_INOND - f \in Int
      BY <1>1, <1>6
    <3> QED BY <1>2, <1>6, <3>1 DEF Tries
  <2> HIDE DEF f
  <2> QED BY <1>1, <1>6, <2>1
<1>10. /\ Reach(0, Tries(p, n)') <= Reach(0, COUNT_INOND - f)
       /\ Reach(0, Tries(p, n)') \in Nat /\ Reach(0, COUNT_INOND - f) \in Nat
  <2>1. 0 \in 0..COUNT_INOND /\ COUNT_INOND - f \in 0..(COUNT_INOND - 0)
    BY <1>1, <1>6
  <2> QED BY <1>9, <2>1, ReachGrows
<1>11. g_floods'[p].count = 0 /\ g_floods'[p].send_time = 1
  BY <1>2 DEF CreateMessage
<1>12. n \in DOMAIN g_floods' /\ g_floods'[n] = g_floods[n]
  BY <1>2, <1>5
<1>13. MinLeft(g_floods[n]) > 1 + Reach(0, Tries(p, n)')
  <2> HIDE DEF f
  <2> QED BY <1>7, <1>8, <1>10
<1> QED BY <1>11, <1>12, <1>13

LEMMA OutlivedStep ==
  ASSUME OnceInv, Fine, [Next]_vars
  PROVE  Outlived'
<1> SUFFICES ASSUME NEW p \in DOMAIN g_floods', NEW n \in g_floods'[p].recipient,
                    shown'[n] > 0, Tries(p, n)' >= 0
             PROVE  /\ n \in DOMAIN g_floods'
                    /\ MinLeft(g_floods'[n]) > g_floods'[p].send_time
                         + Reach(g_floods'[p].count, Tries(p, n)')
  BY DEF Outlived, Has
<1>1. FaultInv /\ Spread /\ LinkInv /\ TypeOK /\ Outlived /\ COUNT_INOND \in Nat
      /\ p \in Node /\ n \in Node
  BY TypeOKStep, ReseauAssumption DEF OnceInv, FaultInv, TypeOK, Message
<1>2. CASE shown[n] # 0
  <2>1. shown[n] > 0
    BY <1>1, <1>2 DEF TypeOK
  <2>2. CASE p \notin DOMAIN g_floods
    BY <1>1, <2>1, <2>2, OutlivedElder
  <2>3. CASE FloodData(p)
    <3>1. p \in DOMAIN g_floods
      BY <2>3 DEF FloodData, Due, Has
    <3> QED BY <2>1, <2>3, <3>1, OutlivedTurn
  <2>4. CASE p \in DOMAIN g_floods /\ ~FloodData(p)
    <3> DEFINE k == Tries(p, n)
               k1 == Tries(p, n)'
               c == g_floods[p].count
               s == g_floods[p].send_time
    <3>1. n \in g_floods[p].recipient /\ k \in Int /\ k1 \in Int /\ k1 <= k
      BY <1>1, <2>4, TriesFall
    <3>2. k <= COUNT_INOND - c /\ c \in 0..(COUNT_INOND + 1) /\ s \in Nat
      BY <1>1, <2>4, <3>1, Owing, Steady
    <3>3. k1 >= 0
      OBVIOUS
    <3> HIDE DEF k, k1
    <3>4. k >= 0 /\ c \in 0..COUNT_INOND /\ k \in 0..(COUNT_INOND - c)
          /\ k1 \in 0..k
      BY <1>1, <3>1, <3>2, <3>3
    <3>5. Reach(c, k) \in Nat /\ Reach(c, k1) \in Nat /\ Reach(c, k1) <= Reach(c, k)
      BY <3>4, ReachGrows
    <3>6. Has(n) /\ MinLeft(g_floods[n]) > s + Reach(c, k)
      BY <1>1, <2>1, <2>4, <3>1, <3>4 DEF Outlived, k
    <3>7. MinLeft(g_floods[n]) \in Int
      BY <1>1, <3>6, LeftType DEF Has
    <3>8. MinLeft(g_floods[n]) > 0
      BY <3>2, <3>5, <3>6, <3>7
    <3>9. /\ n \in DOMAIN g_floods' /\ MinLeft(g_floods'[n]) \in Int
          /\ Second => MinLeft(g_floods'[n]) = MinLeft(g_floods[n]) - 1
          /\ ~Second => MinLeft(g_floods'[n]) >= MinLeft(g_floods[n])
      BY <1>1, <3>6, <3>8, LeftStep DEF Has
    <3>10. ~FloodGoAway(p)
      BY DEF FloodGoAway, Without
    <3>11. /\ g_floods'[p].count = c
           /\ Second => g_floods'[p].send_time = s - 1
           /\ ~Second => g_floods'[p].send_time = s
      BY <1>1, <2>4, <3>10, EntryAges
    <3>12. MinLeft(g_floods'[n]) > g_floods'[p].send_time + Reach(c, k1)
      <4>1. CASE Second
        BY <3>2, <3>5, <3>6, <3>7, <3>9, <3>11, <4>1
      <4>2. CASE ~Second
        BY <3>2, <3>5, <3>6, <3>7, <3>9, <3>11, <4>2
      <4> QED BY <4>1, <4>2
    <3> QED BY <3>9, <3>11, <3>12 DEF k1
  <2> QED BY <2>2, <2>3, <2>4
<1>3. CASE shown[n] = 0
  <2>1. /\ DOMAIN g_floods' = DOMAIN g_floods \cup {n}
        /\ g_floods'[n] = CreateMessage(n)
        /\ \A m \in DOMAIN g_floods : g_floods'[m] = g_floods[m]
        /\ n \notin DOMAIN g_floods
    <3>1. shown'[n] # 0
      OBVIOUS
    <3> QED BY <1>1, <1>3, <3>1, Arrival
  <2>2. n # p
    <3>1. SUFFICES ASSUME n = p PROVE FALSE
      OBVIOUS
    <3>2. n \in Peers(n)
      <4>1. n \in symetric[n]
        BY <2>1, <3>1 DEF CreateMessage
      <4> QED BY <1>1, <4>1, Steady
    <3>3. {n, n} \in Linked
      BY <1>1, <3>2, Links
    <3>4. \E a, b \in Node : a # b /\ {n, n} = {a, b}
      BY <3>3, ReseauAssumption
    <3> QED BY <3>4
  <2>3. p \in DOMAIN g_floods /\ g_floods'[p] = g_floods[p]
        /\ n \in g_floods[p].recipient
    BY <2>1, <2>2
  <2> DEFINE k1 == Tries(p, n)'
             c == g_floods[p].count
             s == g_floods[p].send_time
  <2>4. k1 \in Int /\ k1 <= COUNT_INOND - c /\ c \in 0..(COUNT_INOND + 1) /\ s \in Nat
    <3>1. ~FloodData(p)
      BY <1>1, <2>1, TurnIs
    <3>2. k1 \in Int /\ k1 <= Tries(p, n) /\ Tries(p, n) \in Int
      BY <1>1, <2>3, <3>1, TriesFall
    <3>3. /\ Tries(p, n) <= COUNT_INOND - c /\ c \in 0..(COUNT_INOND + 1)
          /\ s \in Nat
      BY <1>1, <2>3, Owing, Steady
    <3> HIDE DEF k1, c
    <3> QED BY <1>1, <3>2, <3>3
  <2>5. k1 >= 0
    OBVIOUS
  <2> HIDE DEF k1
  <2>6. c \in 0..COUNT_INOND /\ k1 \in 0..(COUNT_INOND - c)
    BY <1>1, <2>4, <2>5
  <2>7. s <= 2^(c + 1) - 1
    BY <1>1, <2>3 DEF LinkInv
  <2>8. s + Reach(c, k1) < 2^(COUNT_INOND + 2) - 1
    BY <2>4, <2>6, <2>7, NewcomerOutlives
  <2>9. MinLeft(g_floods'[n]) > s + Reach(c, k1)
    BY <1>1, <2>1, <2>8, NewcomerLeft
  <2> QED BY <2>1, <2>3, <2>9 DEF k1
<1> QED BY <1>2, <1>3

LEMMA InTimeStep ==
  ASSUME OnceInv, Fine, [Next]_vars
  PROVE  InTime'
<1> SUFFICES ASSUME NEW tlv \in network', tlv.type = "data", shown'[tlv.dest] > 0
             PROVE  /\ tlv.dest \in DOMAIN g_floods'
                    /\ MinLeft(g_floods'[tlv.dest]) > COUNT_INOND - faults'[LinkOf(tlv)]
  BY DEF InTime, Has, LinkOf
<1> DEFINE n == tlv.dest
           l == LinkOf(tlv)
<1>1. /\ FaultInv /\ Spread /\ LinkInv /\ TypeOK /\ InTime /\ COUNT_INOND \in Nat
      /\ TypeOK' /\ LinkInv' /\ n \in Node /\ tlv.src \in Node
  BY TypeOKStep, LinkInvStep, ReseauAssumption DEF OnceInv, FaultInv, TypeOK, Tlv
<1>2. l \in Linked
  BY <1>1 DEF LinkInv, LinkOf
<1>3. faults'[l] \in Nat /\ faults'[l] >= faults[l] /\ faults[l] \in 0..COUNT_INOND
  BY <1>1, <1>2, OnlyWorse, Steady DEF TypeOK
<1>4. CASE shown[n] = 0
  <2>1. n \in DOMAIN g_floods' /\ g_floods'[n] = CreateMessage(n)
    <3>1. shown'[n] # 0
      OBVIOUS
    <3> QED BY <1>1, <1>4, <3>1, Arrival
  <2>2. MinLeft(g_floods'[n]) > COUNT_INOND /\ MinLeft(g_floods'[n]) \in Int
    BY <1>1, <2>1, NewcomerLeft
  <2> HIDE DEF l
  <2>3. MinLeft(g_floods'[n]) > COUNT_INOND - faults'[l]
    BY <1>1, <1>3, <2>2
  <2> QED BY <2>1, <2>3 DEF l
<1>5. CASE shown[n] # 0 /\ tlv \in network
  <2>1. shown[n] > 0
    BY <1>1, <1>5 DEF TypeOK
  <2>2. n \in DOMAIN g_floods /\ MinLeft(g_floods[n]) > COUNT_INOND - faults[l]
    BY <1>1, <1>5, <2>1 DEF InTime, Has
  <2>3. MinLeft(g_floods[n]) \in Int
    BY <1>1, <2>2, LeftType
  <2> HIDE DEF l
  <2>4. MinLeft(g_floods[n]) > 0
    BY <1>1, <1>3, <2>2, <2>3
  <2>5. /\ n \in DOMAIN g_floods' /\ MinLeft(g_floods'[n]) \in Int
        /\ Second => MinLeft(g_floods'[n]) = MinLeft(g_floods[n]) - 1
        /\ ~Second => MinLeft(g_floods'[n]) >= MinLeft(g_floods[n])
    BY <1>1, <2>2, <2>4, LeftStep
  <2>6. Second => faults'[l] = faults[l] + 1
    BY <1>2, <1>5 DEF Second, Late, l
  <2>7. MinLeft(g_floods'[n]) > COUNT_INOND - faults'[l]
    <3>1. CASE Second
      BY <1>1, <1>3, <2>2, <2>3, <2>5, <2>6, <3>1
    <3>2. CASE ~Second
      BY <1>1, <1>3, <2>2, <2>3, <2>5, <3>2
    <3> QED BY <3>1, <3>2
  <2> QED BY <2>5, <2>7 DEF l
<1>6. CASE shown[n] # 0 /\ tlv \notin network
  <2>1. shown[n] > 0
    BY <1>1, <1>6 DEF TypeOK
  <2>2. ASSUME NEW m \in Node, FloodData(m)
        PROVE  m = tlv.src /\ n \in g_floods[m].recipient \cap symetric[m]
    BY <1>6, <2>2 DEF FloodData, TlvTo
  <2>3. ASSUME NEW m \in Node, FloodGoAway(m) PROVE FALSE
    BY <1>6, <2>3 DEF FloodGoAway, TlvTo
  <2>4. ASSUME NEW old \in network, Deliver(old) \/ DeliverCopy(old) PROVE FALSE
    BY <1>6, <2>4
       DEF Deliver, DeliverCopy, ApplyTlvData, ApplyTlvAck, ApplyTlvGoaway,
           Known, New, Acked, TlvTo
  <2>5. /\ ~AddMyMessage /\ ~Second /\ ~UNCHANGED vars
        /\ \A old \in network : ~Lose(old)
    BY <1>6 DEF AddMyMessage, Second, vars, Lose
  <2>6. PICK p \in Node : FloodData(p)
    BY <2>3, <2>4, <2>5 DEF Next
  <2>7. /\ p = tlv.src /\ p \in DOMAIN g_floods /\ n \in g_floods'[p].recipient
    BY <1>1, <2>2, <2>6, TurnIs DEF Has
  <2>8. l = {p, n}
    BY <2>7 DEF LinkOf
  <2> HIDE DEF l
  <2>9. /\ n \in DOMAIN g_floods'
        /\ MinLeft(g_floods'[n]) > COUNT_INOND - faults'[l]
    BY <2>1, <2>6, <2>7, <2>8, OutlivedTurn
  <2> QED BY <2>9 DEF l
<1> QED BY <1>4, <1>5, <1>6

LEMMA OnceInvInit == Init => OnceInv
<1> SUFFICES ASSUME Init PROVE OnceInv
  OBVIOUS
<1>1. /\ DOMAIN g_floods = {} /\ network = {}
      /\ \A n \in Node : shown[n] = 0
  BY DEF Init
<1>2. Once /\ Owed /\ Outlived /\ InTime
  BY <1>1 DEF Once, Owed, Outlived, InTime
<1> QED BY <1>2, FaultInvInit, SpreadInit, LinkInvInit DEF OnceInv

LEMMA OnceInvStep ==
  ASSUME OnceInv, [Next]_vars
  PROVE  OnceInv'
<1>1. FaultInv' /\ Spread' /\ LinkInv'
  BY FaultInvStep, SpreadStep, LinkInvStep DEF OnceInv
<1>2. ASSUME Fine' PROVE Once' /\ Owed' /\ Outlived' /\ InTime'
  <2>1. Fine
    BY <1>2, FineBefore DEF OnceInv, FaultInv
  <2> QED BY <2>1, OnceStep, OwedStep, OutlivedStep, InTimeStep
<1> QED BY <1>1, <1>2 DEF OnceInv

\* On any network, whatever is lost, late, doubled or reordered: as long as
\* no link has had more than COUNT_INOND faults, nobody shows the message
\* twice.  Whoever has it keeps it, by the shortest delays, longer than a
\* neighbour can go on sending it, by the longest.
THEOREM MessageShownOnce == Spec => []ShownOnce
<1>1. OnceInv => ShownOnce
  BY DEF OnceInv, ShownOnce, Fine, Once
<1> QED BY <1>1, OnceInvInit, OnceInvStep, PTL DEF Spec

=============================================================================
