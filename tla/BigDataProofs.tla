---------------------------- MODULE BigDataProofs ---------------------------
(***************************************************************************)
(* Proofs about long messages, for any writers, lengths, sizes of a        *)
(* fragment, times and number of messages.  Nonces never clash, however    *)
(* often the network repeats a TLV.  When it delivers each TLV once at     *)
(* most, messages are put together as they were written and displayed      *)
(* once.                                                                   *)
(***************************************************************************)
EXTENDS BigData, Integers, FiniteSetTheorems, TLAPS

-----------------------------------------------------------------------------
(* Fragments of a message *)

\* A fragment is not empty and lies within its message.
LEMMA FragmentWithin ==
  ASSUME NEW len \in Nat \ {0}, NEW i \in 0..(Fragments(len) - 1)
  PROVE  /\ i * MAX_SZ_220 \in Nat
         /\ FragmentLen(len, i) \in 1..MAX_SZ_220
         /\ i * MAX_SZ_220 + FragmentLen(len, i) <= len
<1> DEFINE M == MAX_SZ_220
           F == Fragments(len)
<1>1. M \in Nat \ {0}
  BY BigDataAssumption
<1>2. F \in Nat /\ F * M <= len + M - 1
  BY <1>1 DEF Fragments
<1> HIDE DEF F
<1>3. i \in Nat /\ i < F
  BY <1>2 DEF F
<1> HIDE DEF M
<1>4. i * M \in Nat /\ i * M + M <= F * M
  BY <1>1, <1>2, <1>3
<1>5. F * M \in Nat
  BY <1>1, <1>2
<1>6. i * M < len
  BY <1>1, <1>2, <1>4, <1>5
<1> QED BY <1>1, <1>4, <1>6 DEF FragmentLen, M

\* Two fragments of a message do not overlap.
LEMMA FragmentsApart ==
  ASSUME NEW len \in Nat \ {0}, NEW i \in Nat, NEW j \in Nat, i < j,
         i \in 0..(Fragments(len) - 1)
  PROVE  i * MAX_SZ_220 + FragmentLen(len, i) <= j * MAX_SZ_220
<1>1. MAX_SZ_220 \in Nat \ {0}
  BY BigDataAssumption
<1>2. i * MAX_SZ_220 + MAX_SZ_220 <= j * MAX_SZ_220
  BY <1>1
<1>3. /\ i * MAX_SZ_220 \in Nat /\ j * MAX_SZ_220 \in Nat
      /\ FragmentLen(len, i) \in 1..MAX_SZ_220
  BY <1>1, FragmentWithin
<1> QED BY <1>1, <1>2, <1>3

LEMMA FragmentsType ==
  ASSUME NEW len \in Nat \ {0}
  PROVE  Fragments(len) \in Nat \ {0}
<1>1. MAX_SZ_220 \in Nat \ {0}
  BY BigDataAssumption
<1> QED BY <1>1 DEF Fragments

-----------------------------------------------------------------------------
(* What is written and flooded, however often the network repeats it *)

DataTlv == [id: Id, nonce: Nat, type: {0, 220}, nonce_msg: Nat,
            size: Nat, ind: Nat, len: Nat, msg: Msg]

\* Positions of a message a TLV carries.
Carries(t) == t.ind..(t.ind + t.len - 1)

\* A TLV is part of a message written, and its nonce one its writer has used,
\* when wr is written and last is g_nonce.
WellCut(t, wr, last) ==
  /\ t \in DataTlv /\ t.len # 0
  /\ t.msg \in DOMAIN wr /\ t.size = wr[t.msg]
  /\ t.ind + t.len <= t.size
  /\ t.nonce <= last[t.id]
  /\ t.type = 220 => t.nonce_msg < t.nonce
  /\ t.type = 0 => t.ind = 0 /\ t.len = t.size

\* Nonces tell TLVs apart, a message has one key, and its TLVs share no byte.
Apart(t, u) ==
  /\ t.id = u.id /\ t.nonce = u.nonce => t = u
  /\ t.type = 220 /\ u.type = 220 /\ Key(t) = Key(u) => t.msg = u.msg
  /\ t.msg = u.msg =>
       /\ t.type = u.type /\ Key(t) = Key(u)
       /\ t = u \/ t.ind + t.len <= u.ind \/ u.ind + u.len <= t.ind

WrittenInv ==
  /\ g_nonce \in [Id -> Nat]
  /\ \E n \in 0..MaxMsg : DOMAIN written = 1..n
  /\ \A m \in DOMAIN written : written[m] \in MsgLength

NetworkInv ==
  /\ network \in [DOMAIN network -> [copies: 0..Copies, wait: 0..Again]]
  /\ \A t \in DOMAIN network : WellCut(t, written, g_nonce)
  /\ \A t, u \in DOMAIN network : Apart(t, u)

SentInv == WrittenInv /\ NetworkInv

LEMMA LengthType == \A len \in MsgLength : len \in Nat \ {0}
BY BigDataAssumption

\* The rank of the next message, and what writing it does.
LEMMA NextMsg ==
  ASSUME WrittenInv, NEW len \in MsgLength, Writes(len)
  PROVE  LET m == Cardinality(DOMAIN written) + 1
         IN  /\ m \in Msg /\ m \notin DOMAIN written
             /\ DOMAIN written' = DOMAIN written \cup {m}
             /\ \A k \in DOMAIN written : written'[k] = written[k]
             /\ written'[m] = len
             /\ \E n \in 0..MaxMsg : DOMAIN written' = 1..n
<1>1. PICK n \in 0..MaxMsg : DOMAIN written = 1..n
  BY DEF WrittenInv
<1>2. n \in Nat /\ MaxMsg \in Nat
  BY BigDataAssumption
<1>3. Cardinality(1..n) = n
  BY <1>2, FS_Interval
<1>4. n < MaxMsg /\ written' = [m \in 1..(n + 1) |-> IF m \in 1..n THEN written[m] ELSE len]
  BY <1>1, <1>3 DEF Writes
<1>5. 1..(n + 1) = (1..n) \cup {n + 1} /\ n + 1 \notin 1..n /\ n + 1 \in 1..(n + 1)
  BY <1>2
<1>6. n + 1 \in Msg /\ n + 1 \in 0..MaxMsg
  BY <1>2, <1>4 DEF Msg
<1> QED BY <1>1, <1>3, <1>4, <1>5, <1>6

LEMMA SentInit == Init => SentInv
<1> SUFFICES ASSUME Init PROVE SentInv
  OBVIOUS
<1>1. DOMAIN written = {} /\ DOMAIN network = {} /\ g_nonce \in [Id -> Nat]
  BY DEF Init
<1>2. 0 \in 0..MaxMsg /\ 1..0 = {}
  BY BigDataAssumption
<1>3. WrittenInv
  BY <1>1, <1>2 DEF WrittenInv
<1>4. network \in [DOMAIN network -> [copies: 0..Copies, wait: 0..Again]]
  BY <1>1 DEF Init
<1>5. NetworkInv
  BY <1>1, <1>4 DEF NetworkInv
<1> QED BY <1>3, <1>5 DEF SentInv

NoncesGrow ==
  g_nonce' \in [Id -> Nat] /\ \A id \in Id : g_nonce[id] <= g_nonce'[id]

\* The TLVs of a new message: what a writer adds to those on their way.
Fresh(id, m, new) ==
  /\ \A t \in new :
       /\ WellCut(t, written', g_nonce')
       /\ t.id = id /\ t.msg = m /\ t.nonce > g_nonce[id]
       /\ t.type = 220 => t.nonce_msg >= g_nonce[id]
  /\ \A t, u \in new : Apart(t, u)

LEMMA FloodKeeps ==
  ASSUME SentInv, NEW id \in Id, NEW len \in MsgLength, NEW new,
         Writes(len), Flood(new), NoncesGrow,
         Fresh(id, Cardinality(DOMAIN written) + 1, new)
  PROVE  SentInv'
<1> DEFINE m == Cardinality(DOMAIN written) + 1
<1>1. /\ m \in Msg /\ m \notin DOMAIN written
      /\ DOMAIN written' = DOMAIN written \cup {m}
      /\ \A k \in DOMAIN written : written'[k] = written[k]
      /\ written'[m] = len
      /\ \E n \in 0..MaxMsg : DOMAIN written' = 1..n
  BY NextMsg, Zenon DEF SentInv
<1>2. Fresh(id, m, new)
  OBVIOUS
<1> HIDE DEF m
<1>3. /\ g_nonce' \in [Id -> Nat]
      /\ \A i \in Id : g_nonce[i] \in Nat /\ g_nonce[i] <= g_nonce'[i]
  BY DEF SentInv, WrittenInv, NoncesGrow
<1>4. WrittenInv'
  <2>1. \A k \in DOMAIN written : written[k] \in MsgLength
    BY DEF SentInv, WrittenInv
  <2>2. \A k \in DOMAIN written' : written'[k] \in MsgLength
    BY <1>1, <2>1
  <2> QED BY <1>1, <1>3, <2>2 DEF WrittenInv
<1>5. /\ DOMAIN network' = DOMAIN network \cup new
      /\ network' \in [DOMAIN network' -> [copies: 0..Copies, wait: 0..Again]]
  <2>1. [copies |-> Copies, wait |-> 0] \in [copies: 0..Copies, wait: 0..Again]
    BY BigDataAssumption
  <2>2. \A t \in DOMAIN network : network[t] \in [copies: 0..Copies, wait: 0..Again]
    BY DEF SentInv, NetworkInv
  <2> QED BY <2>1, <2>2 DEF Flood
<1>6. ASSUME NEW t \in DOMAIN network PROVE WellCut(t, written', g_nonce')
  <2>1. WellCut(t, written, g_nonce)
    BY DEF SentInv, NetworkInv
  <2>2. t.id \in Id /\ t.nonce \in Nat
    BY <2>1 DEF WellCut, DataTlv
  <2>3. t.nonce <= g_nonce'[t.id]
    BY <1>3, <2>1, <2>2 DEF WellCut
  <2>4. t.msg \in DOMAIN written' /\ written'[t.msg] = written[t.msg]
    BY <1>1, <2>1 DEF WellCut
  <2> QED BY <2>1, <2>3, <2>4 DEF WellCut
<1>7. ASSUME NEW t \in DOMAIN network, NEW u \in new PROVE Apart(t, u) /\ Apart(u, t)
  <2>1. WellCut(t, written, g_nonce) /\ t.id \in Id /\ t.nonce \in Nat /\ t.nonce_msg \in Nat
    BY DEF SentInv, NetworkInv, WellCut, DataTlv
  <2>2. t.msg # u.msg
    BY <1>1, <1>2, <2>1 DEF WellCut, Fresh
  <2>3. /\ u.id = id /\ u.nonce \in Nat /\ u.nonce_msg \in Nat /\ u.nonce > g_nonce[id]
        /\ u.type = 220 => u.nonce_msg >= g_nonce[id]
    BY <1>2 DEF Fresh, WellCut, DataTlv
  <2>4. t.id = u.id => t.nonce < u.nonce
    BY <1>3, <2>1, <2>3 DEF WellCut
  <2>5. t.id = u.id /\ t.type = 220 /\ u.type = 220 => t.nonce_msg < u.nonce_msg
    BY <1>3, <2>1, <2>3 DEF WellCut
  <2>6. t.type = 220 /\ u.type = 220 => Key(t) # Key(u)
    BY <2>1, <2>3, <2>5 DEF Key
  <2> QED BY <2>1, <2>2, <2>3, <2>4, <2>6 DEF Apart
<1>8. NetworkInv'
  <2>1. \A t \in DOMAIN network' : WellCut(t, written', g_nonce')
    BY <1>2, <1>5, <1>6 DEF Fresh
  <2>2. \A t, u \in DOMAIN network : Apart(t, u)
    BY DEF SentInv, NetworkInv
  <2>3. \A t, u \in DOMAIN network' : Apart(t, u)
    BY <1>2, <1>5, <1>7, <2>2 DEF Fresh
  <2> QED BY <1>5, <2>1, <2>3 DEF NetworkInv
<1> QED BY <1>4, <1>8 DEF SentInv

LEMMA ShortIsFresh ==
  ASSUME SentInv, NEW id \in Id, NEW len \in MsgLength, AddMyMessage(id, len)
  PROVE  SentInv'
<1> DEFINE m == Cardinality(DOMAIN written) + 1
           t == ShortTlv(id, m, len)
<1>1. Writes(len) /\ Flood({t}) /\ g_nonce' = [g_nonce EXCEPT ![id] = @ + 1]
  BY DEF AddMyMessage
<1>2. /\ m \in Msg /\ m \notin DOMAIN written /\ written'[m] = len
      /\ m \in DOMAIN written'
  BY <1>1, NextMsg, Zenon DEF SentInv
<1>3. g_nonce[id] \in Nat /\ g_nonce'[id] = g_nonce[id] + 1 /\ len \in Nat \ {0}
  BY <1>1, LengthType DEF SentInv, WrittenInv
<1> HIDE DEF m
<1>4. /\ t \in DataTlv /\ t.len = len /\ t.msg = m /\ t.size = len /\ t.ind = 0
      /\ t.type = 0 /\ t.id = id /\ t.nonce = g_nonce[id] + 1
  BY <1>2, <1>3 DEF ShortTlv, DataTlv
<1> HIDE DEF t
<1>5. WellCut(t, written', g_nonce')
  BY <1>2, <1>3, <1>4 DEF WellCut
<1>6. Fresh(id, m, {t})
  BY <1>3, <1>4, <1>5 DEF Fresh, Apart
<1>7. NoncesGrow
  BY <1>1 DEF SentInv, WrittenInv, NoncesGrow
<1> QED BY <1>1, <1>6, <1>7, FloodKeeps DEF m

LEMMA BigIsFresh ==
  ASSUME SentInv, NEW id \in Id, NEW len \in MsgLength, SendBigData(id, len)
  PROVE  SentInv'
<1> DEFINE m == Cardinality(DOMAIN written) + 1
           F == Fragments(len)
           new == {BigTlv(id, m, len, i) : i \in 0..(F - 1)}
<1>1. Writes(len) /\ Flood(new) /\ g_nonce' = [g_nonce EXCEPT ![id] = @ + F + 1]
  BY DEF SendBigData
<1>2. /\ m \in Msg /\ m \notin DOMAIN written /\ written'[m] = len
      /\ m \in DOMAIN written'
  BY <1>1, NextMsg, Zenon DEF SentInv
<1>3. len \in Nat \ {0} /\ F \in Nat \ {0}
  BY LengthType, FragmentsType
<1>4. g_nonce[id] \in Nat /\ g_nonce'[id] = g_nonce[id] + (F + 1)
  BY <1>1, <1>3 DEF SentInv, WrittenInv
<1> HIDE DEF m, F
<1>5. ASSUME NEW i \in 0..(F - 1)
      PROVE  LET t == BigTlv(id, m, len, i)
             IN  /\ t \in DataTlv /\ t.len = FragmentLen(len, i) /\ t.len # 0
                 /\ t.msg = m /\ t.size = len /\ t.ind = i * MAX_SZ_220
                 /\ t.ind + t.len <= len
                 /\ t.type = 220 /\ t.id = id /\ t.nonce = g_nonce[id] + 1 + i
                 /\ t.nonce_msg = g_nonce[id]
  <2>1. /\ i * MAX_SZ_220 \in Nat /\ FragmentLen(len, i) \in Nat \ {0}
        /\ i * MAX_SZ_220 + FragmentLen(len, i) <= len
    BY <1>3, FragmentWithin, BigDataAssumption DEF F
  <2>2. g_nonce[id] + 1 + i \in Nat
    BY <1>3, <1>4
  <2> DEFINE ind == i * MAX_SZ_220
             frag == FragmentLen(len, i)
  <2> HIDE DEF ind, frag
  <2>3. BigTlv(id, m, len, i) =
          [id |-> id, nonce |-> g_nonce[id] + 1 + i, type |-> 220,
           nonce_msg |-> g_nonce[id], size |-> len, ind |-> ind, len |-> frag, msg |-> m]
    BY DEF BigTlv, ind, frag
  <2>4. ind \in Nat /\ frag \in Nat \ {0} /\ ind + frag <= len
    BY <2>1 DEF ind, frag
  <2>5. LET t == BigTlv(id, m, len, i)
        IN  /\ t \in DataTlv /\ t.len = frag /\ t.len # 0
            /\ t.msg = m /\ t.size = len /\ t.ind = ind
            /\ t.ind + t.len <= len
            /\ t.type = 220 /\ t.id = id /\ t.nonce = g_nonce[id] + 1 + i
            /\ t.nonce_msg = g_nonce[id]
    BY <1>2, <1>3, <1>4, <2>2, <2>3, <2>4 DEF DataTlv
  <2> QED BY <2>5 DEF ind, frag
<1>6. ASSUME NEW t \in new
      PROVE  /\ WellCut(t, written', g_nonce')
             /\ t.id = id /\ t.msg = m /\ t.nonce > g_nonce[id]
             /\ t.type = 220 => t.nonce_msg >= g_nonce[id]
  <2>1. PICK i \in 0..(F - 1) : t = BigTlv(id, m, len, i)
    OBVIOUS
  <2>2. /\ t \in DataTlv /\ t.len # 0 /\ t.msg = m /\ t.size = len
        /\ t.ind + t.len <= len
        /\ t.type = 220 /\ t.id = id /\ t.nonce = g_nonce[id] + 1 + i
        /\ t.nonce_msg = g_nonce[id]
    BY <1>5, <2>1
  <2>3. /\ t.nonce <= g_nonce'[id] /\ t.nonce > g_nonce[id]
        /\ t.nonce_msg < t.nonce /\ t.nonce_msg >= g_nonce[id]
    BY <1>3, <1>4, <2>2
  <2> HIDE DEF new
  <2> QED BY <1>2, <2>2, <2>3 DEF WellCut
<1>7. ASSUME NEW t \in new, NEW u \in new PROVE Apart(t, u)
  <2>1. PICK i \in 0..(F - 1) : t = BigTlv(id, m, len, i)
    OBVIOUS
  <2>2. PICK j \in 0..(F - 1) : u = BigTlv(id, m, len, j)
    OBVIOUS
  <2>3. /\ t.type = 220 /\ t.id = id /\ t.nonce_msg = g_nonce[id] /\ t.msg = m
        /\ t.nonce = g_nonce[id] + 1 + i
        /\ t.ind = i * MAX_SZ_220 /\ t.len = FragmentLen(len, i)
    BY <1>5, <2>1
  <2>4. /\ u.type = 220 /\ u.id = id /\ u.nonce_msg = g_nonce[id] /\ u.msg = m
        /\ u.nonce = g_nonce[id] + 1 + j
        /\ u.ind = j * MAX_SZ_220 /\ u.len = FragmentLen(len, j)
    BY <1>5, <2>2
  <2>5. i \in Nat /\ j \in Nat
    BY <1>3
  <2>6. t.nonce = u.nonce => t = u
    BY <1>4, <2>1, <2>2, <2>3, <2>4, <2>5
  <2>7. t = u \/ t.ind + t.len <= u.ind \/ u.ind + u.len <= t.ind
    <3>1. CASE i < j
      <4>1. i * MAX_SZ_220 + FragmentLen(len, i) <= j * MAX_SZ_220
        BY <1>3, <2>5, <3>1, FragmentsApart DEF F
      <4> QED BY <2>3, <2>4, <4>1
    <3>2. CASE j < i
      <4>1. j * MAX_SZ_220 + FragmentLen(len, j) <= i * MAX_SZ_220
        BY <1>3, <2>5, <3>2, FragmentsApart DEF F
      <4> QED BY <2>3, <2>4, <4>1
    <3>3. CASE i = j
      BY <2>1, <2>2, <3>3
    <3> QED BY <2>5, <3>1, <3>2, <3>3
  <2> HIDE DEF new
  <2> QED BY <2>3, <2>4, <2>6, <2>7 DEF Apart, Key
<1> HIDE DEF new
<1>8. Fresh(id, m, new)
  BY <1>6, <1>7 DEF Fresh
<1>9. NoncesGrow
  BY <1>1, <1>3, <1>4 DEF SentInv, WrittenInv, NoncesGrow
<1> QED BY <1>1, <1>8, <1>9, FloodKeeps DEF m

\* A delivery only counts a copy off.
LEMMA DeliverCounts ==
  ASSUME SentInv, NEW tlv \in DOMAIN network, Deliver(tlv)
  PROVE  /\ SentInv' /\ UNCHANGED <<g_nonce, written>>
         /\ DOMAIN network' = DOMAIN network
         /\ network[tlv].copies \in 1..Copies
         /\ network'[tlv].copies = network[tlv].copies - 1
         /\ \A t \in DOMAIN network : t # tlv => network'[t] = network[t]
<1>1. /\ network \in [DOMAIN network -> [copies: 0..Copies, wait: 0..Again]]
      /\ network[tlv] \in [copies: 0..Copies, wait: 0..Again]
  BY DEF SentInv, NetworkInv
<1>2. /\ network' = [network EXCEPT ![tlv].copies = @ - 1, ![tlv].wait = Again]
      /\ network[tlv].copies \in 1..Copies
      /\ UNCHANGED <<g_nonce, written>>
  BY <1>1, BigDataAssumption DEF Deliver
<1>3. /\ DOMAIN network' = DOMAIN network
      /\ network'[tlv] = [network[tlv] EXCEPT !.copies = @ - 1, !.wait = Again]
      /\ \A t \in DOMAIN network : t # tlv => network'[t] = network[t]
  BY <1>1, <1>2
<1>4. /\ network'[tlv].copies = network[tlv].copies - 1
      /\ network'[tlv] \in [copies: 0..Copies, wait: 0..Again]
  <2>1. network[tlv].copies - 1 \in 0..Copies /\ Again \in 0..Again
    BY <1>2, BigDataAssumption
  <2> QED BY <1>1, <1>3, <2>1
<1>5. network' \in [DOMAIN network' -> [copies: 0..Copies, wait: 0..Again]]
  <2>1. \A t \in DOMAIN network' : network'[t] \in [copies: 0..Copies, wait: 0..Again]
    BY <1>1, <1>3, <1>4
  <2>2. network' = [t \in DOMAIN network' |-> network'[t]]
    BY <1>1, <1>2
  <2> QED BY <2>1, <2>2
<1>6. NetworkInv' /\ WrittenInv'
  BY <1>2, <1>3, <1>5 DEF SentInv, NetworkInv, WrittenInv
<1> QED BY <1>2, <1>3, <1>4, <1>6 DEF SentInv

LEMMA SoonerType ==
  ASSUME NEW n \in Nat, NEW m \in 0..n
  PROVE  Sooner(m) \in 0..n
BY DEF Sooner

LEMMA TickKeepsSent ==
  ASSUME SentInv, Tick
  PROVE  /\ SentInv' /\ UNCHANGED <<g_nonce, written>>
         /\ DOMAIN network' = DOMAIN network
         /\ \A t \in DOMAIN network : network'[t].copies = network[t].copies
<1>1. /\ network' = [t \in DOMAIN network |-> [network[t] EXCEPT !.wait = Sooner(@)]]
      /\ UNCHANGED <<g_nonce, written>>
  BY DEF Tick
<1>2. ASSUME NEW t \in DOMAIN network
      PROVE  /\ network'[t] \in [copies: 0..Copies, wait: 0..Again]
             /\ network'[t].copies = network[t].copies
  <2>1. network[t] \in [copies: 0..Copies, wait: 0..Again]
    BY DEF SentInv, NetworkInv
  <2>2. Sooner(network[t].wait) \in 0..Again
    BY <2>1, SoonerType, BigDataAssumption
  <2> QED BY <1>1, <2>1, <2>2
<1>3. NetworkInv' /\ WrittenInv'
  BY <1>1, <1>2 DEF SentInv, NetworkInv, WrittenInv
<1> QED BY <1>1, <1>2, <1>3 DEF SentInv

LEMMA SentStep == SentInv /\ [Next]_vars => SentInv'
<1> SUFFICES ASSUME SentInv, [Next]_vars PROVE SentInv'
  OBVIOUS
<1>1. ASSUME NEW id \in Id, NEW len \in MsgLength,
             AddMyMessage(id, len) \/ SendBigData(id, len)
      PROVE  SentInv'
  BY <1>1, ShortIsFresh, BigIsFresh
<1>2. ASSUME NEW tlv \in DOMAIN network, Traitment(tlv) PROVE SentInv'
  BY <1>2, DeliverCounts DEF Traitment, Traitment0, Traitment220
<1>3. CASE Tick
  BY <1>3, TickKeepsSent
<1>4. CASE UNCHANGED vars
  <2>1. UNCHANGED <<g_nonce, written, network>>
    BY <1>4 DEF vars
  <2> QED BY <2>1 DEF SentInv, WrittenInv, NetworkInv
<1> QED BY <1>1, <1>2, <1>3, <1>4 DEF Next

THEOREM SentIsSound == Spec => []SentInv
BY SentInit, SentStep, PTL DEF Spec

\* A nonce is used once, for any number of copies: g_nonce passes every nonce
\* of a message's TLVs before the next message takes one (data.c).
THEOREM NoncesNeverClash == Spec => []NoncesDiffer
<1>1. SentInv => NoncesDiffer
  <2> SUFFICES ASSUME SentInv PROVE NoncesDiffer
    OBVIOUS
  <2>1. \A t, u \in DOMAIN network : Apart(t, u)
    BY DEF SentInv, NetworkInv
  <2> QED BY <2>1 DEF NoncesDiffer, Apart, Key
<1> QED BY <1>1, SentIsSound, PTL

-----------------------------------------------------------------------------
(* Messages being put together, when no copy gets past the flooding *)

Positions(len) == 0..(len - 1)

\* Positions of the buffer that have been read.
ReadOf(big) == {p \in DOMAIN big.content : big.content[p] # 0}

\* big is what has been read so far of the message t is a TLV of: the bytes
\* read are counted once each, and none belongs to a TLV still on its way.
Entry(t, big, net, seen) ==
  /\ big \in [contentlen: {t.size}, read_nb: Nat, left: 0..FIVE_MIN_SEC,
              content: [Positions(t.size) -> {0, t.msg}]]
  /\ big.read_nb = Cardinality(ReadOf(big))
  /\ \A u \in DOMAIN net :
       u.msg = t.msg /\ net[u].copies > 0 => Carries(u) \cap ReadOf(big) = {}
  /\ t.msg \notin seen

EntryOf(k, big, net, seen) ==
  \E t \in DOMAIN net : t.type = 220 /\ Key(t) = k /\ Entry(t, big, net, seen)

Entries(map, net, seen) == \A k \in DOMAIN map : EntryOf(k, map[k], net, seen)

\* A TLV on its way is of a message that has not been displayed.
Unseen(net, seen) ==
  \A t \in DOMAIN net : net[t].copies > 0 => t.msg \notin seen

ReadInv ==
  /\ Entries(g_big_data_map, network, shown)
  /\ Unseen(network, shown)
  /\ shown \cup dropped \subseteq DOMAIN written

LEMMA IntervalIs ==
  ASSUME NEW a \in Nat, NEW n \in Nat
  PROVE  IsFiniteSet(a..(a + n - 1)) /\ Cardinality(a..(a + n - 1)) = n
<1> DEFINE b == a + n - 1
<1>1. b \in Int /\ (IF a > b THEN 0 ELSE b - a + 1) = n
  OBVIOUS
<1> HIDE DEF b
<1>2. IsFiniteSet(a..b) /\ Cardinality(a..b) = n
  BY <1>1, FS_Interval
<1> QED BY <1>2 DEF b

LEMMA TlvIs ==
  ASSUME SentInv, NEW t \in DOMAIN network
  PROVE  /\ t.msg \in DOMAIN written /\ t.msg \in Nat \ {0} /\ t.msg \in 0..MaxMsg
         /\ t.size = written[t.msg] /\ t.size \in Nat \ {0}
         /\ t.ind \in Nat /\ t.len \in Nat \ {0} /\ t.ind + t.len <= t.size
         /\ t.type \in {0, 220}
         /\ Carries(t) \subseteq Positions(t.size) /\ Carries(t) # {}
         /\ IsFiniteSet(Carries(t)) /\ Cardinality(Carries(t)) = t.len
<1>1. WellCut(t, written, g_nonce)
  BY DEF SentInv, NetworkInv
<1>2. /\ t.msg \in DOMAIN written /\ t.size = written[t.msg] /\ t.msg \in Msg
      /\ t.ind \in Nat /\ t.len \in Nat \ {0} /\ t.ind + t.len <= t.size
      /\ t.type \in {0, 220} /\ t.size \in Nat
  BY <1>1 DEF WellCut, DataTlv
<1>3. t.msg \in Nat \ {0} /\ t.msg \in 0..MaxMsg
  BY <1>2, BigDataAssumption DEF Msg
<1>4. Carries(t) \subseteq Positions(t.size) /\ t.ind \in Carries(t)
  BY <1>2 DEF Carries, Positions
<1>5. IsFiniteSet(Carries(t)) /\ Cardinality(Carries(t)) = t.len
  <2>1. t.ind \in Nat /\ t.len \in Nat
    BY <1>2
  <2>2. /\ IsFiniteSet(t.ind..(t.ind + t.len - 1))
        /\ Cardinality(t.ind..(t.ind + t.len - 1)) = t.len
    BY <2>1, IntervalIs, Zenon
  <2> QED BY <2>2 DEF Carries
<1> QED BY <1>2, <1>3, <1>4, <1>5

LEMMA PositionsAre ==
  ASSUME NEW len \in Nat \ {0}
  PROVE  /\ IsFiniteSet(Positions(len)) /\ Cardinality(Positions(len)) = len
         /\ 0 \in Positions(len)
<1>1. 0 + len - 1 = len - 1
  OBVIOUS
<1>2. IsFiniteSet(0..(0 + len - 1)) /\ Cardinality(0..(0 + len - 1)) = len
  BY IntervalIs
<1> QED BY <1>1, <1>2 DEF Positions

\* What an entry has read, and that it has read all of it when its counter
\* says so.
LEMMA EntryIs ==
  ASSUME SentInv, NEW t \in DOMAIN network, NEW big, NEW net, NEW seen,
         Entry(t, big, net, seen)
  PROVE  /\ IsBigData(big)
         /\ IsFiniteSet(ReadOf(big)) /\ ReadOf(big) \subseteq Positions(t.size)
         /\ MsgsIn(big.content) \subseteq {t.msg}
         /\ big.read_nb = big.contentlen =>
              /\ ReadOf(big) = Positions(t.size)
              /\ big.content = [p \in Positions(t.size) |-> t.msg]
<1> DEFINE read == ReadOf(big)
<1>1. /\ big.contentlen = t.size /\ big.read_nb = Cardinality(read)
      /\ big.left \in 0..FIVE_MIN_SEC
      /\ big.content \in [Positions(t.size) -> {0, t.msg}]
  BY DEF Entry
<1>2. t.msg \in 0..MaxMsg /\ t.size \in Nat \ {0} /\ 0 \in 0..MaxMsg
  BY TlvIs, BigDataAssumption
<1>3. read \in SUBSET Positions(t.size)
  BY <1>1 DEF ReadOf
<1> HIDE DEF read
<1>4. /\ IsFiniteSet(read) /\ Cardinality(read) <= t.size /\ Cardinality(read) \in Nat
      /\ Cardinality(read) = t.size => read = Positions(t.size)
  <2>1. IsFiniteSet(Positions(t.size)) /\ Cardinality(Positions(t.size)) = t.size
    BY <1>2, PositionsAre
  <2>2. /\ IsFiniteSet(read) /\ Cardinality(read) <= t.size
        /\ t.size = Cardinality(read) => Positions(t.size) = read
    BY <1>3, <2>1, FS_Subset
  <2> QED BY <2>2, FS_CardinalityType
<1>5. big.read_nb \in 0..big.contentlen
  BY <1>1, <1>2, <1>4
<1>6. big.content \in [0..(big.contentlen - 1) -> 0..MaxMsg]
  BY <1>1, <1>2 DEF Positions
<1>7. MsgsIn(big.content) \subseteq {t.msg}
  BY <1>1 DEF MsgsIn
<1>8. ASSUME big.read_nb = big.contentlen
      PROVE  /\ read = Positions(t.size)
             /\ big.content = [p \in Positions(t.size) |-> t.msg]
  <2>1. read = Positions(t.size)
    BY <1>1, <1>4, <1>8
  <2>2. \A p \in Positions(t.size) : big.content[p] = t.msg
    BY <1>1, <2>1 DEF read, ReadOf
  <2> QED BY <1>1, <2>1, <2>2
<1> QED BY <1>1, <1>3, <1>4, <1>5, <1>6, <1>7, <1>8 DEF IsBigData, read

\* The TLVs of a message are of the same size and have the same key; a message
\* of type 0 has one.
LEMMA SameMessage ==
  ASSUME SentInv, NEW t \in DOMAIN network, NEW u \in DOMAIN network
  PROVE  /\ t.msg = u.msg => t.size = u.size /\ t.type = u.type /\ Key(t) = Key(u)
         /\ t.msg = u.msg /\ t # u => Carries(t) \cap Carries(u) = {}
         /\ t.msg = u.msg /\ t.type = 0 => t = u
         /\ t.type = 220 /\ u.type = 220 /\ Key(t) = Key(u) => t.msg = u.msg
<1>1. Apart(t, u)
  BY DEF SentInv, NetworkInv
<1>2. /\ t.size = written[t.msg] /\ u.size = written[u.msg]
      /\ t.ind \in Nat /\ u.ind \in Nat /\ t.len \in Nat \ {0} /\ u.len \in Nat \ {0}
      /\ t.ind + t.len <= t.size /\ u.ind + u.len <= u.size
      /\ t.size \in Nat /\ u.size \in Nat
  BY TlvIs
<1>3. ASSUME t.ind + t.len <= u.ind \/ u.ind + u.len <= t.ind
      PROVE  Carries(t) \cap Carries(u) = {}
  BY <1>2, <1>3 DEF Carries
<1>4. ASSUME t.type = 0, u.type = 0, t.msg = u.msg PROVE t = u
  <2>1. /\ t.ind = 0 /\ t.len = t.size
        /\ u.ind = 0 /\ u.len = u.size
    BY <1>4 DEF SentInv, NetworkInv, WellCut
  <2> QED BY <1>1, <1>2, <1>4, <2>1 DEF Apart
<1> QED BY <1>1, <1>2, <1>3, <1>4 DEF Apart

-----------------------------------------------------------------------------
(* A fragment is read *)

\* The map traitment_data leaves to clear_big_data.
Treated(tlv) ==
  [k \in DOMAIN g_big_data_map \cup {Key(tlv)} |->
     IF k = Key(tlv) THEN Filled(BigData(tlv), tlv) ELSE g_big_data_map[k]]

\* get_map finds what has been read of the fragment's own message, or nothing
\* has been.
LEMMA EntryFound ==
  ASSUME SentInv, ReadInv, NEW tlv \in DOMAIN network,
         tlv.type = 220, network[tlv].copies > 0
  PROVE  Entry(tlv, BigData(tlv), network, shown)
<1>1. CASE Key(tlv) \in DOMAIN g_big_data_map
  <2> DEFINE big == g_big_data_map[Key(tlv)]
  <2>1. BigData(tlv) = big
    BY <1>1 DEF BigData
  <2>2. PICK t \in DOMAIN network :
          t.type = 220 /\ Key(t) = Key(tlv) /\ Entry(t, big, network, shown)
    BY <1>1 DEF ReadInv, Entries, EntryOf
  <2> HIDE DEF big
  <2>3. t.msg = tlv.msg /\ t.size = tlv.size
    BY <2>2, SameMessage
  <2> QED BY <2>1, <2>2, <2>3 DEF Entry
<1>2. CASE Key(tlv) \notin DOMAIN g_big_data_map
  <2> DEFINE big == NewBigData(tlv)
  <2>1. BigData(tlv) = big
    BY <1>2 DEF BigData
  <2>2. big.content = [p \in Positions(tlv.size) |-> 0]
    BY DEF NewBigData, Positions
  <2>3. ReadOf(big) = {}
    <3> HIDE DEF big
    <3> QED BY <2>2 DEF ReadOf
  <2>4. Cardinality(ReadOf(big)) = 0
    BY <2>3, FS_EmptySet
  <2>5. big \in [contentlen: {tlv.size}, read_nb: Nat, left: 0..FIVE_MIN_SEC,
                 content: [Positions(tlv.size) -> {0, tlv.msg}]]
    BY BigDataAssumption DEF NewBigData, Positions
  <2>6. big.read_nb = 0
    BY DEF NewBigData
  <2>7. tlv.msg \notin shown
    BY DEF ReadInv, Unseen
  <2> HIDE DEF big
  <2> QED BY <2>1, <2>3, <2>4, <2>5, <2>6, <2>7 DEF Entry
<1> QED BY <1>1, <1>2

\* The bytes of a fragment read for the first time are new, and all counted.
LEMMA FilledIs ==
  ASSUME SentInv, NEW tlv \in DOMAIN network, NEW big, network[tlv].copies > 0,
         Entry(tlv, big, network, shown)
  PROVE  LET more == Filled(big, tlv)
         IN  /\ ReadOf(more) = ReadOf(big) \cup Carries(tlv)
             /\ more.read_nb = Cardinality(ReadOf(more))
             /\ more \in [contentlen: {tlv.size}, read_nb: Nat, left: 0..FIVE_MIN_SEC,
                          content: [Positions(tlv.size) -> {0, tlv.msg}]]
<1> DEFINE more == Filled(big, tlv)
           content == [p \in DOMAIN big.content |->
                         IF p \in Carries(tlv) THEN tlv.msg ELSE big.content[p]]
<1>1. /\ big.contentlen = tlv.size /\ big.read_nb = Cardinality(ReadOf(big))
      /\ big \in [contentlen: {tlv.size}, read_nb: Nat, left: 0..FIVE_MIN_SEC,
                  content: [Positions(tlv.size) -> {0, tlv.msg}]]
      /\ big.read_nb \in Nat
      /\ big.content \in [Positions(tlv.size) -> {0, tlv.msg}]
      /\ Carries(tlv) \cap ReadOf(big) = {}
  BY DEF Entry
<1>2. /\ tlv.msg # 0 /\ tlv.len \in Nat /\ tlv.ind \in Nat /\ tlv.size \in Nat
      /\ tlv.ind + tlv.len <= tlv.size /\ Carries(tlv) \subseteq Positions(tlv.size)
      /\ IsFiniteSet(Carries(tlv)) /\ Cardinality(Carries(tlv)) = tlv.len
  BY TlvIs
<1>3. ~(big.contentlen # tlv.size \/ big.contentlen < tlv.len + tlv.ind)
  BY <1>1, <1>2
<1>4. more = [big EXCEPT !.read_nb = @ + tlv.len, !.content = content]
  BY <1>3 DEF Filled, Carries
<1>5. content \in [Positions(tlv.size) -> {0, tlv.msg}]
  BY <1>1
<1>6. {p \in DOMAIN content : content[p] # 0} = ReadOf(big) \cup Carries(tlv)
  BY <1>1, <1>2 DEF ReadOf
<1> HIDE DEF content, more
<1>7. /\ more.content = content /\ more.read_nb = big.read_nb + tlv.len
      /\ more \in [contentlen: {tlv.size}, read_nb: Nat, left: 0..FIVE_MIN_SEC,
                   content: [Positions(tlv.size) -> {0, tlv.msg}]]
  <2> DEFINE Buffers == [Positions(tlv.size) -> {0, tlv.msg}]
             Size == tlv.size
             Left == 0..FIVE_MIN_SEC
             n == tlv.len
  <2>1. big \in [contentlen: {Size}, read_nb: Nat, left: Left, content: Buffers]
    BY <1>1
  <2>2. content \in Buffers /\ n \in Nat
    BY <1>2, <1>5
  <2>3. more = [big EXCEPT !.read_nb = @ + n, !.content = content]
    BY <1>4
  <2> HIDE DEF Buffers, Size, Left, n
  <2>4. big.read_nb + n \in Nat
    BY <2>1, <2>2
  <2> DEFINE sum == big.read_nb + n
  <2>5. sum \in Nat /\ more = [big EXCEPT !.read_nb = sum, !.content = content]
    BY <2>3, <2>4
  <2> HIDE DEF sum
  <2>6. /\ more.content = content /\ more.read_nb = sum
        /\ more \in [contentlen: {Size}, read_nb: Nat, left: Left, content: Buffers]
    BY <2>1, <2>2, <2>5
  <2> QED BY <2>6 DEF Buffers, Size, Left, n, sum
<1>8. ReadOf(more) = ReadOf(big) \cup Carries(tlv)
  BY <1>6, <1>7 DEF ReadOf
<1>9. Cardinality(ReadOf(more)) = Cardinality(ReadOf(big)) + tlv.len
  <2>1. IsFiniteSet(ReadOf(big))
    BY EntryIs
  <2>2. Cardinality(ReadOf(big) \cup Carries(tlv))
          = Cardinality(ReadOf(big)) + Cardinality(Carries(tlv))
              - Cardinality(ReadOf(big) \cap Carries(tlv))
    BY <1>2, <2>1, FS_Union
  <2>3. ReadOf(big) \cap Carries(tlv) = {}
    BY <1>1
  <2>4. Cardinality(ReadOf(big) \cap Carries(tlv)) = 0
    BY <2>3, FS_EmptySet
  <2> QED BY <1>1, <1>2, <1>8, <2>2, <2>4
<1> QED BY <1>1, <1>7, <1>8, <1>9 DEF more

\* An entry stands when copies are only counted off.
LEMMA EntryStands ==
  ASSUME NEW t, NEW big, NEW net, NEW next, NEW seen, NEW more,
         Entry(t, big, net, seen), DOMAIN next = DOMAIN net,
         \A u \in DOMAIN net : next[u].copies > 0 => net[u].copies > 0,
         t.msg \notin more
  PROVE  Entry(t, big, next, more)
BY DEF Entry

LEMMA OnlyOnce ==
  ASSUME SentInv, Copies <= 1, NEW tlv \in DOMAIN network, Deliver(tlv)
  PROVE  /\ network[tlv].copies > 0 /\ network'[tlv].copies = 0
         /\ DOMAIN network' = DOMAIN network
         /\ \A u \in DOMAIN network :
              network'[u].copies > 0 => u # tlv /\ network[u].copies > 0
<1>1. /\ DOMAIN network' = DOMAIN network
      /\ network[tlv].copies \in 1..Copies
      /\ network'[tlv].copies = network[tlv].copies - 1
      /\ \A t \in DOMAIN network : t # tlv => network'[t] = network[t]
  BY DeliverCounts
<1>2. network[tlv].copies = 1 /\ network'[tlv].copies = 0
  BY <1>1, BigDataAssumption
<1> QED BY <1>1, <1>2

LEMMA TreatedIs ==
  ASSUME SentInv, ReadInv, Copies <= 1, NEW tlv \in DOMAIN network,
         tlv.type = 220, Deliver(tlv)
  PROVE  Entries(Treated(tlv), network', shown) /\ Unseen(network', shown)
<1>1. /\ network[tlv].copies > 0 /\ network'[tlv].copies = 0
      /\ DOMAIN network' = DOMAIN network
      /\ \A u \in DOMAIN network :
           network'[u].copies > 0 => u # tlv /\ network[u].copies > 0
  BY OnlyOnce
<1>2. Unseen(network', shown)
  BY <1>1 DEF ReadInv, Unseen
<1>3. ASSUME NEW k \in DOMAIN g_big_data_map
      PROVE  EntryOf(k, g_big_data_map[k], network', shown)
  <2>1. PICK t \in DOMAIN network :
          t.type = 220 /\ Key(t) = k /\ Entry(t, g_big_data_map[k], network, shown)
    BY DEF ReadInv, Entries, EntryOf
  <2>2. t.msg \notin shown
    BY <2>1 DEF Entry
  <2>3. Entry(t, g_big_data_map[k], network', shown)
    BY <1>1, <2>1, <2>2, EntryStands
  <2> QED BY <1>1, <2>1, <2>3 DEF EntryOf
<1>4. Entry(tlv, Filled(BigData(tlv), tlv), network', shown)
  <2> DEFINE big == BigData(tlv)
             more == Filled(big, tlv)
  <2>1. Entry(tlv, big, network, shown)
    BY <1>1, EntryFound
  <2>2. /\ ReadOf(more) = ReadOf(big) \cup Carries(tlv)
        /\ more.read_nb = Cardinality(ReadOf(more))
        /\ more \in [contentlen: {tlv.size}, read_nb: Nat, left: 0..FIVE_MIN_SEC,
                     content: [Positions(tlv.size) -> {0, tlv.msg}]]
    <3> HIDE DEF big
    <3> QED BY <1>1, <2>1, FilledIs
  <2> HIDE DEF big, more
  <2>3. ASSUME NEW u \in DOMAIN network', u.msg = tlv.msg, network'[u].copies > 0
        PROVE  Carries(u) \cap ReadOf(more) = {}
    <3>1. u # tlv /\ network[u].copies > 0 /\ u \in DOMAIN network
      BY <1>1, <2>3
    <3>2. Carries(u) \cap ReadOf(big) = {}
      BY <2>1, <2>3, <3>1 DEF Entry
    <3>3. Carries(u) \cap Carries(tlv) = {}
      BY <2>3, <3>1, SameMessage
    <3> QED BY <2>2, <3>2, <3>3
  <2>4. tlv.msg \notin shown
    BY <2>1 DEF Entry
  <2>5. Entry(tlv, more, network', shown)
    BY <2>2, <2>3, <2>4 DEF Entry
  <2> QED BY <2>5 DEF big, more
<1>5. Entries(Treated(tlv), network', shown)
  <2>1. EntryOf(Key(tlv), Filled(BigData(tlv), tlv), network', shown)
    BY <1>1, <1>4 DEF EntryOf
  <2>2. /\ DOMAIN Treated(tlv) = DOMAIN g_big_data_map \cup {Key(tlv)}
        /\ \A k \in DOMAIN Treated(tlv) :
             Treated(tlv)[k] = IF k = Key(tlv) THEN Filled(BigData(tlv), tlv)
                                               ELSE g_big_data_map[k]
    BY DEF Treated
  <2> QED BY <1>3, <2>1, <2>2 DEF Entries
<1> QED BY <1>2, <1>5

-----------------------------------------------------------------------------
(* What is complete is displayed *)

Whole(m) == [p \in Positions(written[m]) |-> m]

\* c is all of message m, which has not been displayed and of which nothing is
\* left: no TLV on its way, and no entry of the map but a complete one.
Gone(c, m, map, net) ==
  /\ c = Whole(m) /\ m \notin shown
  /\ \A u \in DOMAIN net : u.msg = m => ~(net[u].copies > 0)
  /\ \A k \in DOMAIN map \ Complete(map), t \in DOMAIN net :
       t.type = 220 /\ Key(t) = k => t.msg # m

ShowsWhole ==
  \A c \in displayed' :
    \E m \in DOMAIN written : c = [p \in 0..(written[m] - 1) |-> m]

ShowsOnce == \A c \in displayed' : MsgsIn(c) \cap shown = {}

LEMMA WholeIs ==
  ASSUME SentInv, NEW m \in DOMAIN written
  PROVE  MsgsIn(Whole(m)) = {m}
<1>1. m # 0 /\ written[m] \in Nat \ {0}
  <2>1. m \in Nat \ {0}
    BY DEF SentInv, WrittenInv
  <2>2. written[m] \in Nat \ {0}
    BY LengthType DEF SentInv, WrittenInv
  <2> QED BY <2>1, <2>2
<1>2. 0 \in Positions(written[m])
  BY <1>1, PositionsAre
<1> QED BY <1>1, <1>2 DEF MsgsIn, Whole

\* A complete entry holds its message and takes the last of its TLVs.
LEMMA CompleteIsGone ==
  ASSUME SentInv, NEW map, NEW net, DOMAIN net = DOMAIN network,
         Entries(map, net, shown), NEW k \in Complete(map)
  PROVE  \E m \in DOMAIN written : Gone(map[k].content, m, map, net)
<1> DEFINE big == map[k]
<1>1. k \in DOMAIN map /\ big.read_nb = big.contentlen
  BY DEF Complete
<1>2. PICK t \in DOMAIN net :
        t.type = 220 /\ Key(t) = k /\ Entry(t, big, net, shown)
  BY <1>1 DEF Entries, EntryOf
<1> HIDE DEF big
<1>3. /\ t \in DOMAIN network /\ t.msg \in DOMAIN written
      /\ t.size = written[t.msg]
  BY <1>2, TlvIs
<1>4. /\ ReadOf(big) = Positions(t.size)
      /\ big.content = [p \in Positions(t.size) |-> t.msg]
  BY <1>1, <1>2, <1>3, EntryIs
<1>5. big.content = Whole(t.msg) /\ t.msg \notin shown
  BY <1>2, <1>3, <1>4 DEF Whole, Entry
<1>6. ASSUME NEW u \in DOMAIN net, u.msg = t.msg, net[u].copies > 0 PROVE FALSE
  <2>1. Carries(u) \subseteq Positions(u.size) /\ Carries(u) # {} /\ u.size = t.size
    BY <1>3, <1>6, TlvIs
  <2>2. Carries(u) \cap ReadOf(big) = {}
    BY <1>2, <1>6 DEF Entry
  <2> QED BY <1>4, <2>1, <2>2
<1>7. ASSUME NEW l \in DOMAIN map \ Complete(map), NEW u \in DOMAIN net,
             u.type = 220, Key(u) = l
      PROVE  u.msg # t.msg
  <2>1. l # k
    OBVIOUS
  <2> QED BY <1>2, <1>3, <1>7, <2>1, SameMessage
<1>8. Gone(big.content, t.msg, map, net)
  BY <1>5, <1>6, <1>7 DEF Gone
<1> QED BY <1>3, <1>8 DEF big

\* clear_big_data displays whole messages, none for the second time, and
\* leaves what is still being put together.
LEMMA ClearKeeps ==
  ASSUME SentInv, NEW map, NEW now, NEW net, net = network',
         DOMAIN net = DOMAIN network, written' = written,
         Entries(map, net, shown), Unseen(net, shown),
         shown \cup dropped \subseteq DOMAIN written,
         \A c \in now : \E m \in DOMAIN written : Gone(c, m, map, net),
         ClearBigData(map, now)
  PROVE  ShowsWhole /\ ShowsOnce /\ ReadInv'
<1> DEFINE left == DOMAIN map \ (Complete(map) \cup TooOld(map))
           lost == UNION {MsgsIn(map[k].content) : k \in TooOld(map) \ Complete(map)}
<1>1. /\ displayed' = now \cup {map[k].content : k \in Complete(map)}
      /\ shown' = shown \cup UNION {MsgsIn(c) : c \in displayed'}
      /\ dropped' = dropped \cup lost
      /\ g_big_data_map' = [k \in left |-> map[k]]
  BY DEF ClearBigData
<1> HIDE DEF lost
<1>2. ASSUME NEW c \in displayed'
      PROVE  \E m \in DOMAIN written : Gone(c, m, map, net) /\ MsgsIn(c) = {m}
  <2>1. \E m \in DOMAIN written : Gone(c, m, map, net)
    BY <1>1, CompleteIsGone
  <2> QED BY <2>1, WholeIs DEF Gone
<1>3. ShowsWhole /\ ShowsOnce
  BY <1>2 DEF ShowsWhole, ShowsOnce, Gone, Whole, Positions
<1>4. ASSUME NEW m \in shown'
      PROVE  \/ m \in shown
             \/ m \in DOMAIN written /\ \E c \in displayed' : Gone(c, m, map, net)
  BY <1>1, <1>2
<1>5. lost \subseteq DOMAIN written
  <2>1. ASSUME NEW k \in TooOld(map) PROVE MsgsIn(map[k].content) \subseteq DOMAIN written
    <3>1. PICK t \in DOMAIN net : Entry(t, map[k], net, shown)
      BY DEF TooOld, Entries, EntryOf
    <3> DEFINE big == map[k]
    <3>2. Entry(t, big, net, shown)
      BY <3>1
    <3> HIDE DEF big
    <3>3. MsgsIn(big.content) \subseteq {t.msg} /\ t.msg \in DOMAIN written
      BY <3>2, EntryIs, TlvIs
    <3> QED BY <3>3 DEF big
  <2> QED BY <2>1 DEF lost
<1>6. shown' \cup dropped' \subseteq DOMAIN written'
  BY <1>1, <1>4, <1>5
<1>7. ASSUME NEW t \in DOMAIN net, net[t].copies > 0 PROVE t.msg \notin shown'
  BY <1>4, <1>7 DEF Unseen, Gone
<1>8. ASSUME NEW k \in left PROVE EntryOf(k, map[k], net, shown')
  <2>1. PICK t \in DOMAIN net :
          t.type = 220 /\ Key(t) = k /\ Entry(t, map[k], net, shown)
    BY DEF Entries, EntryOf
  <2>2. t.msg \notin shown
    BY <2>1 DEF Entry
  <2>3. t.msg \notin shown'
    BY <1>4, <2>1, <2>2 DEF Gone
  <2>4. Entry(t, map[k], net, shown')
    BY <2>1, <2>3 DEF Entry
  <2> QED BY <2>1, <2>4 DEF EntryOf
<1>9. Entries(g_big_data_map', net, shown') /\ Unseen(net, shown')
  <2>1. DOMAIN g_big_data_map' = left /\ \A k \in left : g_big_data_map'[k] = map[k]
    BY <1>1
  <2> QED BY <1>7, <1>8, <2>1 DEF Entries, Unseen
<1>10. ReadInv'
  BY <1>6, <1>9 DEF ReadInv
<1> QED BY <1>3, <1>10

LEMMA ShortIsShown ==
  ASSUME SentInv, ReadInv, Copies <= 1, NEW tlv \in DOMAIN network, Traitment0(tlv)
  PROVE  ShowsWhole /\ ShowsOnce /\ ReadInv'
<1> DEFINE net == network'
           c == [p \in 0..(tlv.size - 1) |-> tlv.msg]
<1>1. tlv.type = 0 /\ Deliver(tlv) /\ ClearBigData(g_big_data_map, {c})
  BY DEF Traitment0
<1>2. /\ network[tlv].copies > 0 /\ net[tlv].copies = 0 /\ DOMAIN net = DOMAIN network
      /\ \A u \in DOMAIN network :
           net[u].copies > 0 => u # tlv /\ network[u].copies > 0
  BY <1>1, OnlyOnce
<1>3. written' = written
  BY <1>1, DeliverCounts
<1>4. tlv.msg \in DOMAIN written /\ c = Whole(tlv.msg)
  BY TlvIs DEF Whole, Positions
<1>5. tlv.msg \notin shown
  BY <1>2 DEF ReadInv, Unseen
<1> DEFINE after == net
<1>6. after = network'
  OBVIOUS
<1> HIDE DEF after, c
<1>7. /\ after[tlv].copies = 0 /\ DOMAIN after = DOMAIN network
      /\ \A u \in DOMAIN network :
           after[u].copies > 0 => u # tlv /\ network[u].copies > 0
  BY <1>2, <1>6
<1>8. Gone(c, tlv.msg, g_big_data_map, after)
  <2>1. ASSUME NEW u \in DOMAIN after, u.msg = tlv.msg PROVE u = tlv
    BY <1>1, <1>7, <2>1, SameMessage
  <2>2. \A u \in DOMAIN after : u.msg = tlv.msg => ~(after[u].copies > 0)
    BY <1>7, <2>1
  <2>3. \A u \in DOMAIN after : u.type = 220 => u.msg # tlv.msg
    BY <1>1, <2>1
  <2> QED BY <1>4, <1>5, <2>2, <2>3 DEF Gone
<1>9. ASSUME NEW k \in DOMAIN g_big_data_map
      PROVE  EntryOf(k, g_big_data_map[k], after, shown)
  <2>1. PICK t \in DOMAIN network :
          t.type = 220 /\ Key(t) = k /\ Entry(t, g_big_data_map[k], network, shown)
    BY DEF ReadInv, Entries, EntryOf
  <2>2. t.msg \notin shown
    BY <2>1 DEF Entry
  <2>3. Entry(t, g_big_data_map[k], after, shown)
    BY <1>7, <2>1, <2>2, EntryStands
  <2> QED BY <1>7, <2>1, <2>3 DEF EntryOf
<1>10. Entries(g_big_data_map, after, shown) /\ Unseen(after, shown)
  BY <1>7, <1>9 DEF Entries, Unseen, ReadInv
<1>11. shown \cup dropped \subseteq DOMAIN written
  BY DEF ReadInv
<1>12. \A d \in {c} : \E m \in DOMAIN written : Gone(d, m, g_big_data_map, after)
  BY <1>4, <1>8
<1> QED BY <1>1, <1>3, <1>6, <1>7, <1>10, <1>11, <1>12, ClearKeeps

LEMMA FragmentIsRead ==
  ASSUME SentInv, ReadInv, Copies <= 1, NEW tlv \in DOMAIN network, Traitment220(tlv)
  PROVE  ShowsWhole /\ ShowsOnce /\ ReadInv'
<1>1. tlv.type = 220 /\ Deliver(tlv) /\ ClearBigData(Treated(tlv), {})
  BY DEF Traitment220, Treated
<1>2. Entries(Treated(tlv), network', shown) /\ Unseen(network', shown)
  BY <1>1, TreatedIs
<1>3. DOMAIN network' = DOMAIN network /\ written' = written
  BY <1>1, DeliverCounts
<1>4. shown \cup dropped \subseteq DOMAIN written
  BY DEF ReadInv
<1> DEFINE after == network'
           map == Treated(tlv)
<1>5. /\ after = network' /\ DOMAIN after = DOMAIN network
      /\ Entries(map, after, shown) /\ Unseen(after, shown) /\ ClearBigData(map, {})
  BY <1>1, <1>2, <1>3
<1> HIDE DEF after, map
<1>6. \A d \in {} : \E m \in DOMAIN written : Gone(d, m, map, after)
  OBVIOUS
<1> QED BY <1>3, <1>4, <1>5, <1>6, ClearKeeps

\* The TLVs of a new message are of none that is being read.
LEMMA WritingKeepsRead ==
  ASSUME SentInv, ReadInv, NEW len \in MsgLength, NEW new, Writes(len), Flood(new),
         \A t \in new : t.msg = Cardinality(DOMAIN written) + 1,
         UNCHANGED <<g_big_data_map, shown, dropped>>
  PROVE  ReadInv'
<1> DEFINE m == Cardinality(DOMAIN written) + 1
           after == network'
<1>1. m \notin DOMAIN written /\ DOMAIN written' = DOMAIN written \cup {m}
  BY NextMsg, Zenon DEF SentInv
<1>2. \A t \in new : t.msg = m
  OBVIOUS
<1> HIDE DEF m
<1>3. /\ after = network' /\ DOMAIN after = DOMAIN network \cup new
      /\ \A t \in DOMAIN network : t \notin new => after[t] = network[t]
  BY DEF Flood
<1> HIDE DEF after
<1>4. shown' \cup dropped' \subseteq DOMAIN written'
  BY <1>1 DEF ReadInv
<1>5. ASSUME NEW u \in DOMAIN after, u.msg \in DOMAIN written
      PROVE  u \in DOMAIN network /\ after[u] = network[u]
  BY <1>1, <1>2, <1>3, <1>5
<1>6. Unseen(after, shown)
  BY <1>5 DEF ReadInv, Unseen
<1>7. ASSUME NEW k \in DOMAIN g_big_data_map
      PROVE  EntryOf(k, g_big_data_map[k], after, shown)
  <2>1. PICK t \in DOMAIN network :
          t.type = 220 /\ Key(t) = k /\ Entry(t, g_big_data_map[k], network, shown)
    BY DEF ReadInv, Entries, EntryOf
  <2>2. t.msg \in DOMAIN written
    BY TlvIs
  <2>3. Entry(t, g_big_data_map[k], after, shown)
    BY <1>5, <2>1, <2>2 DEF Entry
  <2> QED BY <1>3, <2>1, <2>3 DEF EntryOf
<1> QED BY <1>3, <1>4, <1>6, <1>7 DEF ReadInv, Entries

LEMMA TickKeepsRead ==
  ASSUME SentInv, ReadInv, Tick
  PROVE  ReadInv'
<1> DEFINE after == network'
           older == [k \in DOMAIN g_big_data_map |->
                       [g_big_data_map[k] EXCEPT !.left = Sooner(@)]]
<1>1. /\ after = network' /\ DOMAIN after = DOMAIN network
      /\ \A t \in DOMAIN network : after[t].copies = network[t].copies
  BY TickKeepsSent
<1>2. g_big_data_map' = older /\ UNCHANGED <<written, shown, dropped>>
  BY DEF Tick
<1> HIDE DEF after
<1>3. ASSUME NEW k \in DOMAIN g_big_data_map
      PROVE  EntryOf(k, older[k], after, shown)
  <2>1. PICK t \in DOMAIN network :
          t.type = 220 /\ Key(t) = k /\ Entry(t, g_big_data_map[k], network, shown)
    BY DEF ReadInv, Entries, EntryOf
  <2>2. t.msg \notin shown
    BY <2>1 DEF Entry
  <2>3. Entry(t, g_big_data_map[k], after, shown)
    BY <1>1, <2>1, <2>2, EntryStands
  <2> DEFINE big == g_big_data_map[k]
             Buffers == [Positions(t.size) -> {0, t.msg}]
             Size == t.size
             Left == 0..FIVE_MIN_SEC
             soon == Sooner(big.left)
  <2>4. big \in [contentlen: {Size}, read_nb: Nat, left: Left, content: Buffers]
    BY <2>3 DEF Entry
  <2>5. older[k] = [big EXCEPT !.left = soon]
    OBVIOUS
  <2>6. soon \in Left
    BY <2>4, SoonerType, BigDataAssumption
  <2> HIDE DEF big, Buffers, Size, Left, soon, older
  <2>7. /\ older[k] \in [contentlen: {Size}, read_nb: Nat, left: Left, content: Buffers]
        /\ older[k].content = big.content /\ older[k].read_nb = big.read_nb
    BY <2>4, <2>5, <2>6
  <2>8. ReadOf(older[k]) = ReadOf(big)
    BY <2>7 DEF ReadOf
  <2>9. Entry(t, older[k], after, shown)
    BY <2>3, <2>7, <2>8 DEF Entry, big, Buffers, Size, Left
  <2> QED BY <1>1, <2>1, <2>9 DEF EntryOf
<1>4. Entries(older, after, shown) /\ Unseen(after, shown)
  BY <1>1, <1>3 DEF Entries, ReadInv, Unseen
<1> QED BY <1>1, <1>2, <1>4 DEF ReadInv

LEMMA ReadInit == Init => ReadInv
<1> SUFFICES ASSUME Init PROVE ReadInv
  OBVIOUS
<1>1. /\ DOMAIN network = {} /\ DOMAIN g_big_data_map = {}
      /\ shown = {} /\ dropped = {}
  BY DEF Init
<1> QED BY <1>1 DEF ReadInv, Entries, Unseen

LEMMA ReadStep ==
  ASSUME Copies <= 1, SentInv, ReadInv, [Next]_vars
  PROVE  ReadInv' /\ (UNCHANGED vars \/ (ShowsWhole /\ ShowsOnce))
<1>1. ASSUME NEW id \in Id, NEW len \in MsgLength, AddMyMessage(id, len)
      PROVE  ReadInv' /\ ShowsWhole /\ ShowsOnce
  <2> DEFINE m == Cardinality(DOMAIN written) + 1
             new == {ShortTlv(id, m, len)}
  <2>1. /\ Writes(len) /\ Flood(new) /\ displayed' = {}
        /\ UNCHANGED <<g_big_data_map, shown, dropped>>
    BY <1>1 DEF AddMyMessage
  <2>2. \A t \in new : t.msg = m
    BY DEF ShortTlv
  <2> QED BY <2>1, <2>2, WritingKeepsRead DEF ShowsWhole, ShowsOnce
<1>2. ASSUME NEW id \in Id, NEW len \in MsgLength, SendBigData(id, len)
      PROVE  ReadInv' /\ ShowsWhole /\ ShowsOnce
  <2> DEFINE m == Cardinality(DOMAIN written) + 1
             new == {BigTlv(id, m, len, i) : i \in 0..(Fragments(len) - 1)}
  <2>1. /\ Writes(len) /\ Flood(new) /\ displayed' = {}
        /\ UNCHANGED <<g_big_data_map, shown, dropped>>
    BY <1>2 DEF SendBigData
  <2>2. \A t \in new : t.msg = m
    BY DEF BigTlv
  <2> QED BY <2>1, <2>2, WritingKeepsRead DEF ShowsWhole, ShowsOnce
<1>3. ASSUME NEW tlv \in DOMAIN network, Traitment(tlv)
      PROVE  ReadInv' /\ ShowsWhole /\ ShowsOnce
  BY <1>3, ShortIsShown, FragmentIsRead DEF Traitment
<1>4. CASE Tick
  <2>1. displayed' = {}
    BY <1>4 DEF Tick
  <2> QED BY <1>4, <2>1, TickKeepsRead DEF ShowsWhole, ShowsOnce
<1>5. CASE UNCHANGED vars
  BY <1>5 DEF vars, ReadInv
<1> QED BY <1>1, <1>2, <1>3, <1>4, <1>5 DEF Next

\* When no copy of a TLV gets past the flooding, what a reader has of a
\* message is what was written of it, counted once (traitment_data, data.c).
THEOREM ReadIsSound ==
  ASSUME Copies <= 1
  PROVE  Spec => []ReadInv
<1>1. SentInv /\ SentInv' /\ ReadInv /\ [Next]_vars => ReadInv'
  BY ReadStep
<1> QED BY <1>1, ReadInit, SentIsSound, PTL DEF Spec

\* A fragment lies within its message, and no message has read more bytes
\* than it has.
THEOREM BigDataTypes ==
  ASSUME Copies <= 1
  PROVE  Spec => []TypeOK
<1>1. SentInv /\ ReadInv => TypeOK
  <2> SUFFICES ASSUME SentInv, ReadInv PROVE TypeOK
    OBVIOUS
  <2>1. /\ g_nonce \in [Id -> Nat] /\ DOMAIN written \subseteq Msg
        /\ \A m \in DOMAIN written : written[m] \in MsgLength
    <3>1. PICK n \in 0..MaxMsg : DOMAIN written = 1..n
      BY DEF SentInv, WrittenInv
    <3>2. 1..n \subseteq Msg
      BY BigDataAssumption DEF Msg
    <3> QED BY <3>1, <3>2 DEF SentInv, WrittenInv
  <2>2. ASSUME NEW t \in DOMAIN network
        PROVE  IsTlv(t) /\ network[t].copies \in 0..Copies /\ network[t].wait \in 0..Again
    BY DEF SentInv, NetworkInv, WellCut, DataTlv, IsTlv
  <2>3. ASSUME NEW k \in DOMAIN g_big_data_map PROVE IsBigData(g_big_data_map[k])
    <3>1. PICK t \in DOMAIN network : Entry(t, g_big_data_map[k], network, shown)
      BY DEF ReadInv, Entries, EntryOf
    <3> QED BY <3>1, EntryIs
  <2> QED BY <2>1, <2>2, <2>3 DEF TypeOK, ReadInv
<1> QED BY <1>1, SentIsSound, ReadIsSound, PTL

\* What is displayed is a message as it was written, all of it and of it
\* alone, in whatever order its fragments arrive (data.c:55).
THEOREM MessagesDisplayedWhole ==
  ASSUME Copies <= 1
  PROVE  Spec => DisplayedWhole
<1>1. SentInv /\ ReadInv /\ [Next]_vars => [ShowsWhole]_vars
  BY ReadStep
<1>2. [ShowsWhole]_vars =>
        [\A c \in displayed' :
           \E m \in DOMAIN written : c = [p \in 0..(written[m] - 1) |-> m]]_vars
  BY DEF ShowsWhole
<1> QED BY <1>1, <1>2, SentIsSound, ReadIsSound, PTL DEF Spec, DisplayedWhole

\* No message is displayed for the second time.
THEOREM MessagesDisplayedOnce ==
  ASSUME Copies <= 1
  PROVE  Spec => DisplayedOnce
<1>1. SentInv /\ ReadInv /\ [Next]_vars => [ShowsOnce]_vars
  BY ReadStep
<1>2. [ShowsOnce]_vars => [\A c \in displayed' : MsgsIn(c) \cap shown = {}]_vars
  BY DEF ShowsOnce
<1> QED BY <1>1, <1>2, SentIsSound, ReadIsSound, PTL DEF Spec, DisplayedOnce

=============================================================================
