------------------------------ MODULE BigData -------------------------------
(***************************************************************************)
(* Long messages (data.c): the writer cuts them into Data TLVs of type     *)
(* 220, each flooded with a nonce of its own, and the reader puts them     *)
(* together in g_big_data_map.                                             *)
(*                                                                         *)
(* One node reads, the others write.  The flooding between them delivers   *)
(* TLVs in any order and may never deliver one; it recognises a copy of a  *)
(* TLV for a while only (Inondation, NotShownTwiceWithin), after which the *)
(* copy reaches traitment_data as if it were new.                          *)
(*                                                                         *)
(* A byte of a message is represented by the rank of the message among all *)
(* those written, 0 being the byte the buffer is initialised with.         *)
(***************************************************************************)
EXTENDS Naturals, FiniteSets

CONSTANTS
  Id,            (* nodes that write                                       *)
  MsgLength,     (* lengths of the messages written                        *)
  MAX_SZ,        (* longest message sent in one Data of type 0: 242        *)
  MAX_SZ_220,    (* bytes of a message a Data of type 220 carries: 233     *)
  FIVE_MIN_SEC,  (* seconds an incomplete message is kept: 300             *)
  Again,         (* seconds during which a copy is recognised: 127         *)
  Copies,        (* times the network delivers a TLV at most               *)
  MaxMsg         (* bound of the model: messages written                   *)

ASSUME BigDataAssumption ==
  /\ MsgLength \subseteq Nat \ {0}
  /\ MAX_SZ \in Nat /\ MAX_SZ_220 \in Nat \ {0} /\ MAX_SZ_220 <= MAX_SZ
  /\ FIVE_MIN_SEC \in Nat /\ Again \in Nat /\ Copies \in Nat /\ MaxMsg \in Nat

VARIABLES
  g_nonce,         (* writer -> nonce of the last Data it wrote            *)
  written,         (* lengths of the messages written so far, in order     *)
  network,         (* Data TLV -> copies left and seconds before the next  *)
  g_big_data_map,  (* key -> big_data_t                                    *)
  displayed,       (* contents the last step displayed                     *)
  shown,           (* history: messages displayed so far                   *)
  dropped          (* history: messages whose time ran out                 *)

vars == <<g_nonce, written, network, g_big_data_map, displayed, shown, dropped>>

-----------------------------------------------------------------------------
Msg == 1..MaxMsg

\* A message of len bytes in fragments, the last one possibly shorter.
Fragments(len) == (len + MAX_SZ_220 - 1) \div MAX_SZ_220

\* Key of a long message: its writer and its writer's nonce at the time.
Key(tlv) == [id |-> tlv.id, nonce |-> tlv.nonce_msg]

\* Mutant: the last fragment is as long as the others.
FragmentLen_Full(len, i) == MAX_SZ_220

FragmentLen(len, i) ==
  IF len - i * MAX_SZ_220 < MAX_SZ_220 THEN len - i * MAX_SZ_220 ELSE MAX_SZ_220

\* The Data TLV of type 0 and the i-th of type 220; m is the message.
ShortTlv(id, m, len) ==
  [id |-> id, nonce |-> g_nonce[id] + 1, type |-> 0,
   nonce_msg |-> 0, size |-> len, ind |-> 0, len |-> len, msg |-> m]

BigTlv(id, m, len, i) ==
  [id |-> id, nonce |-> g_nonce[id] + 1 + i, type |-> 220,
   nonce_msg |-> g_nonce[id], size |-> len, ind |-> i * MAX_SZ_220,
   len |-> FragmentLen(len, i), msg |-> m]

\* big_data_t, and what get_map finds or add_new_big_data inserts.
NewBigData(tlv) ==
  [contentlen |-> tlv.size, read_nb |-> 0, left |-> FIVE_MIN_SEC,
   content |-> [p \in 0..(tlv.size - 1) |-> 0]]

BigData(tlv) ==
  IF Key(tlv) \in DOMAIN g_big_data_map THEN g_big_data_map[Key(tlv)]
                                        ELSE NewBigData(tlv)

\* Mutant: every fragment is copied at the start of the buffer.
Filled_AtZero(big, tlv) ==
  IF big.contentlen # tlv.size \/ big.contentlen < tlv.len + tlv.ind THEN big
  ELSE [big EXCEPT !.read_nb = @ + tlv.len,
                   !.content = [p \in DOMAIN @ |->
                      IF p < tlv.len THEN tlv.msg ELSE @[p]]]

\* The fragment is copied at its index and counted, whether or not it was
\* there already, unless it does not match the message on record.
Filled(big, tlv) ==
  IF big.contentlen # tlv.size \/ big.contentlen < tlv.len + tlv.ind THEN big
  ELSE [big EXCEPT !.read_nb = @ + tlv.len,
                   !.content = [p \in DOMAIN @ |->
                      IF p \in tlv.ind..(tlv.ind + tlv.len - 1)
                        THEN tlv.msg ELSE @[p]]]

\* clear_big_data: what is complete is displayed and goes, what is too old
\* goes.
Complete(map) == {k \in DOMAIN map : map[k].read_nb = map[k].contentlen}
TooOld(map)   == {k \in DOMAIN map : map[k].left = 0}

MsgsIn(content) == {content[p] : p \in DOMAIN content} \ {0}

-----------------------------------------------------------------------------
Init ==
  /\ g_nonce = [id \in Id |-> 0]
  /\ written = [m \in {} |-> 0]
  /\ network = [t \in {} |-> 0]
  /\ g_big_data_map = [k \in {} |-> 0]
  /\ displayed = {}
  /\ shown = {}
  /\ dropped = {}

Flood(tlvs) ==
  network' = [t \in DOMAIN network \cup tlvs |->
                IF t \in tlvs THEN [copies |-> Copies, wait |-> 0]
                              ELSE network[t]]

Writes(len) ==
  /\ Cardinality(DOMAIN written) < MaxMsg
  /\ written' = [m \in 1..(Cardinality(DOMAIN written) + 1) |->
                   IF m \in DOMAIN written THEN written[m] ELSE len]

\* A short message: the nonce is incremented first.
AddMyMessage(id, len) ==
  /\ len <= MAX_SZ
  /\ Writes(len)
  /\ Flood({ShortTlv(id, Cardinality(DOMAIN written) + 1, len)})
  /\ g_nonce' = [g_nonce EXCEPT ![id] = @ + 1]
  /\ displayed' = {}
  /\ UNCHANGED <<g_big_data_map, shown, dropped>>

\* Mutant: the nonce is not advanced past the last fragment.
SendBigData_Last(id, len) ==
  /\ len > MAX_SZ
  /\ Writes(len)
  /\ Flood({BigTlv(id, Cardinality(DOMAIN written) + 1, len, i) :
              i \in 0..(Fragments(len) - 1)})
  /\ g_nonce' = [g_nonce EXCEPT ![id] = @ + 1]
  /\ displayed' = {}
  /\ UNCHANGED <<g_big_data_map, shown, dropped>>

\* A long message: the fragments take the nonces after the message's own, and
\* g_nonce ends one past the last of them.
SendBigData(id, len) ==
  /\ len > MAX_SZ
  /\ Writes(len)
  /\ Flood({BigTlv(id, Cardinality(DOMAIN written) + 1, len, i) :
              i \in 0..(Fragments(len) - 1)})
  /\ g_nonce' = [g_nonce EXCEPT ![id] = @ + Fragments(len) + 1]
  /\ displayed' = {}
  /\ UNCHANGED <<g_big_data_map, shown, dropped>>

Deliver(tlv) ==
  /\ network[tlv].copies > 0
  /\ network[tlv].wait = 0
  /\ network' = [network EXCEPT ![tlv].copies = @ - 1, ![tlv].wait = Again]
  /\ UNCHANGED <<g_nonce, written>>

\* Mutant: nothing is removed from the map once displayed.
ClearBigData_Keeps(map, now) ==
  /\ displayed' = now \cup {map[k].content : k \in Complete(map)}
  /\ shown' = shown \cup UNION {MsgsIn(c) : c \in displayed'}
  /\ dropped' = dropped \cup
       UNION {MsgsIn(map[k].content) : k \in TooOld(map) \ Complete(map)}
  /\ g_big_data_map' = [k \in DOMAIN map \ TooOld(map) |-> map[k]]

\* Mutant: the test of the age comes first.
ClearBigData_OldFirst(map, now) ==
  /\ displayed' = now \cup {map[k].content : k \in Complete(map) \ TooOld(map)}
  /\ shown' = shown \cup UNION {MsgsIn(c) : c \in displayed'}
  /\ dropped' = dropped \cup
       UNION {MsgsIn(map[k].content) : k \in TooOld(map) \ Complete(map)}
  /\ g_big_data_map' =
       [k \in DOMAIN map \ (Complete(map) \cup TooOld(map)) |-> map[k]]

\* The map after a Data has been treated, and what has been displayed.
ClearBigData(map, now) ==
  /\ displayed' = now \cup {map[k].content : k \in Complete(map)}
  /\ shown' = shown \cup UNION {MsgsIn(c) : c \in displayed'}
  /\ dropped' = dropped \cup
       UNION {MsgsIn(map[k].content) : k \in TooOld(map) \ Complete(map)}
  /\ g_big_data_map' =
       [k \in DOMAIN map \ (Complete(map) \cup TooOld(map)) |-> map[k]]

\* traitment_data for type 0: displayed at once.
Traitment0(tlv) ==
  /\ tlv.type = 0
  /\ Deliver(tlv)
  /\ ClearBigData(g_big_data_map, {[p \in 0..(tlv.size - 1) |-> tlv.msg]})

\* traitment_data for type 220.
Traitment220(tlv) ==
  /\ tlv.type = 220
  /\ Deliver(tlv)
  /\ ClearBigData(
       [k \in DOMAIN g_big_data_map \cup {Key(tlv)} |->
          IF k = Key(tlv) THEN Filled(BigData(tlv), tlv) ELSE g_big_data_map[k]],
       {})

Traitment(tlv) == Traitment0(tlv) \/ Traitment220(tlv)

Sooner(n) == IF n = 0 THEN 0 ELSE n - 1

\* A second passes.
Tick ==
  /\ network' = [t \in DOMAIN network |->
                   [network[t] EXCEPT !.wait = Sooner(@)]]
  /\ g_big_data_map' = [k \in DOMAIN g_big_data_map |->
                          [g_big_data_map[k] EXCEPT !.left = Sooner(@)]]
  /\ displayed' = {}
  /\ UNCHANGED <<g_nonce, written, shown, dropped>>

Next ==
  \/ \E id \in Id, len \in MsgLength : AddMyMessage(id, len) \/ SendBigData(id, len)
  \/ \E tlv \in DOMAIN network : Traitment(tlv)
  \/ Tick

\* Every TLV gets through: what reliable flooding is for.
Fairness ==
  \A m \in Msg, ind \in UNION {0..len : len \in MsgLength} :
    WF_vars(\E tlv \in DOMAIN network :
              tlv.msg = m /\ tlv.ind = ind /\ Traitment(tlv))

Spec == Init /\ [][Next]_vars /\ Fairness

-----------------------------------------------------------------------------
(* Correctness *)

IsTlv(t) ==
  /\ t.id \in Id /\ t.nonce \in Nat /\ t.nonce_msg \in Nat /\ t.type \in {0, 220}
  /\ t.msg \in DOMAIN written /\ t.size = written[t.msg]
  /\ t.ind \in Nat /\ t.len \in Nat /\ t.ind + t.len <= t.size

IsBigData(big) ==
  /\ big.read_nb \in 0..big.contentlen
  /\ big.left \in 0..FIVE_MIN_SEC
  /\ big.content \in [0..(big.contentlen - 1) -> 0..MaxMsg]

\* Type invariant: every fragment lies within its message, and no message has
\* read more bytes than it has.
TypeOK ==
  /\ g_nonce \in [Id -> Nat]
  /\ DOMAIN written \subseteq Msg /\ \A m \in DOMAIN written : written[m] \in MsgLength
  /\ \A t \in DOMAIN network : IsTlv(t) /\ network[t].copies \in 0..Copies
                                        /\ network[t].wait \in 0..Again
  /\ \A k \in DOMAIN g_big_data_map : IsBigData(g_big_data_map[k])
  /\ shown \cup dropped \subseteq DOMAIN written

\* A writer never uses a nonce twice, whether for short messages or for the
\* fragments of long ones, nor a nonce_msg for two long messages: the
\* flooding and the readers tell TLVs and messages apart by them.
NoncesDiffer ==
  \A t, u \in DOMAIN network :
    t.id = u.id =>
      /\ t.nonce = u.nonce => t = u
      /\ t.type = 220 /\ u.type = 220 /\ t.nonce_msg = u.nonce_msg =>
           t.msg = u.msg

\* What is displayed is a message as it was written, all of it and of it
\* alone: "Si on a termine de remplir un big_data, on l'affiche" (data.c:55).
DisplayedWhole ==
  [][ \A c \in displayed' :
        \E m \in DOMAIN written : c = [p \in 0..(written[m] - 1) |-> m] ]_vars

\* No message is displayed twice.
DisplayedOnce ==
  [][ \A c \in displayed' : MsgsIn(c) \cap shown = {} ]_vars

\* A message all of whose TLVs get through is displayed, unless it took more
\* than FIVE_MIN_SEC.
EveryMessageSettled ==
  \A m \in Msg : m \in DOMAIN written ~> m \in shown \cup dropped

=============================================================================
