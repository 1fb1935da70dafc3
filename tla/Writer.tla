------------------------------- MODULE Writer -------------------------------
(***************************************************************************)
(* The write buffer of a node (writer.c): a list of nodes, each the TLVs   *)
(* waiting for one destination, filled by the three threads and emptied    *)
(* node by node by the main loop.  Every function runs under g_lock_buff   *)
(* from one end to the other, and is one step here.                        *)
(*                                                                         *)
(* A TLV is a length and a tag, its rank among all TLVs ever added, that   *)
(* tells two equal ones apart.                                             *)
(***************************************************************************)
EXTENDS Naturals, Sequences, FiniteSets, SequencesExt

CONSTANTS
  IpPort,       (* destinations                                            *)
  Length,       (* lengths of a TLV: 1 to 257 in the program               *)
  MAX_PER_TLV,  (* bytes a node may grow to: 2800                          *)
  Pmtu,         (* what get_pmtu may answer: 1000 when it cannot tell      *)
  MaxTlv        (* bound of the model: TLVs added                          *)

\* A TLV is shorter than any path MTU, so that the first packet of a node
\* carries one at least.
ASSUME WriterAssumption ==
  /\ Length \subseteq Nat \ {0}
  /\ MAX_PER_TLV \in Nat
  /\ Pmtu \subseteq Nat
  /\ \A len \in Length : len <= MAX_PER_TLV /\ \A pmtu \in Pmtu : len <= pmtu
  /\ MaxTlv \in Nat

VARIABLES
  g_write_buf,  (* list of buffer_node_t                                   *)
  added,        (* number of TLVs added so far                             *)
  packets,      (* what the last step handed to sendmsg with success       *)
  carried       (* history: tags of the TLVs some packet has carried       *)

vars == <<g_write_buf, added, packets, carried>>

-----------------------------------------------------------------------------
Tlv  == [tag: 1..MaxTlv, len: Length]
Node == [dest: IpPort, tlvs: Seq(Tlv) \ {<<>>}]

TotalLen(tlvs) == FoldLeft(LAMBDA sum, tlv : sum + tlv.len, 0, tlvs)

Tags(tlvs) == {tlvs[i].tag : i \in DOMAIN tlvs}

Waiting == UNION {Tags(g_write_buf[i].tlvs) : i \in DOMAIN g_write_buf}

\* Mutant: the limit itself is refused.
CanAddTlv_Strict(node, dest, tlv) ==
  /\ node.dest = dest
  /\ TotalLen(node.tlvs) + tlv.len < MAX_PER_TLV

CanAddTlv(node, dest, tlv) ==
  /\ node.dest = dest
  /\ TotalLen(node.tlvs) + tlv.len <= MAX_PER_TLV

\* The node add_tlv stops at: the first that can take the TLV.
Takes(i, dest, tlv) ==
  /\ CanAddTlv(g_write_buf[i], dest, tlv)
  /\ \A j \in 1..(i - 1) : ~CanAddTlv(g_write_buf[j], dest, tlv)

\* Mutant: the new node does not get the TLV it was made for.
AddNextNode_Empty(dest, tlv) ==
  Append(g_write_buf, [dest |-> dest, tlvs |-> <<>>])

\* Mutant: the new node is put in front of the list.
AddNextNode_Front(dest, tlv) ==
  <<[dest |-> dest, tlvs |-> <<tlv>>]>> \o g_write_buf

AddNextNode(dest, tlv) ==
  Append(g_write_buf, [dest |-> dest, tlvs |-> <<tlv>>])

\* The TLVs of the first packet: as many, from the first, as the path takes.
Fits(tlvs, pmtu) ==
  CHOOSE n \in 0..Len(tlvs) :
    /\ TotalLen(SubSeq(tlvs, 1, n)) <= pmtu
    /\ n < Len(tlvs) => TotalLen(SubSeq(tlvs, 1, n + 1)) > pmtu

First(tlvs, pmtu) == SubSeq(tlvs, 1, Fits(tlvs, pmtu))

\* Mutant: the second packet starts after the first TLV that did not fit.
Second_Skips(tlvs, pmtu) == SubSeq(tlvs, Fits(tlvs, pmtu) + 2, Len(tlvs))

\* The second packet, whatever its length: it starts with the last TLV of
\* the first one (tlvs + ind - 1).
Second(tlvs, pmtu) == SubSeq(tlvs, Fits(tlvs, pmtu), Len(tlvs))

InTwo(tlvs, pmtu) == Fits(tlvs, pmtu) < Len(tlvs)

-----------------------------------------------------------------------------
Init ==
  /\ g_write_buf = <<>>
  /\ added = 0
  /\ packets = <<>>
  /\ carried = {}

\* complete_node_tlv on the first node with room, add_next_node at the end of
\* the list when there is none.
AddTlv(dest, len) ==
  /\ added < MaxTlv
  /\ LET tlv == [tag |-> added + 1, len |-> len]
     IN  \/ \E i \in DOMAIN g_write_buf :
              /\ Takes(i, dest, tlv)
              /\ g_write_buf' = [g_write_buf EXCEPT ![i].tlvs = Append(@, tlv)]
         \/ /\ \A i \in DOMAIN g_write_buf : ~CanAddTlv(g_write_buf[i], dest, tlv)
            /\ g_write_buf' = AddNextNode(dest, tlv)
  /\ added' = added + 1
  /\ packets' = <<>>
  /\ UNCHANGED carried

\* The packets of a step, whose TLVs have been carried from now on.
Transmit(sent) ==
  /\ packets' = sent
  /\ carried' = carried \cup UNION {Tags(sent[i]) : i \in DOMAIN sent}
  /\ UNCHANGED added

\* sendmsg refuses the first packet: the node stays.
SendFails ==
  /\ g_write_buf # <<>>
  /\ Transmit(<<>>)
  /\ UNCHANGED g_write_buf

\* It takes the first and refuses the second: the whole node stays.
SendHalf(pmtu) ==
  /\ g_write_buf # <<>>
  /\ InTwo(Head(g_write_buf).tlvs, pmtu)
  /\ Transmit(<<First(Head(g_write_buf).tlvs, pmtu)>>)
  /\ UNCHANGED g_write_buf

\* Mutant: the node stays, as after a failure.
SendNode_Keeps(pmtu) ==
  /\ g_write_buf # <<>>
  /\ Transmit(<<First(Head(g_write_buf).tlvs, pmtu)>>)
  /\ UNCHANGED g_write_buf

\* All is sent, the node is freed.
SendNode(pmtu) ==
  /\ g_write_buf # <<>>
  /\ LET tlvs == Head(g_write_buf).tlvs
     IN  Transmit(IF InTwo(tlvs, pmtu)
                    THEN <<First(tlvs, pmtu), Second(tlvs, pmtu)>>
                    ELSE <<tlvs>>)
  /\ g_write_buf' = Tail(g_write_buf)

SendBufferTlv == SendFails \/ \E pmtu \in Pmtu : SendHalf(pmtu) \/ SendNode(pmtu)

Next ==
  \/ \E dest \in IpPort, len \in Length : AddTlv(dest, len)
  \/ SendBufferTlv

\* The main loop asks for a writable socket as long as the buffer is not
\* empty; a network that refuses packets for ever ends the program, so some
\* attempt succeeds.
Fairness == WF_vars(\E pmtu \in Pmtu : SendNode(pmtu))

Spec == Init /\ [][Next]_vars /\ Fairness

-----------------------------------------------------------------------------
(* Correctness *)

\* Type invariant: no node is empty, and a TLV is in one place.
TypeOK ==
  /\ g_write_buf \in Seq(Node)
  /\ added \in 0..MaxTlv
  /\ packets \in Seq(Seq(Tlv))
  /\ carried \subseteq 1..added

\* A destination has a second node only for want of room in the first: none of
\* the TLVs of a later node would fit in an earlier one.
SplitForWantOfRoom ==
  \A i, j \in DOMAIN g_write_buf :
    i < j /\ g_write_buf[i].dest = g_write_buf[j].dest =>
      \A tlv \in Range(g_write_buf[j].tlvs) :
        TotalLen(g_write_buf[i].tlvs) + tlv.len > MAX_PER_TLV

\* TLVs are sent node by node, in the order of each: place <<i, k>> is sent
\* before place <<j, l>>.
SentBefore(i, k, j, l) == i < j \/ (i = j /\ k < l)

\* First fit may let a TLV overtake another for the same destination, but
\* only a shorter one: equal ones leave in the order they were added.
OvertakenByShorter ==
  \A i, j \in DOMAIN g_write_buf :
    g_write_buf[i].dest = g_write_buf[j].dest =>
      \A k \in DOMAIN g_write_buf[i].tlvs, l \in DOMAIN g_write_buf[j].tlvs :
        LET first == g_write_buf[i].tlvs[k]
            later == g_write_buf[j].tlvs[l]
        IN  SentBefore(i, k, j, l) /\ later.tag < first.tag =>
              first.len < later.len

\* Whatever sendmsg refuses, no TLV is lost: one that is not waiting any more
\* has been carried by a packet (send_buffer_tlv frees a node last).
NothingDropped == 1..added \subseteq Waiting \cup carried

\* Every TLV is sent in the end: neither a refused packet nor the nodes of
\* other destinations hold it for ever.
EveryTlvLeaves == \A tag \in 1..MaxTlv : tag \in Waiting ~> tag \notin Waiting

=============================================================================
