------------------------------- MODULE Reader -------------------------------
(***************************************************************************)
(* How a Floodus node reads one datagram (reader.c): the head of read_tlv  *)
(* over its bytes, one TLV function per step.  The handlers' own effects   *)
(* are the subject of Voisin and Inondation; what matters here is the      *)
(* standing of the peer the datagram comes from, which decides how some    *)
(* TLVs are skipped, and which the TLVs of one datagram change between     *)
(* them.  Datagrams are shorter than READBUF: a byte past the end is one   *)
(* of the zeros the buffer is initialised with.                            *)
(***************************************************************************)
EXTENDS Naturals, Sequences

CONSTANTS
  Datagram,      (* [bytes, starts]: what a peer may send, and where it    *)
                 (* began its TLVs                                         *)
  Local,         (* addresses this node can be reached at                  *)
  HelloShortLen, (* lengths of the two Hello TLVs: 8                       *)
  HelloLongLen   (* and 16                                                 *)

Byte == 0..255

ASSUME ReaderAssumption ==
  /\ \A d \in Datagram : d.bytes \in Seq(Byte) /\ d.starts \in Seq(Nat)
  /\ {HelloShortLen, HelloLongLen} \subseteq Nat
  /\ HelloShortLen # HelloLongLen

VARIABLES
  datagram,     (* the datagram being read                                 *)
  head,         (* head_reader, counted from 0 as in the code              *)
  peer,         (* what its source is to this node                         *)
  g_ancillary,  (* local address its datagrams come through, once known    *)
  read,         (* history: where TLV functions were called                *)
  refused       (* history: its source was not known at some TLV of it     *)

readerVars == <<datagram, head, peer, g_ancillary, read, refused>>

-----------------------------------------------------------------------------
NB_TLV == 8

Standing == {"stranger", "neighbour", "symmetric"}

Unknown == "unknown"  \* no entry in g_ancillary

Empty == [bytes |-> <<>>, starts |-> <<>>]

Size == Len(datagram.bytes)

ByteAt(i) == IF i < Size THEN datagram.bytes[i + 1] ELSE 0

Type   == ByteAt(head)
Length == ByteAt(head + 1)

\* The length goes past the end of the datagram.
Overflows == head + 1 + Length >= Size

ReaderInit ==
  /\ datagram = Empty
  /\ head = 0
  /\ peer = "stranger"
  /\ g_ancillary = Unknown
  /\ read = <<>>
  /\ refused = FALSE

-----------------------------------------------------------------------------
(* read_msg *)

Reading == head < Size

\* The first datagram of a peer settles the local address: later ones that
\* come through another are dropped, like those with a wrong header.
ReadMsg(d, local) ==
  /\ ~Reading
  /\ IF g_ancillary \in {Unknown, local}
       THEN /\ datagram' = d
            /\ g_ancillary' = local
       ELSE /\ datagram' = Empty
            /\ UNCHANGED g_ancillary
  /\ head' = 0
  /\ read' = <<>>
  /\ refused' = FALSE
  /\ UNCHANGED peer

IgnoreMsg ==
  /\ ~Reading
  /\ UNCHANGED readerVars

\* read_msg returns: its buffer and the head are gone.
ReadMsgReturns ==
  /\ ~Reading
  /\ datagram' = Empty
  /\ head' = 0
  /\ read' = <<>>
  /\ refused' = FALSE
  /\ UNCHANGED <<peer, g_ancillary>>

-----------------------------------------------------------------------------
(* read_tlv: one turn of the loop each                               *)

\* A function of the table is called and leaves the head at n.
Treat(n) ==
  /\ head' = n
  /\ read' = Append(read, head)
  /\ UNCHANGED <<datagram, g_ancillary>>

\* The usual way out: on the byte after the value.
AfterTlv == head + 2 + Length

\* Types the table does not have.  The length is added from the length byte
\* itself, so that the head ends one byte short.
ReadUnknown ==
  /\ Reading
  /\ Type >= NB_TLV
  /\ head' = IF head + 1 >= Size THEN head + 1 ELSE head + 1 + Length
  /\ UNCHANGED <<datagram, peer, g_ancillary, read, refused>>

TlvCallPad1 ==
  /\ Reading
  /\ Type = 0
  /\ Treat(head + 1)
  /\ UNCHANGED <<peer, refused>>

\* A length that goes past the end: every function gives up the datagram.
TlvOverflows ==
  /\ Reading
  /\ Type \in 1..7
  /\ Overflows
  /\ Treat(Size)
  /\ UNCHANGED <<peer, refused>>

\* PadN and Warning.
TlvCallPadnWarning ==
  /\ Reading
  /\ Type \in {1, 7}
  /\ ~Overflows
  /\ Treat(AfterTlv)
  /\ UNCHANGED <<peer, refused>>

\* A short Hello makes a stranger a neighbour, a long one that names this
\* node makes it symmetric unless the id is not the one on record.
TlvCallHello ==
  /\ Reading
  /\ Type = 2
  /\ ~Overflows
  /\ Treat(AfterTlv)
  /\ \/ /\ Length = HelloShortLen
        /\ peer' = IF peer = "stranger" THEN "neighbour" ELSE peer
     \/ /\ Length = HelloLongLen
        /\ peer' \in {peer, "symmetric"}
     \/ /\ Length \notin {HelloShortLen, HelloLongLen}
        /\ UNCHANGED peer
  /\ UNCHANGED refused

\* Neighbour and Data from a source that is not a neighbour: the length is
\* added from the length byte.
TlvFromStranger ==
  /\ Reading
  /\ Type \in {3, 4}
  /\ ~Overflows
  /\ peer = "stranger"
  /\ Treat(head + 1 + Length)
  /\ refused' = TRUE
  /\ UNCHANGED peer

\* A Neighbour TLV of the wrong size is skipped.
TlvCallNeighbour ==
  /\ Reading
  /\ Type = 3
  /\ ~Overflows
  /\ peer # "stranger"
  /\ Treat(AfterTlv)
  /\ UNCHANGED <<peer, refused>>

\* Mutant: a Data refused for its length is left at its length byte.
TlvCallData_Stays ==
  /\ Reading
  /\ Type = 4
  /\ ~Overflows
  /\ peer # "stranger"
  /\ Treat(IF peer = "symmetric" /\ Length = 0 THEN head + 1 ELSE AfterTlv)
  /\ UNCHANGED <<peer, refused>>

\* A Data is skipped when its source is not symmetric, refused when it is too
\* short, and otherwise read field by field: all three end after the value.
TlvCallData ==
  /\ Reading
  /\ Type = 4
  /\ ~Overflows
  /\ peer # "stranger"
  /\ Treat(AfterTlv)
  /\ UNCHANGED <<peer, refused>>

TlvCallAck ==
  /\ Reading
  /\ Type = 5
  /\ ~Overflows
  /\ Treat(AfterTlv)
  /\ UNCHANGED <<peer, refused>>

\* A GoAway without a code is refused; with one it may end the standing.
TlvCallGoaway ==
  /\ Reading
  /\ Type = 6
  /\ ~Overflows
  /\ Treat(AfterTlv)
  /\ peer' \in IF Length < 1 THEN {peer} ELSE {peer, "stranger"}
  /\ UNCHANGED refused

TlvFunctionCall ==
  \/ TlvCallPad1 \/ TlvOverflows \/ TlvCallPadnWarning \/ TlvCallHello
  \/ TlvFromStranger \/ TlvCallNeighbour \/ TlvCallData \/ TlvCallAck
  \/ TlvCallGoaway

ReadTlv == ReadUnknown \/ TlvFunctionCall

\* A long Hello, or every Hello, gets too old; a sender thread demotes.
PeerAges ==
  /\ \/ peer = "symmetric" /\ peer' \in {"neighbour", "stranger"}
     \/ peer = "neighbour" /\ peer' = "stranger"
  /\ UNCHANGED <<datagram, head, g_ancillary, read, refused>>

ReaderNext ==
  \/ \E d \in Datagram, local \in Local : ReadMsg(d, local)
  \/ IgnoreMsg
  \/ ReadMsgReturns
  \/ ReadTlv
  \/ PeerAges

ReaderSpec == ReaderInit /\ [][ReaderNext]_readerVars

-----------------------------------------------------------------------------
(* Correctness *)

\* Type invariant.
ReaderTypeOK ==
  /\ datagram \in Datagram \cup {Empty}
  /\ head \in Nat
  /\ peer \in Standing
  /\ g_ancillary \in Local \cup {Unknown}
  /\ read \in Seq(Nat)
  /\ refused \in BOOLEAN

\* What a peer's TLVs look like on the wire: the types this node knows, one
\* after the other, each ending where the next begins.
TlvEnd(bytes, s) ==
  IF bytes[s + 1] = 0 THEN s + 1 ELSE s + 2 + bytes[s + 2]

WellFormed(d) ==
  /\ d.starts # <<>>
  /\ d.starts[1] = 0
  /\ \A i \in DOMAIN d.starts :
       LET s == d.starts[i]
           next == IF i = Len(d.starts) THEN Len(d.bytes) ELSE d.starts[i + 1]
       IN  /\ s < Len(d.bytes)
           /\ d.bytes[s + 1] < NB_TLV
           /\ d.bytes[s + 1] # 0 => s + 1 < Len(d.bytes)
           /\ TlvEnd(d.bytes, s) = next

\* Every TLV of a well-formed datagram is treated, once and in the order it
\* was written, whether its handler accepts it or not, as long as no
\* Neighbour or Data in it was refused for want of a known source.
EveryTlvTreated ==
  WellFormed(datagram) /\ ~refused =>
    /\ Len(read) <= Len(datagram.starts)
    /\ read = SubSeq(datagram.starts, 1, Len(read))
    /\ ~Reading => read = datagram.starts

=============================================================================
