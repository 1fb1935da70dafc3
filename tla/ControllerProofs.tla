-------------------------- MODULE ControllerProofs --------------------------
(***************************************************************************)
(* Theorems about the main loop of Controller and the reader below it, for *)
(* any set of datagrams, any Hello lengths and any number of rounds a      *)
(* network failure is tolerated.                                           *)
(***************************************************************************)
EXTENDS Controller, TLAPS

-----------------------------------------------------------------------------
(* Types of what is read *)

LEMMA DatagramTypes ==
  ASSUME ReaderTypeOK
  PROVE  /\ datagram.bytes \in Seq(Byte) /\ datagram.starts \in Seq(Nat)
         /\ Size \in Nat /\ Len(datagram.starts) \in Nat
         /\ read \in Seq(Nat) /\ Len(read) \in Nat /\ head \in Nat
<1>1. CASE datagram \in Datagram
  BY <1>1, ReaderAssumption DEF ReaderTypeOK, Size
<1>2. CASE datagram = Empty
  <2>1. datagram.bytes = <<>> /\ datagram.starts = <<>>
    BY <1>2 DEF Empty
  <2>2. <<>> \in Seq(Byte) /\ <<>> \in Seq(Nat) /\ Len(<<>>) = 0
    OBVIOUS
  <2>3. read \in Seq(Nat) /\ head \in Nat
    BY DEF ReaderTypeOK
  <2>4. Len(read) \in Nat
    BY <2>3
  <2> QED
    BY <2>1, <2>2, <2>3, <2>4 DEF Size
<1> QED
  BY <1>1, <1>2 DEF ReaderTypeOK

\* A byte is a natural number, past the end of the datagram too.
LEMMA ByteType ==
  ASSUME ReaderTypeOK, NEW i \in Nat
  PROVE  ByteAt(i) \in Nat
<1>1. /\ datagram.bytes \in Seq(Byte) /\ Size \in Nat
  BY DatagramTypes
<1>2. CASE i < Size
  <2>1. i + 1 \in 1..Len(datagram.bytes)
    BY <1>1, <1>2 DEF Size
  <2>2. datagram.bytes[i + 1] \in Byte
    BY <1>1, <2>1
  <2> QED
    BY <1>2, <2>2 DEF ByteAt, Byte
<1>3. CASE ~(i < Size)
  BY <1>3 DEF ByteAt
<1> QED
  BY <1>2, <1>3

LEMMA HeadTypes ==
  ASSUME ReaderTypeOK
  PROVE  head \in Nat /\ Type \in Nat /\ Length \in Nat /\ Size \in Nat
<1>1. head \in Nat /\ head + 1 \in Nat /\ Size \in Nat
  BY DatagramTypes
<1> QED
  BY <1>1, ByteType DEF Type, Length

\* The head only ever moves forward, whatever is refused: read_tlv ends.
LEMMA HeadAdvances ==
  ASSUME ReaderTypeOK, ReadTlv
  PROVE  head' \in Nat /\ head' > head
<1>1. head \in Nat /\ Type \in Nat /\ Length \in Nat /\ Size \in Nat
  BY HeadTypes
<1>2. CASE ReadUnknown
  BY <1>1, <1>2 DEF ReadUnknown
<1>3. CASE TlvCallPad1
  BY <1>1, <1>3 DEF TlvCallPad1, Treat
<1>4. CASE TlvOverflows
  BY <1>1, <1>4 DEF TlvOverflows, Treat, Reading
<1>5. CASE TlvFromStranger
  BY <1>1, <1>5 DEF TlvFromStranger, Treat
<1>6. CASE \/ TlvCallPadnWarning \/ TlvCallHello \/ TlvCallNeighbour
           \/ TlvCallData \/ TlvCallAck \/ TlvCallGoaway
  <2>1. head' = AfterTlv
    BY <1>6 DEF TlvCallPadnWarning, TlvCallHello, TlvCallNeighbour,
                TlvCallData, TlvCallAck, TlvCallGoaway, Treat
  <2> QED
    BY <1>1, <2>1 DEF AfterTlv
<1> QED
  BY <1>2, <1>3, <1>4, <1>5, <1>6 DEF ReadTlv, TlvFunctionCall

-----------------------------------------------------------------------------
(* The reader's steps keep the types *)

LEMMA ReaderTypeStep ==
  ASSUME ReaderTypeOK, [ReaderNext]_readerVars
  PROVE  ReaderTypeOK'
<1> USE DEF ReaderTypeOK
<1>0. <<>> \in Seq(Nat)
  OBVIOUS
<1>1. ASSUME NEW d \in Datagram, NEW local \in Local, ReadMsg(d, local)
      PROVE  ReaderTypeOK'
  BY <1>0, <1>1 DEF ReadMsg
<1>2. CASE ReadMsgReturns
  BY <1>0, <1>2 DEF ReadMsgReturns
<1>3. CASE ReadTlv
  <2>1. head' \in Nat
    BY <1>3, HeadAdvances
  <2>2. UNCHANGED <<datagram, g_ancillary>>
    BY <1>3 DEF ReadTlv, TlvFunctionCall, ReadUnknown, TlvCallPad1,
         TlvOverflows, TlvCallPadnWarning, TlvCallHello, TlvFromStranger,
         TlvCallNeighbour, TlvCallData, TlvCallAck, TlvCallGoaway, Treat
  <2>3. read' \in Seq(Nat)
    BY <1>3 DEF ReadTlv, TlvFunctionCall, ReadUnknown, TlvCallPad1,
         TlvOverflows, TlvCallPadnWarning, TlvCallHello, TlvFromStranger,
         TlvCallNeighbour, TlvCallData, TlvCallAck, TlvCallGoaway, Treat
  <2>4. refused' \in BOOLEAN
    BY <1>3 DEF ReadTlv, TlvFunctionCall, ReadUnknown, TlvCallPad1,
         TlvOverflows, TlvCallPadnWarning, TlvCallHello, TlvFromStranger,
         TlvCallNeighbour, TlvCallData, TlvCallAck, TlvCallGoaway
  <2>5. peer' \in Standing
    BY <1>3 DEF ReadTlv, TlvFunctionCall, ReadUnknown, TlvCallPad1,
         TlvOverflows, TlvCallPadnWarning, TlvCallHello, TlvFromStranger,
         TlvCallNeighbour, TlvCallData, TlvCallAck, TlvCallGoaway, Standing
  <2> QED
    BY <2>1, <2>2, <2>3, <2>4, <2>5
<1>4. CASE PeerAges
  BY <1>4 DEF PeerAges, Standing
<1>5. CASE IgnoreMsg
  BY <1>5 DEF IgnoreMsg, readerVars
<1>6. CASE UNCHANGED readerVars
  BY <1>6 DEF readerVars
<1> QED
  BY <1>1, <1>2, <1>3, <1>4, <1>5, <1>6 DEF ReaderNext

-----------------------------------------------------------------------------
(* Every TLV is treated *)

\* The start of the TLV after the n first ones.
Begins(n) == IF n < Len(datagram.starts) THEN datagram.starts[n + 1] ELSE Size

\* The strengthening: in a well-formed datagram the head stands where the
\* writer began the TLV that comes after those treated.
InStep ==
  WellFormed(datagram) /\ ~refused =>
    /\ Len(read) <= Len(datagram.starts)
    /\ \A i \in 1..Len(read) : read[i] = datagram.starts[i]
    /\ head = Begins(Len(read))

ReaderInv == ReaderTypeOK /\ InStep

\* A sequence is the function of its elements.
LEMMA SequenceIsFunction ==
  ASSUME NEW S, NEW s \in Seq(S)
  PROVE  s = [i \in 1..Len(s) |-> s[i]]
OBVIOUS

LEMMA EndsBefore ==
  ASSUME NEW i \in Nat, NEW len \in Nat, NEW size \in Nat, i + 2 + len <= size
  PROVE  ~(i + 1 + len >= size)
OBVIOUS

\* In step, a TLV still to be read is of a known type and ends where the next
\* one begins, within the datagram.
LEMMA NextTlv ==
  ASSUME ReaderInv, WellFormed(datagram), ~refused, Reading
  PROVE  /\ Len(read) < Len(datagram.starts)
         /\ head = datagram.starts[Len(read) + 1]
         /\ Type < NB_TLV
         /\ Type = 0 => head + 1 = Begins(Len(read) + 1)
         /\ Type # 0 => ~Overflows /\ AfterTlv = Begins(Len(read) + 1)
<1> DEFINE n == Len(read)
           s == datagram.starts[n + 1]
<1>1. /\ n \in Nat /\ Size \in Nat /\ Len(datagram.starts) \in Nat
      /\ datagram.bytes \in Seq(Byte) /\ datagram.starts \in Seq(Nat)
      /\ head \in Nat
  BY DatagramTypes DEF ReaderInv
<1>2. n < Len(datagram.starts) /\ head = s
  BY <1>1 DEF ReaderInv, InStep, Begins, Reading
<1>3. n + 1 \in DOMAIN datagram.starts
  BY <1>1, <1>2
<1>4. \A i \in DOMAIN datagram.starts :
        datagram.starts[i] \in Nat /\ datagram.starts[i] < Size
  BY <1>1 DEF WellFormed, Size
<1>5. /\ s < Size
      /\ datagram.bytes[s + 1] < NB_TLV
      /\ datagram.bytes[s + 1] # 0 => s + 1 < Size
      /\ TlvEnd(datagram.bytes, s) =
           IF n + 1 = Len(datagram.starts) THEN Size ELSE datagram.starts[n + 1 + 1]
  BY <1>3 DEF WellFormed, Size
<1>6. Type = datagram.bytes[s + 1]
  BY <1>2, <1>5 DEF Type, ByteAt
<1>7. TlvEnd(datagram.bytes, s) = Begins(n + 1)
  BY <1>1, <1>2, <1>5 DEF Begins
<1>8. Type = 0 => head + 1 = Begins(n + 1)
  BY <1>2, <1>6, <1>7 DEF TlvEnd
<1>9. ASSUME Type # 0
      PROVE  ~Overflows /\ AfterTlv = Begins(n + 1)
  <2>1. head + 1 < Size
    BY <1>2, <1>5, <1>6, <1>9
  <2>2. Length = datagram.bytes[s + 2] /\ Length \in Nat
    <3>1. (head + 1) + 1 = s + 2
      BY <1>1, <1>2
    <3>2. Length \in Nat
      BY HeadTypes DEF ReaderInv
    <3> QED
      BY <2>1, <3>1, <3>2 DEF Length, ByteAt
  <2>3. AfterTlv = Begins(n + 1)
    BY <1>2, <1>6, <1>7, <1>9, <2>2 DEF TlvEnd, AfterTlv
  <2>4. Begins(n + 1) <= Size
    <3>1. CASE n + 1 < Len(datagram.starts)
      BY <1>1, <1>4, <3>1 DEF Begins
    <3>2. CASE ~(n + 1 < Len(datagram.starts))
      BY <1>1, <3>2 DEF Begins
    <3> QED
      BY <3>1, <3>2
  <2>5. head + 2 + Length <= Size
    BY <2>3, <2>4 DEF AfterTlv
  <2>6. ~(head + 1 + Length >= Size)
    <3>1. head \in Nat /\ Size \in Nat /\ Length \in Nat
      BY <1>1, <2>2
    <3> QED
      BY <2>5, <3>1, EndsBefore
  <2> QED
    BY <2>3, <2>6 DEF Overflows
<1> QED
  BY <1>2, <1>5, <1>6, <1>8, <1>9

\* A TLV function that leaves the head on the next TLV keeps in step.
LEMMA TreatInStep ==
  ASSUME ReaderInv, Reading, NEW n, Treat(n),
         WellFormed(datagram) /\ ~refused => n = Begins(Len(read) + 1),
         refused' = refused
  PROVE  InStep'
<1> SUFFICES ASSUME WellFormed(datagram), ~refused
             PROVE  /\ Len(read') <= Len(datagram.starts)
                    /\ \A i \in 1..Len(read') : read'[i] = datagram.starts[i]
                    /\ head' = Begins(Len(read'))
  BY DEF InStep, Treat, Begins, Size
<1>1. /\ Len(read) < Len(datagram.starts)
      /\ head = datagram.starts[Len(read) + 1]
  BY NextTlv
<1>2. read \in Seq(Nat) /\ head \in Nat /\ Len(datagram.starts) \in Nat
  BY DatagramTypes DEF ReaderInv
<1>3. /\ read' = Append(read, head)
      /\ head' = Begins(Len(read) + 1)
  BY DEF Treat
<1>4. Len(read') = Len(read) + 1
  BY <1>2, <1>3
<1>5. \A i \in 1..Len(read') :
        read'[i] = IF i = Len(read) + 1 THEN head ELSE read[i]
  BY <1>2, <1>3
<1>6. \A i \in 1..Len(read) : read[i] = datagram.starts[i]
  BY DEF ReaderInv, InStep
<1> QED
  BY <1>1, <1>2, <1>3, <1>4, <1>5, <1>6

LEMMA ReaderStep ==
  ASSUME ReaderInv, [ReaderNext]_readerVars
  PROVE  ReaderInv'
<1>1. ReaderTypeOK'
  BY ReaderTypeStep DEF ReaderInv
<1>2. InStep'
  <2>1. ASSUME NEW d \in Datagram, NEW local \in Local, ReadMsg(d, local)
        PROVE  InStep'
    <3>1. head' = 0 /\ read' = <<>> /\ Len(read') = 0
      BY <2>1 DEF ReadMsg
    <3>2. WellFormed(datagram)' =>
            Len(datagram.starts)' \in Nat \ {0} /\ datagram'.starts[1] = 0
      BY <1>1, ReaderAssumption DEF WellFormed, ReaderTypeOK, Empty
    <3> QED
      BY <3>1, <3>2 DEF InStep, Begins
  <2>2. CASE ReadMsgReturns
    <3>1. ~WellFormed(datagram)'
      BY <2>2 DEF ReadMsgReturns, WellFormed, Empty
    <3> QED
      BY <3>1 DEF InStep
  <2>3. CASE ReadUnknown
    <3>1. ~(WellFormed(datagram) /\ ~refused)
      BY <2>3, NextTlv, HeadTypes DEF ReaderInv, ReadUnknown, NB_TLV
    <3> QED
      BY <2>3, <3>1 DEF ReadUnknown, InStep
  <2>4. CASE TlvFromStranger
    BY <2>4 DEF TlvFromStranger, InStep
  <2>5. CASE TlvCallPad1
    BY <2>5, NextTlv, TreatInStep DEF TlvCallPad1
  <2>6. CASE TlvOverflows
    <3>1. WellFormed(datagram) /\ ~refused => FALSE
      BY <2>6, NextTlv DEF TlvOverflows
    <3> QED
      BY <2>6, <3>1, TreatInStep DEF TlvOverflows
  <2>7. CASE \/ TlvCallPadnWarning \/ TlvCallHello \/ TlvCallNeighbour
             \/ TlvCallData \/ TlvCallAck \/ TlvCallGoaway
    <3>1. Reading /\ Treat(AfterTlv) /\ refused' = refused /\ Type # 0
      BY <2>7 DEF TlvCallPadnWarning, TlvCallHello, TlvCallNeighbour,
                  TlvCallData, TlvCallAck, TlvCallGoaway
    <3> QED
      BY <3>1, NextTlv, TreatInStep
  <2>8. CASE PeerAges
    BY <2>8 DEF PeerAges, ReaderInv, InStep, Begins, Size
  <2>9. CASE UNCHANGED readerVars
    BY <2>9 DEF readerVars, ReaderInv, InStep, Begins, Size
  <2> QED
    BY <2>1, <2>2, <2>3, <2>4, <2>5, <2>6, <2>7, <2>8, <2>9
       DEF ReaderNext, ReadTlv, TlvFunctionCall, IgnoreMsg
<1> QED
  BY <1>1, <1>2 DEF ReaderInv

LEMMA ReaderInvInit == ReaderInit => ReaderInv
<1> SUFFICES ASSUME ReaderInit PROVE ReaderInv
  OBVIOUS
<1>0. <<>> \in Seq(Nat)
  OBVIOUS
<1>1. ReaderTypeOK
  BY <1>0 DEF ReaderInit, ReaderTypeOK, Standing
<1>2. ~WellFormed(datagram)
  BY DEF ReaderInit, WellFormed, Empty
<1> QED
  BY <1>1, <1>2 DEF ReaderInv, InStep

LEMMA InStepTreats == ReaderInv => EveryTlvTreated
<1> SUFFICES ASSUME ReaderInv, WellFormed(datagram), ~refused
             PROVE  /\ Len(read) <= Len(datagram.starts)
                    /\ read = SubSeq(datagram.starts, 1, Len(read))
                    /\ ~Reading => read = datagram.starts
  BY DEF EveryTlvTreated
<1>1. /\ read \in Seq(Nat) /\ datagram.starts \in Seq(Nat)
      /\ Len(read) \in Nat /\ Len(datagram.starts) \in Nat /\ Size \in Nat
  BY DatagramTypes DEF ReaderInv
<1>2. /\ Len(read) <= Len(datagram.starts)
      /\ \A i \in 1..Len(read) : read[i] = datagram.starts[i]
      /\ head = Begins(Len(read))
  BY DEF ReaderInv, InStep
<1>3. read = SubSeq(datagram.starts, 1, Len(read))
  <2>1. SubSeq(datagram.starts, 1, Len(read)) =
          [i \in 1..Len(read) |-> datagram.starts[i]]
    BY <1>1
  <2>2. read = [i \in 1..Len(read) |-> read[i]]
    BY <1>1, SequenceIsFunction
  <2> QED
    BY <1>2, <2>1, <2>2
<1>4. ASSUME ~Reading
      PROVE  read = datagram.starts
  <2>1. ~(Len(read) < Len(datagram.starts))
    <3>1. SUFFICES ASSUME Len(read) < Len(datagram.starts) PROVE FALSE
      OBVIOUS
    <3>2. head = datagram.starts[Len(read) + 1]
      BY <1>2, <3>1 DEF Begins
    <3>3. Len(read) + 1 \in DOMAIN datagram.starts
      BY <1>1, <3>1
    <3>4. head < Size
      BY <3>2, <3>3 DEF WellFormed, Size
    <3> QED
      BY <1>4, <3>4 DEF Reading
  <2>2. Len(read) = Len(datagram.starts)
    BY <1>1, <1>2, <2>1
  <2>3. read = [i \in 1..Len(read) |-> read[i]]
    BY <1>1, SequenceIsFunction
  <2>4. datagram.starts = [i \in 1..Len(datagram.starts) |-> datagram.starts[i]]
    BY <1>1, SequenceIsFunction
  <2> QED
    BY <1>2, <2>2, <2>3, <2>4
<1> QED
  BY <1>2, <1>3, <1>4

-----------------------------------------------------------------------------
(* The main loop on top of the reader *)

\* A step of the loop is a step of the reader or leaves it alone.
LEMMA LoopStepsReader ==
  ASSUME [ControllerNext]_controllerVars
  PROVE  [ReaderNext]_readerVars
<1>1. CASE MainStep
  <2>1. CASE ReadDatagram \/ ReadOneTlv \/ ReadDone
    BY <2>1 DEF ReadDatagram, ReadOneTlv, ReadDone, ReaderNext
  <2>2. CASE ~(ReadDatagram \/ ReadOneTlv \/ ReadDone)
    BY <1>1, <2>2 DEF MainStep, LeaveLoop, Pselect, Input, ReadFails, Write,
                      TryReachNetwork, Problem, RoundEnds
  <2> QED
    BY <2>1, <2>2
<1>2. CASE SigInt \/ Meanwhile
  BY <1>2 DEF SigInt, Meanwhile
<1>3. CASE PeerAgesMeanwhile
  BY <1>3 DEF PeerAgesMeanwhile, ReaderNext
<1>4. CASE UNCHANGED controllerVars
  BY <1>4 DEF controllerVars
<1> QED
  BY <1>1, <1>2, <1>3, <1>4 DEF ControllerNext

\* The main loop drives the reader as read_msg and read_tlv are written:
\* every behaviour of the loop is one of the reader (controller.c, reader.c).
THEOREM LoopImplementsReader == ControllerSpec => ReaderSpec
<1>1. ControllerInit => ReaderInit
  BY DEF ControllerInit
<1>2. [ControllerNext]_controllerVars => [ReaderNext]_readerVars
  BY LoopStepsReader
<1> QED
  BY <1>1, <1>2, PTL DEF ControllerSpec, ReaderSpec

\* Every TLV of a well-formed datagram is treated, once and in order,
\* whatever the handlers answer (read_tlv, reader.c:345).
THEOREM LoopTreatsEveryTlv == ControllerSpec => []EveryTlvTreated
<1>1. ReaderInv /\ [ReaderNext]_readerVars => ReaderInv'
  BY ReaderStep
<1> QED
  BY <1>1, ReaderInvInit, InStepTreats, LoopImplementsReader, PTL DEF ReaderSpec

\* Whatever the bytes of a datagram, each turn of read_tlv's loop moves the
\* head forward, so that the loop ends.
THEOREM HeadOnlyAdvances ==
  ControllerSpec => [][ReadOneTlv => head' > head]_controllerVars
<1>1. ReaderInv /\ [ReaderNext]_readerVars => ReaderInv'
  BY ReaderStep
<1>2. ReaderInv => [ReadOneTlv => head' > head]_controllerVars
  BY HeadAdvances DEF ReaderInv, ReadOneTlv
<1> QED
  BY <1>1, <1>2, ReaderInvInit, LoopImplementsReader, PTL DEF ReaderSpec

-----------------------------------------------------------------------------
(* The network's retries *)

\* The types of the loop, and the strengthening: the count is the number of
\* rounds that failed one after the other.
LoopInv == ControllerTypeOK /\ count = failures

LEMMA LoopInvInit == ControllerInit => LoopInv
<1> SUFFICES ASSUME ControllerInit PROVE LoopInv
  OBVIOUS
<1>1. ReaderTypeOK
  BY ReaderInvInit DEF ControllerInit, ReaderInv
<1> QED
  BY <1>1, ControllerAssumption
     DEF ControllerInit, LoopInv, ControllerTypeOK, Place, Errno, Descriptor

LEMMA LoopInvStep ==
  ASSUME LoopInv, [ControllerNext]_controllerVars
  PROVE  LoopInv'
<1> USE DEF LoopInv, ControllerTypeOK
<1>0. ReaderTypeOK'
  BY LoopStepsReader, ReaderTypeStep
<1>1. CASE LeaveLoop
  BY <1>0, <1>1 DEF LeaveLoop, Place
<1>2. CASE Pselect
  BY <1>0, <1>2 DEF Pselect, Place, Errno
<1>3. CASE Input
  BY <1>0, <1>3 DEF Input, Place, Errno
<1>4. CASE ReadFails
  BY <1>0, <1>4 DEF ReadFails, Place, Errno, Noted, AfterRead
<1>5. CASE ReadDatagram
  BY <1>0, <1>5 DEF ReadDatagram, Place, Errno
<1>6. CASE ReadOneTlv
  BY <1>0, <1>6 DEF ReadOneTlv, Errno
<1>7. CASE ReadDone
  BY <1>0, <1>7 DEF ReadDone, Place, Errno, Noted, AfterRead
<1>8. CASE Write
  BY <1>0, <1>8 DEF Write, Place, Errno, Noted
<1>9. CASE TryReachNetwork
  BY <1>0, <1>9, ControllerAssumption
     DEF TryReachNetwork, NextRound, Place, Errno
<1>10. CASE Problem
  BY <1>0, <1>10 DEF Problem, Place
<1>11. CASE RoundEnds
  <2>1. g_floods' \in {"none", "waiting", "due"} /\ buffer' \in BOOLEAN
    <3>1. CASE tm = "zero" \/ nb_fd = "timeout"
      BY <1>11, <3>1, Zenon DEF RoundEnds, Flood
    <3>2. CASE ~(tm = "zero" \/ nb_fd = "timeout")
      BY <1>11, <3>2 DEF RoundEnds
    <3> QED
      BY <3>1, <3>2
  <2>2. /\ pc' = "select" /\ run' = run /\ errno' = errno /\ tmp' = "0"
        /\ nb_fd' = "ready" /\ ready' = {} /\ tm' = "later"
        /\ count' = 0 /\ failures' = 0
    BY <1>11 DEF RoundEnds, NextRound
  <2> QED
    BY <1>0, <2>1, <2>2, ControllerAssumption DEF Place, Errno
<1>12. CASE SigInt
  BY <1>0, <1>12 DEF SigInt
<1>13. CASE Meanwhile
  BY <1>0, <1>13 DEF Meanwhile
<1>14. CASE PeerAgesMeanwhile
  BY <1>0, <1>14 DEF PeerAgesMeanwhile, loopVars
<1>15. CASE UNCHANGED controllerVars
  BY <1>0, <1>15 DEF controllerVars, loopVars
<1> QED
  BY <1>1, <1>2, <1>3, <1>4, <1>5, <1>6, <1>7, <1>8, <1>9, <1>10, <1>11,
     <1>12, <1>13, <1>14, <1>15 DEF ControllerNext, MainStep

LEMMA LoopInvariant == ControllerSpec => []LoopInv
BY LoopInvInit, LoopInvStep, PTL DEF ControllerSpec

\* The loop's variables keep their types; no more rounds are counted than
\* MAX_NETWRK_LOOP (launch_program).
THEOREM LoopTypes == ControllerSpec => []ControllerTypeOK
<1>1. LoopInv => ControllerTypeOK
  BY DEF LoopInv
<1> QED
  BY <1>1, LoopInvariant, PTL

\* A network failure ends the program only after MAX_NETWRK_LOOP rounds in a
\* row that failed too (launch_program, controller.c:160).
THEOREM GivesUpAfterRetries == ControllerSpec => FailuresInARow
<1>1. LoopInv /\ [ControllerNext]_controllerVars =>
        [pc = "decide" /\ pc' = "stopped" /\ NetworkFailed =>
           failures = MAX_NETWRK_LOOP]_controllerVars
  <2> SUFFICES ASSUME LoopInv, ControllerNext, pc = "decide", pc' = "stopped",
                      NetworkFailed
               PROVE  failures = MAX_NETWRK_LOOP
    OBVIOUS
  <2>1. Problem
    BY DEF ControllerNext, MainStep, LeaveLoop, Pselect, Input, ReadFails,
           ReadDatagram, ReadOneTlv, ReadDone, Write, TryReachNetwork,
           RoundEnds, NextRound, SigInt, Meanwhile, PeerAgesMeanwhile, loopVars
  <2>2. ~(count < MAX_NETWRK_LOOP) /\ count \in 0..MAX_NETWRK_LOOP
    BY <2>1 DEF Problem, LoopInv, ControllerTypeOK
  <2>3. count = MAX_NETWRK_LOOP
    BY <2>2, ControllerAssumption
  <2> QED
    BY <2>3 DEF LoopInv
<1> QED
  BY <1>1, LoopInvariant, PTL DEF ControllerSpec, FailuresInARow

=============================================================================
