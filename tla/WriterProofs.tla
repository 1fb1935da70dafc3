---------------------------- MODULE WriterProofs ----------------------------
(***************************************************************************)
(* Proofs about the write buffer: the TLVs of a destination are grouped    *)
(* and ordered as they should be, and none is dropped, for any lengths,    *)
(* size of a node, path MTUs and number of TLVs.                           *)
(***************************************************************************)
EXTENDS Writer, Arithmetic, SequenceTheorems, TLAPS

-----------------------------------------------------------------------------
(* The length of a list of TLVs *)

\* What a list of TLVs is made of.
LEMMA TlvAt ==
  ASSUME NEW tlvs \in Seq(Tlv), NEW i \in 1..Len(tlvs)
  PROVE  /\ tlvs[i] \in Tlv
         /\ tlvs[i].tag \in 1..MaxTlv
         /\ tlvs[i].len \in Nat /\ tlvs[i].len \in Length
<1>1. tlvs[i] \in Tlv
  BY ElementOfSeq
<1>2. tlvs[i].tag \in 1..MaxTlv /\ tlvs[i].len \in Length
  BY <1>1 DEF Tlv
<1> QED BY <1>1, <1>2, WriterAssumption

\* The sums of the first TLVs.
IsSum(f, tlvs) ==
  /\ f \in [0..Len(tlvs) -> Nat]
  /\ f[0] = 0
  /\ \A n \in 1..Len(tlvs) : f[n] = f[n - 1] + tlvs[n].len

\* The function FoldLeft is defined by, on the first n elements.
IsFold(g, tlvs, n) ==
  g = [s \in SUBSET (1..n) |->
         IF s = {} THEN 0 ELSE g[s \ {Max(s)}] + tlvs[Max(s)].len]

LEMMA MaxIs ==
  ASSUME NEW n \in Nat, NEW s \in SUBSET (1..n), n \in s
  PROVE  Max(s) = n
<1>1. \A y \in s : n >= y
  OBVIOUS
<1>2. \A x \in s : (\A y \in s : x >= y) <=> x = n
  <2>1. TAKE x \in s
  <2>2. x \in Nat /\ x <= n
    OBVIOUS
  <2> QED BY <1>1, <2>2
<1> DEFINE P(x) == \A y \in s : x >= y
<1>3. \A x \in s : P(x) <=> x = n
  BY <1>2
<1> HIDE DEF P
<1>4. (CHOOSE x \in s : P(x)) = n
  BY <1>3
<1> QED BY <1>4 DEF Max, P

LEMMA FoldExists ==
  ASSUME NEW tlvs, NEW m \in Nat
  PROVE  \E g : IsFold(g, tlvs, m)
<1> DEFINE S == {n \in Nat : \E g : IsFold(g, tlvs, n)}
<1>1. 0 \in S
  <2> DEFINE g == [s \in SUBSET (1..0) |-> 0]
  <2>1. SUBSET (1..0) = {{}}
    OBVIOUS
  <2>2. IsFold(g, tlvs, 0)
    BY <2>1 DEF IsFold
  <2> QED BY <2>2
<1>2. ASSUME NEW n \in 0..(m - 1), n \in S PROVE n + 1 \in S
  <2>1. PICK g : IsFold(g, tlvs, n)
    BY <1>2
  <2> DEFINE h == [s \in SUBSET (1..(n + 1)) |->
                     IF n + 1 \in s THEN g[s \ {n + 1}] + tlvs[n + 1].len
                                    ELSE g[s]]
  <2>2. ASSUME NEW s \in SUBSET (1..(n + 1))
        PROVE  h[s] = IF s = {} THEN 0 ELSE h[s \ {Max(s)}] + tlvs[Max(s)].len
    <3>1. CASE n + 1 \in s
      <4>1. Max(s) = n + 1
        BY <3>1, MaxIs
      <4>2. h[s \ {n + 1}] = g[s \ {n + 1}]
        OBVIOUS
      <4> QED BY <3>1, <4>1, <4>2
    <3>2. CASE n + 1 \notin s
      <4>1. s \in SUBSET (1..n)
        BY <3>2
      <4>2. h[s] = g[s]
        BY <3>2
      <4>3. g[s] = IF s = {} THEN 0 ELSE g[s \ {Max(s)}] + tlvs[Max(s)].len
        BY <2>1, <4>1, Zenon DEF IsFold
      <4>4. h[s \ {Max(s)}] = g[s \ {Max(s)}]
        BY <3>2
      <4> QED BY <4>2, <4>3, <4>4
    <3> QED BY <3>1, <3>2
  <2>3. IsFold(h, tlvs, n + 1)
    BY <2>2, Zenon DEF IsFold
  <2> QED BY <2>3
<1> HIDE DEF S
<1>3. m \in S
  BY <1>1, <1>2, NatSetInduction
<1> QED BY <1>3 DEF S

\* TotalLen is the last of the sums.
LEMMA TotalLenIsSum ==
  ASSUME NEW tlvs \in Seq(Tlv)
  PROVE  \E f : IsSum(f, tlvs) /\ TotalLen(tlvs) = f[Len(tlvs)]
<1> DEFINE m == Len(tlvs)
           g == CHOOSE g : IsFold(g, tlvs, m)
           f == [n \in 0..m |-> g[1..n]]
<1>1. m \in Nat /\ DOMAIN tlvs = 1..m
  OBVIOUS
<1>2. IsFold(g, tlvs, m)
  BY <1>1, FoldExists
<1>3. TotalLen(tlvs) = g[1..m]
  BY <1>1, Zenon DEF TotalLen, FoldLeft, MapThenFoldSet, IsFold
<1> HIDE DEF g
<1>4. f[0] = 0
  <2>1. 1..0 = {} /\ 1..0 \in SUBSET (1..m)
    OBVIOUS
  <2> QED BY <1>2, <2>1 DEF IsFold
<1>5. ASSUME NEW n \in 1..m PROVE f[n] = f[n - 1] + tlvs[n].len
  <2>1. 1..n \in SUBSET (1..m) /\ 1..n # {} /\ (1..n) \ {n} = 1..(n - 1)
    <3>1. n \in Nat \ {0} /\ n <= m
      BY <1>1
    <3>2. n \in 1..n /\ \A k \in 1..n : k \in 1..m
      BY <1>1, <3>1
    <3>3. \A k : k \in 1..n /\ k # n <=> k \in 1..(n - 1)
      BY <3>1
    <3> QED BY <3>2, <3>3
  <2>2. Max(1..n) = n
    BY MaxIs
  <2>3. g[1..n] = g[(1..n) \ {n}] + tlvs[n].len
    BY <1>2, <2>1, <2>2, Zenon DEF IsFold
  <2>4. n \in 0..m /\ n - 1 \in 0..m
    BY <1>1
  <2> QED BY <2>1, <2>3, <2>4
<1>6. \A n \in 0..m : f[n] \in Nat
  <2> DEFINE S == {n \in 0..m : f[n] \in Nat}
  <2>1. 0 \in S
    BY <1>1, <1>4
  <2>2. ASSUME NEW n \in 0..(m - 1), n \in S PROVE n + 1 \in S
    <3>1. n + 1 \in 1..m /\ (n + 1) - 1 = n
      BY <1>1
    <3>2. tlvs[n + 1].len \in Nat
      BY <3>1, TlvAt
    <3>3. f[n + 1] = f[n] + tlvs[n + 1].len
      BY <1>5, <3>1
    <3> HIDE DEF f
    <3> QED BY <2>2, <3>1, <3>2, <3>3
  <2> HIDE DEF S
  <2>3. \A n \in 0..m : n \in S
    BY <1>1, <2>1, <2>2, NatSetInduction
  <2> QED BY <2>3 DEF S
<1>7. f \in [0..m -> Nat] /\ f[m] = g[1..m]
  BY <1>1, <1>6
<1>8. IsSum(f, tlvs)
  BY <1>4, <1>5, <1>7 DEF IsSum
<1> QED BY <1>3, <1>7, <1>8

\* Lists that begin alike have the same sums.
LEMMA SumsOfPrefix ==
  ASSUME NEW s \in Seq(Tlv), NEW t \in Seq(Tlv), NEW f, NEW g,
         IsSum(f, s), IsSum(g, t), NEW m \in Nat, m <= Len(s), m <= Len(t),
         \A n \in 1..m : s[n] = t[n]
  PROVE  f[m] = g[m]
<1> DEFINE S == {n \in 0..m : f[n] = g[n]}
<1>1. 0 \in S
  BY DEF IsSum
<1>2. ASSUME NEW n \in 0..(m - 1), n \in S PROVE n + 1 \in S
  <2>1. n + 1 \in 1..m /\ (n + 1) - 1 = n /\ n + 1 \in 1..Len(s) /\ n + 1 \in 1..Len(t)
    OBVIOUS
  <2>2. f[n + 1] = f[n] + s[n + 1].len /\ g[n + 1] = g[n] + t[n + 1].len
    BY <2>1 DEF IsSum
  <2> QED BY <1>2, <2>1, <2>2
<1> HIDE DEF S
<1>3. \A n \in 0..m : n \in S
  BY <1>1, <1>2, NatSetInduction
<1> QED BY <1>3 DEF S

LEMMA TotalLenType ==
  ASSUME NEW tlvs \in Seq(Tlv)
  PROVE  TotalLen(tlvs) \in Nat
BY TotalLenIsSum DEF IsSum

LEMMA TotalLenAppend ==
  ASSUME NEW tlvs \in Seq(Tlv), NEW tlv \in Tlv
  PROVE  TotalLen(Append(tlvs, tlv)) = TotalLen(tlvs) + tlv.len
<1> DEFINE more == Append(tlvs, tlv)
           m == Len(tlvs)
<1>1. /\ more \in Seq(Tlv) /\ Len(more) = m + 1 /\ m \in Nat
      /\ more[m + 1] = tlv /\ \A n \in 1..m : tlvs[n] = more[n]
  OBVIOUS
<1> HIDE DEF more, m
<1>2. PICK f : IsSum(f, tlvs) /\ TotalLen(tlvs) = f[m]
  BY TotalLenIsSum DEF m
<1>3. PICK g : IsSum(g, more) /\ TotalLen(more) = g[m + 1]
  BY <1>1, TotalLenIsSum
<1>4. f[m] = g[m]
  BY <1>1, <1>2, <1>3, SumsOfPrefix DEF m
<1>5. g[m + 1] = g[m] + tlv.len
  <2>1. m + 1 \in 1..Len(more) /\ (m + 1) - 1 = m
    BY <1>1
  <2> QED BY <1>1, <1>3, <2>1 DEF IsSum
<1> QED BY <1>2, <1>3, <1>4, <1>5 DEF more

LEMMA TotalLenPrefix ==
  ASSUME NEW tlvs \in Seq(Tlv), NEW f, IsSum(f, tlvs), NEW n \in 0..Len(tlvs)
  PROVE  TotalLen(SubSeq(tlvs, 1, n)) = f[n]
<1> DEFINE t == SubSeq(tlvs, 1, n)
<1>1. t \in Seq(Tlv) /\ Len(t) = n /\ \A i \in 1..n : tlvs[i] = t[i]
  BY SubSeqProperties
<1> HIDE DEF t
<1>2. PICK g : IsSum(g, t) /\ TotalLen(t) = g[n]
  BY <1>1, TotalLenIsSum
<1>3. f[n] = g[n]
  BY <1>1, <1>2, SumsOfPrefix
<1> QED BY <1>2, <1>3 DEF t

-----------------------------------------------------------------------------
(* The two packets of a node *)

\* The first packet has one TLV at least, and as many as the path takes.
LEMMA FitsIs ==
  ASSUME NEW tlvs \in Seq(Tlv) \ {<<>>}, NEW pmtu \in Pmtu
  PROVE  /\ Fits(tlvs, pmtu) \in 1..Len(tlvs)
         /\ TotalLen(First(tlvs, pmtu)) <= pmtu
<1> DEFINE m == Len(tlvs)
           Over == {n \in 0..m : TotalLen(SubSeq(tlvs, 1, n)) > pmtu}
           Cut(n) == /\ TotalLen(SubSeq(tlvs, 1, n)) <= pmtu
                     /\ n < m => TotalLen(SubSeq(tlvs, 1, n + 1)) > pmtu
<1>1. m \in Nat \ {0} /\ pmtu \in Nat
  BY WriterAssumption
<1>2. PICK f : IsSum(f, tlvs)
  BY TotalLenIsSum
<1>3. \A n \in 0..m : TotalLen(SubSeq(tlvs, 1, n)) = f[n] /\ f[n] \in Nat
  BY <1>2, TotalLenPrefix DEF IsSum
<1>4. f[0] = 0 /\ f[1] <= pmtu
  <2>1. 1 \in 1..m /\ 1 - 1 = 0
    BY <1>1
  <2>2. tlvs[1].len \in Nat /\ tlvs[1].len <= pmtu
    BY <2>1, TlvAt, WriterAssumption
  <2> QED BY <1>2, <2>1, <2>2 DEF IsSum
<1>5. \E n \in 0..m : Cut(n)
  <2>1. CASE Over = {}
    <3>1. m \in 0..m /\ ~(f[m] > pmtu)
      BY <2>1, <1>1, <1>3
    <3> QED BY <3>1, <1>1, <1>3
  <2>2. CASE Over # {}
    <3>1. Over \in SUBSET Nat
      OBVIOUS
    <3>2. PICK n \in Over : \A k \in Over : n <= k
      <4> HIDE DEF Over
      <4> QED BY <2>2, <3>1, LeastNatural
    <3>3. n \in 0..m /\ f[n] > pmtu /\ n # 0
      BY <3>2, <1>1, <1>3, <1>4
    <3>4. n - 1 \in 0..m /\ (n - 1) + 1 = n /\ n - 1 < n
      BY <3>3
    <3>5. ~(f[n - 1] > pmtu)
      BY <3>2, <3>4, <1>3
    <3>6. Cut(n - 1)
      BY <3>3, <3>4, <3>5, <1>1, <1>3
    <3> QED BY <3>4, <3>6
  <2> QED BY <2>1, <2>2
<1> DEFINE k == Fits(tlvs, pmtu)
<1>6. k = CHOOSE n \in 0..m : Cut(n)
  BY DEF Fits
<1> HIDE DEF k
<1>7. k \in 0..m /\ Cut(k)
  <2> HIDE DEF Cut, m
  <2> QED BY <1>5, <1>6
<1>8. k # 0
  <2>1. SUFFICES ASSUME k = 0 PROVE FALSE
    OBVIOUS
  <2>2. TotalLen(SubSeq(tlvs, 1, 0 + 1)) > pmtu
    BY <1>1, <1>7, <2>1
  <2>3. TotalLen(SubSeq(tlvs, 1, 1)) = f[1] /\ f[1] \in Nat
    BY <1>1, <1>3
  <2> QED BY <1>1, <1>4, <2>2, <2>3
<1> QED BY <1>7, <1>8 DEF k, First

LEMMA FirstIs ==
  ASSUME NEW tlvs \in Seq(Tlv) \ {<<>>}, NEW pmtu \in Pmtu
  PROVE  First(tlvs, pmtu) \in Seq(Tlv) /\ Tags(First(tlvs, pmtu)) \subseteq Tags(tlvs)
<1> DEFINE n == Fits(tlvs, pmtu)
<1>1. n \in 1..Len(tlvs)
  BY FitsIs
<1> HIDE DEF n
<1>2. /\ SubSeq(tlvs, 1, n) \in Seq(Tlv)
      /\ DOMAIN SubSeq(tlvs, 1, n) = 1..n
      /\ \A i \in 1..n : SubSeq(tlvs, 1, n)[i] = tlvs[i] /\ i \in DOMAIN tlvs
  BY <1>1, SubSeqProperties
<1> QED BY <1>2 DEF First, Tags, n

\* The two packets carry the whole node between them.
LEMMA PacketsCarryNode ==
  ASSUME NEW tlvs \in Seq(Tlv) \ {<<>>}, NEW pmtu \in Pmtu
  PROVE  /\ Second(tlvs, pmtu) \in Seq(Tlv)
         /\ Tags(First(tlvs, pmtu)) \cup Tags(Second(tlvs, pmtu)) = Tags(tlvs)
<1> DEFINE n == Fits(tlvs, pmtu)
           m == Len(tlvs)
           s == SubSeq(tlvs, n, m)
<1>1. n \in 1..m /\ m \in Nat
  BY FitsIs
<1> HIDE DEF n
<1>2. /\ s \in Seq(Tlv) /\ Len(s) = m - n + 1
      /\ \A i \in 1..(m - n + 1) : s[i] = tlvs[n + i - 1]
  BY <1>1, SubSeqProperties
<1>3. ASSUME NEW j \in n..m
      PROVE  tlvs[j].tag \in Tags(s)
  <2>1. j - n + 1 \in 1..(m - n + 1) /\ n + (j - n + 1) - 1 = j
    BY <1>1
  <2>2. s[j - n + 1] = tlvs[j] /\ j - n + 1 \in DOMAIN s
    BY <1>2, <2>1
  <2> HIDE DEF s
  <2> QED BY <2>2 DEF Tags
<1>4. Tags(s) \subseteq Tags(tlvs)
  <2>1. \A i \in DOMAIN s : n + i - 1 \in DOMAIN tlvs /\ s[i] = tlvs[n + i - 1]
    BY <1>1, <1>2
  <2> HIDE DEF s
  <2> QED BY <2>1 DEF Tags
<1>5. ASSUME NEW j \in 1..n
      PROVE  tlvs[j].tag \in Tags(SubSeq(tlvs, 1, n))
  <2>1. SubSeq(tlvs, 1, n)[j] = tlvs[j] /\ j \in DOMAIN SubSeq(tlvs, 1, n)
    BY <1>1, SubSeqProperties
  <2> QED BY <2>1 DEF Tags
<1>6. Tags(SubSeq(tlvs, 1, n)) \subseteq Tags(tlvs)
  BY FirstIs DEF First, n
<1>7. DOMAIN tlvs = 1..m
  OBVIOUS
<1>8. Tags(tlvs) \subseteq Tags(SubSeq(tlvs, 1, n)) \cup Tags(s)
  <2>1. \A j \in 1..m : j \in 1..n \/ j \in n..m
    BY <1>1
  <2> HIDE DEF s, m
  <2> QED BY <1>3, <1>5, <1>7, <2>1 DEF Tags
<1> HIDE DEF s
<1>9. First(tlvs, pmtu) = SubSeq(tlvs, 1, n) /\ Second(tlvs, pmtu) = s
  BY DEF First, Second, n, s
<1> QED BY <1>2, <1>4, <1>6, <1>8, <1>9

-----------------------------------------------------------------------------
(* The inductive invariant *)

\* No TLV waits before it was added.
TagsInUse == Waiting \subseteq 1..added

BufferInv ==
  /\ TypeOK
  /\ TagsInUse
  /\ SplitForWantOfRoom
  /\ OvertakenByShorter
  /\ NothingDropped

LEMMA NodeAt ==
  ASSUME TypeOK, NEW i \in DOMAIN g_write_buf
  PROVE  /\ DOMAIN g_write_buf = 1..Len(g_write_buf) /\ Len(g_write_buf) \in Nat
         /\ g_write_buf[i] \in Node /\ i \in 1..Len(g_write_buf)
         /\ g_write_buf[i].dest \in IpPort
         /\ g_write_buf[i].tlvs \in Seq(Tlv) \ {<<>>}
         /\ Tags(g_write_buf[i].tlvs) \subseteq Waiting
<1>1. g_write_buf \in Seq(Node)
  BY DEF TypeOK
<1>2. /\ DOMAIN g_write_buf = 1..Len(g_write_buf) /\ Len(g_write_buf) \in Nat
      /\ g_write_buf[i] \in Node
  BY <1>1, ElementOfSeq, LenProperties
<1>3. g_write_buf[i].dest \in IpPort /\ g_write_buf[i].tlvs \in Seq(Tlv) \ {<<>>}
  BY <1>2 DEF Node
<1>4. Tags(g_write_buf[i].tlvs) \subseteq Waiting
  BY DEF Waiting
<1> QED BY <1>2, <1>3, <1>4

\* A TLV of the buffer.
LEMMA WaitingAt ==
  ASSUME TypeOK, NEW i \in DOMAIN g_write_buf, NEW k \in DOMAIN g_write_buf[i].tlvs
  PROVE  /\ g_write_buf[i].tlvs[k].tag \in Waiting
         /\ g_write_buf[i].tlvs[k] \in Range(g_write_buf[i].tlvs)
         /\ g_write_buf[i].tlvs[k].len \in Nat
         /\ g_write_buf[i].tlvs[k].tag \in Nat
<1>1. g_write_buf[i].tlvs \in Seq(Tlv) /\ Tags(g_write_buf[i].tlvs) \subseteq Waiting
  BY NodeAt
<1>2. k \in 1..Len(g_write_buf[i].tlvs)
  BY <1>1
<1>3. g_write_buf[i].tlvs[k].tag \in Tags(g_write_buf[i].tlvs)
  BY DEF Tags
<1>4. g_write_buf[i].tlvs[k] \in Range(g_write_buf[i].tlvs)
  BY DEF Range
<1> QED BY <1>1, <1>2, <1>3, <1>4, TlvAt

LEMMA BufferInit == Init => BufferInv
<1> SUFFICES ASSUME Init PROVE BufferInv
  OBVIOUS
<1>1. DOMAIN g_write_buf = {}
  BY DEF Init
<1>2. TypeOK
  BY WriterAssumption DEF Init, TypeOK
<1>3. TagsInUse /\ NothingDropped
  BY <1>1 DEF Init, TagsInUse, NothingDropped, Waiting
<1>4. SplitForWantOfRoom /\ OvertakenByShorter
  BY <1>1 DEF SplitForWantOfRoom, OvertakenByShorter
<1> QED BY <1>2, <1>3, <1>4 DEF BufferInv

-----------------------------------------------------------------------------
(* A TLV is added *)

\* The two ways out of add_tlv: node i grows, or a node is opened.
Grows(i, dest, tlv) ==
  /\ i \in DOMAIN g_write_buf
  /\ Takes(i, dest, tlv)
  /\ g_write_buf' = [g_write_buf EXCEPT ![i].tlvs = Append(@, tlv)]

Opens(dest, tlv) ==
  /\ \A i \in DOMAIN g_write_buf : ~CanAddTlv(g_write_buf[i], dest, tlv)
  /\ g_write_buf' = AddNextNode(dest, tlv)

LEMMA NewTlv ==
  ASSUME TypeOK, NEW dest \in IpPort, NEW len \in Length, AddTlv(dest, len)
  PROVE  LET tlv == [tag |-> added + 1, len |-> len]
         IN  /\ tlv \in Tlv /\ added \in Nat /\ tlv.tag = added + 1 /\ tlv.len = len
             /\ len \in Nat
             /\ Opens(dest, tlv) \/ \E i \in DOMAIN g_write_buf : Grows(i, dest, tlv)
BY WriterAssumption DEF TypeOK, AddTlv, Tlv, Opens, Grows

\* What the buffer is then, place by place.
LEMMA GrowsTo ==
  ASSUME TypeOK, NEW dest \in IpPort, NEW tlv \in Tlv, NEW i, Grows(i, dest, tlv)
  PROVE  /\ g_write_buf' \in Seq(Node)
         /\ DOMAIN g_write_buf' = DOMAIN g_write_buf
         /\ \A j \in DOMAIN g_write_buf :
              /\ g_write_buf'[j].dest = g_write_buf[j].dest
              /\ g_write_buf'[j].tlvs = IF j = i THEN Append(g_write_buf[j].tlvs, tlv)
                                                 ELSE g_write_buf[j].tlvs
<1> DEFINE node == [g_write_buf[i] EXCEPT !.tlvs = Append(@, tlv)]
<1>1. g_write_buf' = [g_write_buf EXCEPT ![i] = node] /\ i \in DOMAIN g_write_buf
  BY DEF Grows
<1>2. /\ g_write_buf[i] \in Node /\ i \in 1..Len(g_write_buf)
      /\ g_write_buf[i].tlvs \in Seq(Tlv)
  BY <1>1, NodeAt
<1>3. Append(g_write_buf[i].tlvs, tlv) \in Seq(Tlv) \ {<<>>}
  BY <1>2, AppendProperties
<1>4. /\ node \in Node /\ node.dest = g_write_buf[i].dest
      /\ node.tlvs = Append(g_write_buf[i].tlvs, tlv)
  BY <1>2, <1>3 DEF Node
<1>5. g_write_buf \in Seq(Node)
  BY DEF TypeOK
<1> HIDE DEF node
<1>6. g_write_buf' \in Seq(Node) /\ Len(g_write_buf') = Len(g_write_buf)
  BY <1>1, <1>2, <1>4, <1>5, ExceptSeq
<1>7. \A j \in DOMAIN g_write_buf :
        g_write_buf'[j] = IF j = i THEN node ELSE g_write_buf[j]
  BY <1>1
<1> QED BY <1>1, <1>4, <1>5, <1>6, <1>7

LEMMA OpensTo ==
  ASSUME TypeOK, NEW dest \in IpPort, NEW tlv \in Tlv, Opens(dest, tlv)
  PROVE  LET last == Len(g_write_buf) + 1
         IN  /\ g_write_buf' \in Seq(Node)
             /\ DOMAIN g_write_buf' = DOMAIN g_write_buf \cup {last}
             /\ \A j \in DOMAIN g_write_buf : g_write_buf'[j] = g_write_buf[j] /\ j < last
             /\ g_write_buf'[last] = [dest |-> dest, tlvs |-> <<tlv>>]
             /\ last \notin DOMAIN g_write_buf
<1> DEFINE node == [dest |-> dest, tlvs |-> <<tlv>>]
<1>1. g_write_buf \in Seq(Node) /\ g_write_buf' = Append(g_write_buf, node)
  BY DEF TypeOK, Opens, AddNextNode
<1>2. node \in Node
  BY DEF Node
<1> HIDE DEF node
<1>3. /\ g_write_buf' \in Seq(Node) /\ Len(g_write_buf') = Len(g_write_buf) + 1
      /\ \A j \in 1..Len(g_write_buf) : g_write_buf'[j] = g_write_buf[j]
      /\ g_write_buf'[Len(g_write_buf) + 1] = node
  BY <1>1, <1>2, AppendProperties
<1>4. /\ DOMAIN g_write_buf = 1..Len(g_write_buf) /\ Len(g_write_buf) \in Nat
      /\ DOMAIN g_write_buf' = 1..Len(g_write_buf')
  BY <1>1, <1>3
<1> QED BY <1>3, <1>4 DEF node

LEMMA TagsOfAppend ==
  ASSUME NEW tlvs \in Seq(Tlv), NEW tlv \in Tlv
  PROVE  Tags(Append(tlvs, tlv)) = Tags(tlvs) \cup {tlv.tag}
<1> DEFINE more == Append(tlvs, tlv)
           n == Len(tlvs) + 1
<1>1. /\ DOMAIN more = DOMAIN tlvs \cup {n}
      /\ \A k \in DOMAIN tlvs : more[k] = tlvs[k]
      /\ more[n] = tlv
  OBVIOUS
<1> HIDE DEF more, n
<1>2. Tags(more) = Tags(tlvs) \cup {tlv.tag}
  BY <1>1 DEF Tags
<1> QED BY <1>2 DEF more

\* The new TLV waits with the others.
LEMMA WaitingAdded ==
  ASSUME TypeOK, NEW dest \in IpPort, NEW tlv \in Tlv,
         Opens(dest, tlv) \/ \E i \in DOMAIN g_write_buf : Grows(i, dest, tlv)
  PROVE  Waiting' = Waiting \cup {tlv.tag}
<1>1. CASE Opens(dest, tlv)
  <2> DEFINE last == Len(g_write_buf) + 1
  <2>1. /\ DOMAIN g_write_buf' = DOMAIN g_write_buf \cup {last}
        /\ \A j \in DOMAIN g_write_buf : g_write_buf'[j] = g_write_buf[j]
        /\ g_write_buf'[last] = [dest |-> dest, tlvs |-> <<tlv>>]
    BY <1>1, OpensTo, Zenon
  <2>2. Tags(<<tlv>>) = {tlv.tag} /\ g_write_buf'[last].tlvs = <<tlv>>
    BY <2>1 DEF Tags
  <2> HIDE DEF last
  <2> QED BY <2>1, <2>2 DEF Waiting
<1>2. ASSUME NEW i \in DOMAIN g_write_buf, Grows(i, dest, tlv)
      PROVE  Waiting' = Waiting \cup {tlv.tag}
  <2>1. /\ DOMAIN g_write_buf' = DOMAIN g_write_buf
        /\ \A j \in DOMAIN g_write_buf :
             g_write_buf'[j].tlvs = IF j = i THEN Append(g_write_buf[j].tlvs, tlv)
                                             ELSE g_write_buf[j].tlvs
    BY <1>2, GrowsTo
  <2>2. ASSUME NEW j \in DOMAIN g_write_buf
        PROVE  Tags(g_write_buf'[j].tlvs) =
                 IF j = i THEN Tags(g_write_buf[j].tlvs) \cup {tlv.tag}
                          ELSE Tags(g_write_buf[j].tlvs)
    <3>1. g_write_buf[j].tlvs \in Seq(Tlv)
      BY NodeAt
    <3>2. Tags(Append(g_write_buf[j].tlvs, tlv)) = Tags(g_write_buf[j].tlvs) \cup {tlv.tag}
      BY <3>1, TagsOfAppend
    <3> QED BY <2>1, <3>2
  <2>3. \A x : x \in Waiting <=> \E j \in DOMAIN g_write_buf : x \in Tags(g_write_buf[j].tlvs)
    BY DEF Waiting
  <2>4. \A x : x \in Waiting' <=> \E j \in DOMAIN g_write_buf : x \in Tags(g_write_buf'[j].tlvs)
    BY <2>1 DEF Waiting
  <2>5. \A x : x \in Waiting' <=> x \in Waiting \/ x = tlv.tag
    BY <1>2, <2>2, <2>3, <2>4
  <2> QED BY <2>5
<1> QED BY <1>1, <1>2

LEMMA AddKeepsTypes ==
  ASSUME BufferInv, NEW dest \in IpPort, NEW len \in Length, AddTlv(dest, len)
  PROVE  TypeOK' /\ TagsInUse' /\ NothingDropped'
<1> DEFINE tlv == [tag |-> added + 1, len |-> len]
<1>1. TypeOK /\ TagsInUse /\ NothingDropped
  BY DEF BufferInv
<1>2. /\ tlv \in Tlv /\ added \in Nat /\ tlv.tag = added + 1
      /\ Opens(dest, tlv) \/ \E i \in DOMAIN g_write_buf : Grows(i, dest, tlv)
  BY <1>1, NewTlv, Zenon
<1> HIDE DEF tlv
<1>3. g_write_buf' \in Seq(Node)
  BY <1>1, <1>2, GrowsTo, OpensTo
<1>4. /\ added < MaxTlv /\ added' = added + 1 /\ packets' = <<>> /\ carried' = carried
  BY DEF AddTlv
<1>5. TypeOK'
  BY <1>1, <1>2, <1>3, <1>4, WriterAssumption DEF TypeOK
<1>6. Waiting' = Waiting \cup {added + 1}
  BY <1>1, <1>2, WaitingAdded
<1>7. 1..(added + 1) = (1..added) \cup {added + 1}
  BY <1>2
<1>8. TagsInUse' /\ NothingDropped'
  BY <1>1, <1>4, <1>6, <1>7 DEF TagsInUse, NothingDropped
<1> QED BY <1>5, <1>8

\* A node that cannot take a TLV of its destination has no room for it.
LEMMA NoRoom ==
  ASSUME TypeOK, NEW i \in DOMAIN g_write_buf, NEW tlv \in Tlv,
         ~CanAddTlv(g_write_buf[i], g_write_buf[i].dest, tlv)
  PROVE  TotalLen(g_write_buf[i].tlvs) + tlv.len > MAX_PER_TLV
<1>1. TotalLen(g_write_buf[i].tlvs) \in Nat
  BY NodeAt, TotalLenType
<1>2. tlv.len \in Nat /\ MAX_PER_TLV \in Nat
  BY WriterAssumption DEF Tlv
<1> QED BY <1>1, <1>2 DEF CanAddTlv

LEMMA RangeOfAppend ==
  ASSUME NEW tlvs \in Seq(Tlv), NEW tlv \in Tlv
  PROVE  Range(Append(tlvs, tlv)) = Range(tlvs) \cup {tlv}
<1> DEFINE more == Append(tlvs, tlv)
           n == Len(tlvs) + 1
<1>1. /\ DOMAIN more = DOMAIN tlvs \cup {n}
      /\ \A k \in DOMAIN tlvs : more[k] = tlvs[k]
      /\ more[n] = tlv
  OBVIOUS
<1> HIDE DEF more, n
<1>2. Range(more) = Range(tlvs) \cup {tlv}
  BY <1>1 DEF Range
<1> QED BY <1>2 DEF more

LEMMA LenOfRange ==
  ASSUME NEW tlvs \in Seq(Tlv), NEW tlv \in Range(tlvs)
  PROVE  tlv \in Tlv /\ tlv.len \in Nat
BY TlvAt DEF Range

LEMMA AddKeepsGroups ==
  ASSUME BufferInv, NEW dest \in IpPort, NEW len \in Length, AddTlv(dest, len)
  PROVE  SplitForWantOfRoom'
<1> DEFINE tlv == [tag |-> added + 1, len |-> len]
<1>1. TypeOK /\ SplitForWantOfRoom
  BY DEF BufferInv
<1>2. /\ tlv \in Tlv
      /\ Opens(dest, tlv) \/ \E i \in DOMAIN g_write_buf : Grows(i, dest, tlv)
  BY <1>1, NewTlv, Zenon
<1> HIDE DEF tlv
<1>3. SUFFICES ASSUME NEW p \in DOMAIN g_write_buf', NEW q \in DOMAIN g_write_buf',
                      p < q, g_write_buf'[p].dest = g_write_buf'[q].dest,
                      NEW t \in Range(g_write_buf'[q].tlvs)
               PROVE  TotalLen(g_write_buf'[p].tlvs) + t.len > MAX_PER_TLV
  BY DEF SplitForWantOfRoom
<1>4. MAX_PER_TLV \in Nat /\ tlv.len \in Nat
  BY <1>2, WriterAssumption DEF Tlv
<1>5. CASE Opens(dest, tlv)
  <2> DEFINE last == Len(g_write_buf) + 1
  <2>1. /\ DOMAIN g_write_buf' = DOMAIN g_write_buf \cup {last}
        /\ \A j \in DOMAIN g_write_buf : g_write_buf'[j] = g_write_buf[j] /\ j < last
        /\ g_write_buf'[last] = [dest |-> dest, tlvs |-> <<tlv>>]
        /\ last \notin DOMAIN g_write_buf
    BY <1>1, <1>2, <1>5, OpensTo, Zenon
  <2>2. last \in Nat /\ \A j \in DOMAIN g_write_buf : j \in Nat
    BY <1>1 DEF TypeOK
  <2> HIDE DEF last
  <2>3. p \in DOMAIN g_write_buf /\ g_write_buf'[p] = g_write_buf[p]
    BY <1>3, <2>1, <2>2
  <2>4. CASE q = last
    <3>1. t = tlv /\ g_write_buf'[q].dest = dest
      BY <1>3, <2>1, <2>4 DEF Range
    <3>2. ~CanAddTlv(g_write_buf[p], g_write_buf[p].dest, tlv)
      BY <1>3, <1>5, <2>3, <3>1 DEF Opens
    <3> QED BY <1>1, <1>2, <2>3, <3>1, <3>2, NoRoom
  <2>5. CASE q \in DOMAIN g_write_buf
    BY <1>1, <1>3, <2>1, <2>3, <2>5 DEF SplitForWantOfRoom
  <2> QED BY <2>1, <2>4, <2>5
<1>6. ASSUME NEW i \in DOMAIN g_write_buf, Grows(i, dest, tlv)
      PROVE  TotalLen(g_write_buf'[p].tlvs) + t.len > MAX_PER_TLV
  <2>1. /\ DOMAIN g_write_buf' = DOMAIN g_write_buf
        /\ \A j \in DOMAIN g_write_buf :
             /\ g_write_buf'[j].dest = g_write_buf[j].dest
             /\ g_write_buf'[j].tlvs = IF j = i THEN Append(g_write_buf[j].tlvs, tlv)
                                                ELSE g_write_buf[j].tlvs
    BY <1>1, <1>2, <1>6, GrowsTo
  <2>2. /\ g_write_buf[p].tlvs \in Seq(Tlv) /\ g_write_buf[q].tlvs \in Seq(Tlv)
        /\ \A j \in DOMAIN g_write_buf : j \in Nat
    BY <1>1, <2>1, NodeAt
  <2> DEFINE old == TotalLen(g_write_buf[p].tlvs)
             new == TotalLen(g_write_buf'[p].tlvs)
  <2>3. old \in Nat
    BY <2>2, TotalLenType
  <2>4. new \in Nat /\ old <= new
    <3>1. TotalLen(Append(g_write_buf[p].tlvs, tlv)) = old + tlv.len
      BY <1>2, <2>2, TotalLenAppend
    <3> HIDE DEF old
    <3> QED BY <1>4, <2>1, <2>3, <3>1 DEF old
  <2>5. ASSUME t \in Range(g_write_buf[q].tlvs)
        PROVE  old + t.len > MAX_PER_TLV /\ t.len \in Nat
    <3>1. old + t.len > MAX_PER_TLV
      BY <1>1, <1>3, <2>1, <2>5 DEF SplitForWantOfRoom
    <3>2. t.len \in Nat
      BY <2>2, <2>5, LenOfRange
    <3> QED BY <3>1, <3>2
  <2>6. ASSUME t \notin Range(g_write_buf[q].tlvs)
        PROVE  old + t.len > MAX_PER_TLV /\ t.len \in Nat
    <3>1. q = i /\ t = tlv
      BY <1>2, <1>3, <2>1, <2>2, <2>6, RangeOfAppend
    <3>2. p \in 1..(i - 1) /\ g_write_buf[p].dest = dest
      <4>1. g_write_buf[i].dest = dest
        BY <1>6 DEF Grows, Takes, CanAddTlv
      <4>2. p \in Nat /\ i \in Nat /\ p >= 1
        BY <1>1, <1>6, <2>1, NodeAt
      <4> QED BY <1>3, <2>1, <3>1, <4>1, <4>2
    <3>3. ~CanAddTlv(g_write_buf[p], g_write_buf[p].dest, tlv)
      BY <1>6, <3>2 DEF Grows, Takes
    <3> QED BY <1>1, <1>2, <1>4, <2>1, <3>1, <3>3, NoRoom
  <2> HIDE DEF old, new
  <2>7. new + t.len > MAX_PER_TLV
    BY <1>4, <2>3, <2>4, <2>5, <2>6
  <2> QED BY <2>7 DEF new
<1> QED BY <1>2, <1>5, <1>6

LEMMA AddKeepsOrder ==
  ASSUME BufferInv, NEW dest \in IpPort, NEW len \in Length, AddTlv(dest, len)
  PROVE  OvertakenByShorter'
<1> DEFINE tlv == [tag |-> added + 1, len |-> len]
<1>1. TypeOK /\ TagsInUse /\ SplitForWantOfRoom /\ OvertakenByShorter
  BY DEF BufferInv
<1>2. /\ tlv \in Tlv /\ added \in Nat /\ tlv.tag = added + 1
      /\ Opens(dest, tlv) \/ \E i \in DOMAIN g_write_buf : Grows(i, dest, tlv)
  BY <1>1, NewTlv, Zenon
<1> HIDE DEF tlv
<1>3. SUFFICES ASSUME NEW p \in DOMAIN g_write_buf', NEW q \in DOMAIN g_write_buf',
                      g_write_buf'[p].dest = g_write_buf'[q].dest,
                      NEW k \in DOMAIN g_write_buf'[p].tlvs,
                      NEW l \in DOMAIN g_write_buf'[q].tlvs,
                      SentBefore(p, k, q, l),
                      g_write_buf'[q].tlvs[l].tag < g_write_buf'[p].tlvs[k].tag
               PROVE  g_write_buf'[p].tlvs[k].len < g_write_buf'[q].tlvs[l].len
  BY DEF OvertakenByShorter
<1>4. MAX_PER_TLV \in Nat /\ tlv.len \in Nat
  BY <1>2, WriterAssumption DEF Tlv
\* Two TLVs that were there already.
<1>5. ASSUME p \in DOMAIN g_write_buf, q \in DOMAIN g_write_buf,
             g_write_buf[p].dest = g_write_buf'[p].dest,
             g_write_buf[q].dest = g_write_buf'[q].dest,
             k \in DOMAIN g_write_buf[p].tlvs, l \in DOMAIN g_write_buf[q].tlvs,
             g_write_buf'[p].tlvs[k] = g_write_buf[p].tlvs[k],
             g_write_buf'[q].tlvs[l] = g_write_buf[q].tlvs[l]
      PROVE  g_write_buf'[p].tlvs[k].len < g_write_buf'[q].tlvs[l].len
  BY <1>1, <1>3, <1>5 DEF OvertakenByShorter
\* The later one is not the new one, which has the greatest tag.
<1>6. ASSUME NEW j \in DOMAIN g_write_buf, NEW n \in DOMAIN g_write_buf[j].tlvs
      PROVE  g_write_buf[j].tlvs[n].tag < tlv.tag
  <2>1. g_write_buf[j].tlvs[n].tag \in Waiting
    BY <1>1, WaitingAt
  <2>2. g_write_buf[j].tlvs[n].tag \in 1..added
    BY <1>1, <2>1, Zenon DEF TagsInUse
  <2> QED BY <1>2, <2>2
<1>7. CASE Opens(dest, tlv)
  <2> DEFINE last == Len(g_write_buf) + 1
  <2>1. /\ DOMAIN g_write_buf' = DOMAIN g_write_buf \cup {last}
        /\ \A j \in DOMAIN g_write_buf : g_write_buf'[j] = g_write_buf[j] /\ j < last
        /\ g_write_buf'[last] = [dest |-> dest, tlvs |-> <<tlv>>]
        /\ last \notin DOMAIN g_write_buf
    BY <1>1, <1>2, <1>7, OpensTo, Zenon
  <2>2. last \in Nat /\ \A j \in DOMAIN g_write_buf : j \in Nat
    BY <1>1 DEF TypeOK
  <2>3. g_write_buf'[last].tlvs = <<tlv>> /\ DOMAIN <<tlv>> = {1} /\ <<tlv>>[1] = tlv
    BY <2>1
  <2> HIDE DEF last
  <2>4. p # last
    <3>1. SUFFICES ASSUME p = last PROVE FALSE
      OBVIOUS
    <3>2. k = 1 /\ (q = last => l = 1)
      BY <1>3, <2>3, <3>1
    <3>3. ~(last < q)
      BY <2>1, <2>2
    <3> QED BY <1>3, <3>1, <3>2, <3>3 DEF SentBefore
  <2>5. q # last
    <3>1. SUFFICES ASSUME q = last PROVE FALSE
      OBVIOUS
    <3>2. g_write_buf'[q].tlvs[l] = tlv
      BY <2>3, <3>1
    <3>3. g_write_buf[p].tlvs[k].tag < tlv.tag /\ g_write_buf[p].tlvs[k].tag \in Nat
      BY <1>1, <1>6, <2>1, <2>4, WaitingAt
    <3> QED BY <1>2, <1>3, <2>1, <2>4, <3>2, <3>3
  <2> QED BY <1>5, <2>1, <2>4, <2>5
<1>8. ASSUME NEW i \in DOMAIN g_write_buf, Grows(i, dest, tlv)
      PROVE  g_write_buf'[p].tlvs[k].len < g_write_buf'[q].tlvs[l].len
  <2>1. /\ DOMAIN g_write_buf' = DOMAIN g_write_buf
        /\ \A j \in DOMAIN g_write_buf :
             /\ g_write_buf'[j].dest = g_write_buf[j].dest
             /\ g_write_buf'[j].tlvs = IF j = i THEN Append(g_write_buf[j].tlvs, tlv)
                                                ELSE g_write_buf[j].tlvs
    BY <1>1, <1>2, <1>8, GrowsTo
  <2> DEFINE more == Append(g_write_buf[i].tlvs, tlv)
             m == Len(g_write_buf[i].tlvs) + 1
  <2>2. /\ DOMAIN more = DOMAIN g_write_buf[i].tlvs \cup {m} /\ m \in Nat
        /\ \A n \in DOMAIN g_write_buf[i].tlvs : more[n] = g_write_buf[i].tlvs[n] /\ n < m
        /\ more[m] = tlv /\ m \notin DOMAIN g_write_buf[i].tlvs
    <3>1. g_write_buf[i].tlvs \in Seq(Tlv)
      BY <1>1, NodeAt
    <3> QED BY <3>1
  <2>3. g_write_buf'[i].tlvs = more
    BY <2>1
  <2> HIDE DEF more, m
  \* Either place is an old one, or the end of node i.
  <2>4. ASSUME NEW j \in DOMAIN g_write_buf, NEW n \in DOMAIN g_write_buf'[j].tlvs
        PROVE  \/ /\ n \in DOMAIN g_write_buf[j].tlvs
                  /\ g_write_buf'[j].tlvs[n] = g_write_buf[j].tlvs[n]
               \/ j = i /\ n = m /\ g_write_buf'[j].tlvs[n] = tlv
    BY <2>1, <2>2, <2>3
  <2>5. ~(q = i /\ l = m)
    <3>1. SUFFICES ASSUME q = i, l = m PROVE FALSE
      OBVIOUS
    <3>2. g_write_buf'[q].tlvs[l] = tlv
      BY <2>2, <2>3, <3>1
    <3>3. ~(p = i /\ k = m)
      BY <1>2, <1>3, <3>2, <3>1
    <3>4. /\ k \in DOMAIN g_write_buf[p].tlvs
          /\ g_write_buf'[p].tlvs[k] = g_write_buf[p].tlvs[k]
      BY <2>1, <2>4, <3>3
    <3>5. g_write_buf[p].tlvs[k].tag < tlv.tag /\ g_write_buf[p].tlvs[k].tag \in Nat
      BY <1>1, <1>6, <2>1, <3>4, WaitingAt
    <3> QED BY <1>2, <1>3, <3>2, <3>4, <3>5
  <2>6. /\ l \in DOMAIN g_write_buf[q].tlvs
        /\ g_write_buf'[q].tlvs[l] = g_write_buf[q].tlvs[l]
    BY <2>1, <2>4, <2>5
  <2>7. CASE ~(p = i /\ k = m)
    <3>1. /\ k \in DOMAIN g_write_buf[p].tlvs
          /\ g_write_buf'[p].tlvs[k] = g_write_buf[p].tlvs[k]
      BY <2>1, <2>4, <2>7
    <3> QED BY <1>5, <2>1, <2>6, <3>1
  \* The new TLV fitted where the later one had not.
  <2>8. CASE p = i /\ k = m
    <3>1. g_write_buf'[p].tlvs[k] = tlv
      BY <2>2, <2>3, <2>8
    <3>2. p < q
      <4>1. CASE q = i
        <5>1. l < m
          BY <2>2, <2>6, <4>1
        <5>2. l \in Nat
          BY <1>1, <2>1, <2>6, NodeAt
        <5> QED BY <1>3, <2>2, <2>8, <4>1, <5>1, <5>2 DEF SentBefore
      <4>2. CASE q # i
        BY <1>3, <2>8, <4>2 DEF SentBefore
      <4> QED BY <4>1, <4>2
    <3> DEFINE room == TotalLen(g_write_buf[i].tlvs)
               later == g_write_buf[q].tlvs[l]
    <3>3. later \in Range(g_write_buf[q].tlvs) /\ later.len \in Nat
      BY <1>1, <2>1, <2>6, WaitingAt
    <3>4. room \in Nat
      BY <1>1, NodeAt, TotalLenType
    <3>5. room + later.len > MAX_PER_TLV
      BY <1>1, <1>3, <2>1, <2>8, <3>2, <3>3 DEF SplitForWantOfRoom
    <3>6. room + tlv.len <= MAX_PER_TLV
      BY <1>8 DEF Grows, Takes, CanAddTlv
    <3>7. g_write_buf'[q].tlvs[l] = later
      BY <2>6
    <3> HIDE DEF room, later
    <3>8. tlv.len < later.len
      BY <1>4, <3>3, <3>4, <3>5, <3>6
    <3> QED BY <3>1, <3>7, <3>8
  <2> QED BY <2>7, <2>8
<1> QED BY <1>2, <1>7, <1>8

-----------------------------------------------------------------------------
(* A node is sent *)

\* The buffer has lost its first node.
LEMMA Shifted ==
  ASSUME TypeOK, g_write_buf # <<>>, g_write_buf' = Tail(g_write_buf)
  PROVE  /\ g_write_buf' \in Seq(Node)
         /\ 1 \in DOMAIN g_write_buf /\ Head(g_write_buf) = g_write_buf[1]
         /\ \A j \in DOMAIN g_write_buf' :
              j \in Nat /\ j + 1 \in DOMAIN g_write_buf /\ g_write_buf'[j] = g_write_buf[j + 1]
         /\ \A j \in DOMAIN g_write_buf :
              j = 1 \/ (j - 1 \in DOMAIN g_write_buf' /\ g_write_buf'[j - 1] = g_write_buf[j])
<1>1. g_write_buf \in Seq(Node)
  BY DEF TypeOK
<1>2. /\ g_write_buf' \in Seq(Node) /\ Len(g_write_buf') = Len(g_write_buf) - 1
      /\ \A j \in 1..Len(g_write_buf') : g_write_buf'[j] = g_write_buf[j + 1]
  BY <1>1, HeadTailProperties
<1>3. /\ DOMAIN g_write_buf = 1..Len(g_write_buf) /\ Len(g_write_buf) \in Nat \ {0}
      /\ DOMAIN g_write_buf' = 1..Len(g_write_buf')
      /\ Head(g_write_buf) = g_write_buf[1]
  BY <1>1, <1>2
<1>4. \A j \in 1..Len(g_write_buf) :
        j = 1 \/ (j - 1 \in 1..(Len(g_write_buf) - 1) /\ (j - 1) + 1 = j)
  BY <1>3
<1> QED BY <1>2, <1>3, <1>4

LEMMA WaitingShifted ==
  ASSUME TypeOK, g_write_buf # <<>>, g_write_buf' = Tail(g_write_buf)
  PROVE  Waiting' \cup Tags(Head(g_write_buf).tlvs) = Waiting
<1>1. \A x : x \in Waiting <=> \E j \in DOMAIN g_write_buf : x \in Tags(g_write_buf[j].tlvs)
  BY DEF Waiting
<1>2. \A x : x \in Waiting' <=> \E j \in DOMAIN g_write_buf' : x \in Tags(g_write_buf'[j].tlvs)
  BY DEF Waiting
<1>3. ASSUME NEW x \in Waiting
      PROVE  x \in Waiting' \/ x \in Tags(Head(g_write_buf).tlvs)
  <2>1. PICK j \in DOMAIN g_write_buf : x \in Tags(g_write_buf[j].tlvs)
    BY <1>1
  <2> QED BY <1>2, <2>1, Shifted
<1>4. Waiting' \subseteq Waiting
  BY <1>1, <1>2, Shifted
<1>5. Tags(Head(g_write_buf).tlvs) \subseteq Waiting
  BY <1>1, Shifted
<1> QED BY <1>3, <1>4, <1>5

\* Packets of the TLVs of the head.
LEMMA Sent ==
  ASSUME TypeOK, g_write_buf # <<>>, NEW pmtu \in Pmtu
  PROVE  LET tlvs == Head(g_write_buf).tlvs
         IN  /\ tlvs \in Seq(Tlv) \ {<<>>} /\ Tags(tlvs) \subseteq Waiting
             /\ First(tlvs, pmtu) \in Seq(Tlv) /\ Second(tlvs, pmtu) \in Seq(Tlv)
             /\ Tags(First(tlvs, pmtu)) \cup Tags(Second(tlvs, pmtu)) = Tags(tlvs)
<1>1. 1 \in DOMAIN g_write_buf /\ Head(g_write_buf) = g_write_buf[1]
  BY DEF TypeOK
<1>2. /\ g_write_buf[1].tlvs \in Seq(Tlv) \ {<<>>}
      /\ Tags(g_write_buf[1].tlvs) \subseteq Waiting
  BY <1>1, NodeAt
<1> QED BY <1>1, <1>2, FirstIs, PacketsCarryNode

\* What packets of waiting TLVs change of the history.
LEMMA TransmitKeeps ==
  ASSUME BufferInv, NEW sent \in Seq(Seq(Tlv)), Transmit(sent),
         \A i \in DOMAIN sent : Tags(sent[i]) \subseteq Waiting
  PROVE  /\ added' = added /\ added' \in 0..MaxTlv
         /\ packets' \in Seq(Seq(Tlv)) /\ carried' \subseteq 1..added'
         /\ carried \subseteq carried' /\ 1..added' \subseteq Waiting \cup carried'
         /\ \A i \in DOMAIN sent : Tags(sent[i]) \subseteq carried'
BY DEF BufferInv, TypeOK, TagsInUse, NothingDropped, Transmit

LEMMA UnchangedKeeps ==
  ASSUME BufferInv, UNCHANGED g_write_buf, added' = added,
         packets' \in Seq(Seq(Tlv)), carried' \subseteq 1..added', carried \subseteq carried'
  PROVE  BufferInv'
<1>1. Waiting' = Waiting
  BY DEF Waiting
<1>2. TypeOK' /\ TagsInUse' /\ NothingDropped'
  BY <1>1 DEF BufferInv, TypeOK, TagsInUse, NothingDropped
<1>3. SplitForWantOfRoom' /\ OvertakenByShorter'
  BY DEF BufferInv, SplitForWantOfRoom, OvertakenByShorter
<1> QED BY <1>2, <1>3 DEF BufferInv

LEMMA SendFailsKeeps ==
  ASSUME BufferInv, SendFails
  PROVE  BufferInv'
<1>1. Transmit(<<>>) /\ <<>> \in Seq(Seq(Tlv)) /\ UNCHANGED g_write_buf
  BY DEF SendFails
<1>2. \A i \in DOMAIN <<>> : Tags(<<>>[i]) \subseteq Waiting
  OBVIOUS
<1>3. /\ added' = added /\ packets' \in Seq(Seq(Tlv))
      /\ carried' \subseteq 1..added' /\ carried \subseteq carried'
  BY <1>1, <1>2, TransmitKeeps
<1> QED BY <1>1, <1>3, UnchangedKeeps

LEMMA SendHalfKeeps ==
  ASSUME BufferInv, NEW pmtu \in Pmtu, SendHalf(pmtu)
  PROVE  BufferInv'
<1> DEFINE first == First(Head(g_write_buf).tlvs, pmtu)
<1>1. Transmit(<<first>>) /\ UNCHANGED g_write_buf /\ g_write_buf # <<>>
  BY DEF SendHalf
<1>2. first \in Seq(Tlv) /\ Tags(first) \subseteq Waiting
  BY <1>1, Sent DEF BufferInv
<1> HIDE DEF first
<1>3. <<first>> \in Seq(Seq(Tlv)) /\ \A i \in DOMAIN <<first>> : <<first>>[i] = first
  BY <1>2
<1> QED BY <1>1, <1>2, <1>3, TransmitKeeps, UnchangedKeeps

LEMMA SendNodeKeeps ==
  ASSUME BufferInv, NEW pmtu \in Pmtu, SendNode(pmtu)
  PROVE  BufferInv'
<1> DEFINE tlvs == Head(g_write_buf).tlvs
           first == First(tlvs, pmtu)
           second == Second(tlvs, pmtu)
           sent == IF InTwo(tlvs, pmtu) THEN <<first, second>> ELSE <<tlvs>>
<1>1. TypeOK /\ g_write_buf # <<>> /\ g_write_buf' = Tail(g_write_buf) /\ Transmit(sent)
  BY DEF SendNode, BufferInv
<1>2. /\ tlvs \in Seq(Tlv) /\ first \in Seq(Tlv) /\ second \in Seq(Tlv)
      /\ Tags(first) \cup Tags(second) = Tags(tlvs) /\ Tags(tlvs) \subseteq Waiting
  BY <1>1, Sent
<1> HIDE DEF tlvs, first, second
<1>3. /\ sent \in Seq(Seq(Tlv))
      /\ \A i \in DOMAIN sent : Tags(sent[i]) \subseteq Waiting
      /\ Tags(tlvs) \subseteq UNION {Tags(sent[i]) : i \in DOMAIN sent}
  <2>1. CASE InTwo(tlvs, pmtu)
    <3>1. /\ sent = <<first, second>> /\ DOMAIN sent = {1, 2}
          /\ sent[1] = first /\ sent[2] = second
      BY <2>1
    <3>2. sent \in Seq(Seq(Tlv))
      BY <1>2, <3>1
    <3> HIDE DEF sent
    <3> QED BY <1>2, <3>1, <3>2
  <2>2. CASE ~InTwo(tlvs, pmtu)
    <3>1. sent = <<tlvs>> /\ DOMAIN sent = {1} /\ sent[1] = tlvs
      BY <2>2
    <3>2. sent \in Seq(Seq(Tlv))
      BY <1>2, <3>1
    <3> HIDE DEF sent
    <3> QED BY <1>2, <3>1, <3>2
  <2> QED BY <2>1, <2>2
<1> HIDE DEF sent
<1>4. /\ added' = added /\ added' \in 0..MaxTlv
      /\ packets' \in Seq(Seq(Tlv)) /\ carried' \subseteq 1..added'
      /\ carried \subseteq carried' /\ 1..added' \subseteq Waiting \cup carried'
      /\ Tags(tlvs) \subseteq carried'
  BY <1>1, <1>3, TransmitKeeps
<1>5. Waiting' \cup Tags(tlvs) = Waiting
  BY <1>1, WaitingShifted DEF tlvs
<1>6. TypeOK'
  BY <1>1, <1>4, Shifted DEF TypeOK
<1>7. TagsInUse' /\ NothingDropped'
  BY <1>4, <1>5 DEF BufferInv, TagsInUse, NothingDropped
<1>8. SplitForWantOfRoom'
  <2>1. SUFFICES ASSUME NEW i \in DOMAIN g_write_buf', NEW j \in DOMAIN g_write_buf',
                        i < j, g_write_buf'[i].dest = g_write_buf'[j].dest,
                        NEW t \in Range(g_write_buf'[j].tlvs)
                 PROVE  TotalLen(g_write_buf'[i].tlvs) + t.len > MAX_PER_TLV
    BY DEF SplitForWantOfRoom
  <2>2. /\ i + 1 \in DOMAIN g_write_buf /\ g_write_buf'[i] = g_write_buf[i + 1]
        /\ j + 1 \in DOMAIN g_write_buf /\ g_write_buf'[j] = g_write_buf[j + 1]
        /\ i + 1 < j + 1
    BY <1>1, <2>1, Shifted
  <2> QED BY <2>1, <2>2 DEF BufferInv, SplitForWantOfRoom
<1>9. OvertakenByShorter'
  <2>1. SUFFICES ASSUME NEW i \in DOMAIN g_write_buf', NEW j \in DOMAIN g_write_buf',
                        g_write_buf'[i].dest = g_write_buf'[j].dest,
                        NEW k \in DOMAIN g_write_buf'[i].tlvs,
                        NEW l \in DOMAIN g_write_buf'[j].tlvs,
                        SentBefore(i, k, j, l),
                        g_write_buf'[j].tlvs[l].tag < g_write_buf'[i].tlvs[k].tag
                 PROVE  g_write_buf'[i].tlvs[k].len < g_write_buf'[j].tlvs[l].len
    BY DEF OvertakenByShorter
  <2>2. /\ i + 1 \in DOMAIN g_write_buf /\ g_write_buf'[i] = g_write_buf[i + 1]
        /\ j + 1 \in DOMAIN g_write_buf /\ g_write_buf'[j] = g_write_buf[j + 1]
        /\ SentBefore(i + 1, k, j + 1, l)
    BY <1>1, <2>1, Shifted DEF SentBefore
  <2> QED BY <2>1, <2>2 DEF BufferInv, OvertakenByShorter
<1> QED BY <1>6, <1>7, <1>8, <1>9 DEF BufferInv

LEMMA BufferStep == BufferInv /\ [Next]_vars => BufferInv'
<1> SUFFICES ASSUME BufferInv, [Next]_vars PROVE BufferInv'
  OBVIOUS
<1>1. ASSUME NEW dest \in IpPort, NEW len \in Length, AddTlv(dest, len)
      PROVE  BufferInv'
  BY <1>1, AddKeepsTypes, AddKeepsGroups, AddKeepsOrder DEF BufferInv
<1>2. CASE SendFails
  BY <1>2, SendFailsKeeps
<1>3. ASSUME NEW pmtu \in Pmtu, SendHalf(pmtu) PROVE BufferInv'
  BY <1>3, SendHalfKeeps
<1>4. ASSUME NEW pmtu \in Pmtu, SendNode(pmtu) PROVE BufferInv'
  BY <1>4, SendNodeKeeps
<1>5. CASE UNCHANGED vars
  <2>1. UNCHANGED g_write_buf /\ added' = added /\ packets' = packets /\ carried' = carried
    BY <1>5 DEF vars
  <2> QED BY <2>1, UnchangedKeeps DEF BufferInv, TypeOK
<1> QED BY <1>1, <1>2, <1>3, <1>4, <1>5 DEF Next, SendBufferTlv

-----------------------------------------------------------------------------
(* Theorems *)

\* The buffer keeps all the parts of its invariant.
THEOREM BufferIsSound == Spec => []BufferInv
BY BufferInit, BufferStep, PTL DEF Spec

\* Types: no node of the buffer is ever empty (writer.c frees one when it is
\* sent), and what packets carried had been added.
THEOREM BufferTypes == Spec => []TypeOK
<1>1. BufferInv => TypeOK
  BY DEF BufferInv
<1> QED BY <1>1, BufferIsSound, PTL

\* complete_node_tlv before add_next_node: two nodes of a destination could
\* not have been one, and no TLV of the later would fit in the earlier.
THEOREM NodesSplitForWantOfRoom == Spec => []SplitForWantOfRoom
<1>1. BufferInv => SplitForWantOfRoom
  BY DEF BufferInv
<1> QED BY <1>1, BufferIsSound, PTL

\* First fit reorders the TLVs of a destination in one way only: a shorter one
\* may go into an earlier node.
THEOREM OnlyShorterOvertakes == Spec => []OvertakenByShorter
<1>1. BufferInv => OvertakenByShorter
  BY DEF BufferInv
<1> QED BY <1>1, BufferIsSound, PTL

\* send_buffer_tlv loses nothing: its two packets carry the node between them,
\* and a node whose packets are refused stays.
THEOREM NoTlvDropped == Spec => []NothingDropped
<1>1. BufferInv => NothingDropped
  BY DEF BufferInv
<1> QED BY <1>1, BufferIsSound, PTL

=============================================================================
