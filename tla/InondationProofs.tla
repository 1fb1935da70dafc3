-------------------------- MODULE InondationProofs --------------------------
(***************************************************************************)
(* What holds of the neighbour tables, and of the list of messages that is *)
(* flooded to them, for any addresses, ids, time-outs, boot time, number   *)
(* of turns and bounds of the models; and that every step of the flooding  *)
(* is a step of Diffusion, or none, the safety half of                     *)
(* ImplementsDiffusion.                                                    *)
(***************************************************************************)
EXTENDS Inondation, Voisinage, Arithmetic, FiniteSetTheorems, TLAPS

-----------------------------------------------------------------------------
(* Lemmas on the helpers *)

\* A second more keeps an age an age, and keeps two ages in order.
LEMMA OlderIsMonotonic ==
  ASSUME NEW x \in Age, NEW y \in Age
  PROVE  /\ Older(x) \in Age
         /\ x <= y => Older(x) <= Older(y)
BY VoisinAssumption DEF Age, Older

\* A table is a function of its keys.
LEMMA TableType ==
  ASSUME NEW f
  PROVE  f \in Table <=> DOMAIN f \subseteq IpPort /\ f \in [DOMAIN f -> Neighbour]
BY DEF Table

\* Recording a Hello and removing addresses keep a table a table.
LEMMA InsertKeepsType ==
  ASSUME NEW map \in Table, NEW p \in IpPort, NEW v \in Neighbour
  PROVE  /\ InsertMap(map, p, v) \in Table
         /\ DOMAIN InsertMap(map, p, v) = DOMAIN map \cup {p}
<1>1. DOMAIN map \subseteq IpPort /\ map \in [DOMAIN map -> Neighbour]
  BY TableType
<1>2. /\ DOMAIN InsertMap(map, p, v) = DOMAIN map \cup {p}
      /\ InsertMap(map, p, v) \in [DOMAIN InsertMap(map, p, v) -> Neighbour]
  BY <1>1 DEF InsertMap
<1> QED BY <1>1, <1>2, TableType

LEMMA RemoveKeepsType ==
  ASSUME NEW map \in Table, NEW R
  PROVE  /\ RemoveKeys(map, R) \in Table
         /\ DOMAIN RemoveKeys(map, R) = DOMAIN map \ R
<1>1. DOMAIN map \subseteq IpPort /\ map \in [DOMAIN map -> Neighbour]
  BY TableType
<1>2. /\ DOMAIN RemoveKeys(map, R) = DOMAIN map \ R
      /\ RemoveKeys(map, R) \in [DOMAIN RemoveKeys(map, R) -> Neighbour]
  BY <1>1 DEF RemoveKeys
<1> QED BY <1>1, <1>2, TableType

\* So does a second more, for the table and for the copies.
LEMMA AgedKeepsType ==
  ASSUME NEW map \in Table
  PROVE  Aged(map) \in Table /\ DOMAIN Aged(map) = DOMAIN map
<1>1. DOMAIN map \subseteq IpPort /\ map \in [DOMAIN map -> Neighbour]
  BY TableType
<1>2. DOMAIN Aged(map) = DOMAIN map
  BY DEF Aged
<1>3. ASSUME NEW p \in DOMAIN map
      PROVE  Aged(map)[p] \in Neighbour
  <2> DEFINE h == Older(map[p].hello)
             l == Older(map[p].long_hello)
  <2>1. /\ map[p].id \in Id
        /\ map[p].hello \in Age /\ map[p].long_hello \in Age
        /\ map[p].hello <= map[p].long_hello
    BY <1>1 DEF Neighbour
  <2>2. h \in Age /\ l \in Age /\ h <= l
    BY <2>1, OlderIsMonotonic
  <2>3. Aged(map)[p] = [id |-> map[p].id, hello |-> h, long_hello |-> l]
    BY DEF Aged
  <2> HIDE DEF h, l
  <2> QED BY <2>1, <2>2, <2>3 DEF Neighbour
<1>4. Aged(map) \in [DOMAIN Aged(map) -> Neighbour]
  <2>1. Aged(map) = [p \in DOMAIN map |-> Aged(map)[p]]
    BY DEF Aged
  <2> QED BY <1>2, <1>3, <2>1
<1> QED BY <1>1, <1>2, <1>4, TableType

-----------------------------------------------------------------------------
(* The part of the type invariant that concerns the tables *)

TablesOK ==
  /\ g_neighbours \in Table
  /\ g_environs \subseteq IpPort
  /\ uptime \in Age
  /\ RoundsOK

VoisinInv == TypeOK /\ TablesDisjoint

\* A step that leaves the tables and the rounds alone.
LEMMA QuietKeepsTables ==
  ASSUME TablesOK, TablesDisjoint, UNCHANGED <<g_neighbours, g_environs, uptime, rounds>>
  PROVE  (TablesOK /\ TablesDisjoint)'
BY DEF TablesOK, TablesDisjoint, RoundsOK, rounds

\* A demotion keeps the tables typed and disjoint, if the rounds stay typed.
LEMMA DemotionKeepsTables ==
  ASSUME TablesOK, TablesDisjoint, UNCHANGED uptime, RoundsOK',
         NEW R \in SUBSET IpPort, FromNeighboursToEnv(R)
  PROVE  (TablesOK /\ TablesDisjoint)'
<1>1. TablesOK'
  BY RemoveKeepsType DEF FromNeighboursToEnv, TablesOK
<1>2. TablesDisjoint'
  BY DEF FromNeighboursToEnv, TablesDisjoint, RemoveKeys
<1> QED BY <1>1, <1>2

\* Recording a Hello does too.
LEMMA RecordKeepsTables ==
  ASSUME TablesOK, TablesDisjoint, UNCHANGED <<uptime, rounds>>,
         NEW p \in IpPort, NEW v \in Neighbour,
         g_neighbours' = InsertMap(g_neighbours, p, v),
         g_environs' = g_environs \ {p}
  PROVE  (TablesOK /\ TablesDisjoint)'
<1>1. TablesOK'
  BY InsertKeepsType DEF TablesOK, RoundsOK, rounds
<1>2. TablesDisjoint'
  BY DEF TablesDisjoint, InsertMap
<1> QED BY <1>1, <1>2

\* The TLVs an update announces are GoAways to neighbours.
LEMMA GoAwaysType ==
  ASSUME NEW R \in SUBSET IpPort, NEW code \in GoAwayCode
  PROVE  GoAways(R, code) \subseteq VoisinTlv
BY DEF GoAways, GoAwayTo, VoisinTlv, GoAwayTlv

LEMMA HelloLongType ==
  ASSUME NEW p \in IpPort, NEW id \in Id
  PROVE  HelloLongTo(p, id) \in VoisinTlv
BY DEF HelloLongTo, VoisinTlv, HelloLongTlv

-----------------------------------------------------------------------------
(* The rounds of the senders *)

LEMMA WakeKeepsInv ==
  ASSUME TablesOK, TablesDisjoint, NEW t, Wake(t)
  PROVE  (TablesOK /\ TablesDisjoint)' /\ sent' \subseteq VoisinTlv
<1>1. /\ t \in Sender
      /\ awake' = awake \cup {t}
      /\ n_list' = [n_list EXCEPT ![t] = g_neighbours]
      /\ todo' = [todo EXCEPT ![t] = DOMAIN g_neighbours]
      /\ sent' = {}
      /\ UNCHANGED <<g_neighbours, g_environs, uptime, hellos>>
  BY DEF Wake
<1>2. /\ g_neighbours \in Table /\ DOMAIN g_neighbours \subseteq IpPort
      /\ RoundsOK
  BY TableType DEF TablesOK
<1>3. RoundsOK'
  BY <1>1, <1>2 DEF RoundsOK
<1> QED BY <1>1, <1>3 DEF TablesOK, TablesDisjoint

LEMMA SleepKeepsTables ==
  ASSUME TablesOK, TablesDisjoint, NEW t \in Sender, Sleep(t), hellos' \in Nat
  PROVE  (TablesOK /\ TablesDisjoint)'
<1>1. /\ todo[t] = {}
      /\ awake' = awake \ {t}
      /\ n_list' = [n_list EXCEPT ![t] = [p \in {} |-> {}]]
      /\ UNCHANGED <<g_neighbours, g_environs, uptime, todo>>
  BY DEF Sleep
<1>2. [p \in {} |-> {}] \in Table /\ RoundsOK
  BY TableType DEF TablesOK
<1>3. RoundsOK'
  <2> DEFINE none == [p \in {} |-> {}]
  <2>1. n_list' = [n_list EXCEPT ![t] = none] /\ none \in Table
    BY <1>1, <1>2
  <2> HIDE DEF none
  <2> QED BY <1>1, <1>2, <2>1 DEF RoundsOK
<1> QED BY <1>1, <1>3 DEF TablesOK, TablesDisjoint

\* The node visited is a node of the copy, demoted if it is late there.
LEMMA VisitKeepsInv ==
  ASSUME TablesOK, TablesDisjoint, NEW t \in Sender, NEW p \in IpPort,
         NEW tlvs \in SUBSET VoisinTlv, Visit(t, p, tlvs), hellos' \in Nat
  PROVE  (TablesOK /\ TablesDisjoint)' /\ sent' \subseteq VoisinTlv
<1> DEFINE late == {q \in {p} : TimedOut(t, q)}
<1>1. /\ todo' = [todo EXCEPT ![t] = @ \ {p}]
      /\ FromNeighboursToEnv(late)
      /\ sent' \subseteq GoAways(late, 2) \cup tlvs
      /\ UNCHANGED <<uptime, awake, n_list>>
  BY DEF Visit
<1>2. RoundsOK'
  BY <1>1 DEF TablesOK, RoundsOK
<1>3. late \in SUBSET IpPort /\ 2 \in GoAwayCode
  BY DEF GoAwayCode
<1> HIDE DEF late
<1>4. (TablesOK /\ TablesDisjoint)'
  BY <1>1, <1>2, <1>3, DemotionKeepsTables
<1>5. sent' \subseteq VoisinTlv
  BY <1>1, <1>3, GoAwaysType
<1> QED BY <1>4, <1>5

LEMMA HelloSenderKeepsInv ==
  ASSUME TablesOK, TablesDisjoint, HelloSender
  PROVE  (TablesOK /\ TablesDisjoint)' /\ sent' \subseteq VoisinTlv
<1> DEFINE t == "hello_sender"
<1>1. CASE Wake(t)
  BY <1>1, WakeKeepsInv
<1>2. RoundsOK /\ awake \subseteq Sender
  BY DEF TablesOK, RoundsOK
<1>3. CASE HelloShort
  <2>1. Sleep(t) /\ hellos' = 0
    BY <1>3 DEF HelloShort
  <2>2. t \in Sender
    BY <1>2, <2>1 DEF Sleep
  <2>3. (TablesOK /\ TablesDisjoint)'
    BY <2>1, <2>2, SleepKeepsTables
  <2>4. PICK S \in SUBSET g_environs :
          sent' = {[dest |-> p, type |-> "hello_short"] : p \in S}
    BY <1>3 DEF HelloShort
  <2>5. sent' \subseteq VoisinTlv
    BY <2>4 DEF TablesOK, VoisinTlv, HelloShortTlv
  <2> QED BY <2>3, <2>5
<1>4. ASSUME NEW p \in IpPort, HelloLongNode(p)
      PROVE  (TablesOK /\ TablesDisjoint)' /\ sent' \subseteq VoisinTlv
  <2> DEFINE tlvs == {HelloLongTo(p, n_list[t][p].id)}
  <2>1. /\ Visit(t, p, tlvs)
        /\ hellos' \in {hellos, hellos + 1}
    BY <1>4 DEF HelloLongNode
  <2>2. t \in Sender /\ p \in todo[t]
    BY <1>2, <2>1 DEF Visit
  <2>3. n_list[t] \in Table /\ p \in DOMAIN n_list[t] /\ hellos \in Nat
    BY <1>2, <2>2 DEF RoundsOK
  <2>4. n_list[t][p].id \in Id
    BY <2>3, TableType DEF Neighbour
  <2>5. tlvs \in SUBSET VoisinTlv /\ hellos' \in Nat
    BY <2>1, <2>3, <2>4, HelloLongType
  <2> HIDE DEF tlvs
  <2> QED BY <2>1, <2>2, <2>5, VisitKeepsInv
<1> QED BY <1>1, <1>3, <1>4 DEF HelloSender

LEMMA NeighbourSenderKeepsInv ==
  ASSUME TablesOK, TablesDisjoint, NeighbourSender
  PROVE  (TablesOK /\ TablesDisjoint)' /\ sent' \subseteq VoisinTlv
<1> DEFINE t == "neighbour_sender"
<1>1. CASE Wake(t)
  BY <1>1, WakeKeepsInv
<1>2. RoundsOK /\ awake \subseteq Sender /\ hellos \in Nat
  BY DEF TablesOK, RoundsOK
<1>3. CASE NeighbourDone
  <2>1. Sleep(t) /\ sent' = {} /\ hellos' = hellos
    BY <1>3 DEF NeighbourDone
  <2>2. t \in Sender
    BY <1>2, <2>1 DEF Sleep
  <2> QED BY <1>2, <2>1, <2>2, SleepKeepsTables
<1>4. ASSUME NEW p \in IpPort, NeighbourNode(p)
      PROVE  (TablesOK /\ TablesDisjoint)' /\ sent' \subseteq VoisinTlv
  <2> DEFINE list == n_list[t]
             tlvs == {[dest |-> p, type |-> "neighbour", addr |-> q] :
                        q \in {r \in DOMAIN list \ {p} : ~TimedOut(t, r)}}
  <2>1. Visit(t, p, tlvs) /\ hellos' = hellos
    BY <1>4 DEF NeighbourNode
  <2>2. t \in Sender
    BY <1>2, <2>1 DEF Visit
  <2>3. DOMAIN list \subseteq IpPort
    BY <1>2, <2>2, TableType DEF RoundsOK
  <2>4. tlvs \in SUBSET VoisinTlv
    BY <2>3 DEF VoisinTlv, NeighbourTlv
  <2> HIDE DEF tlvs
  <2> QED BY <1>2, <2>1, <2>2, <2>4, VisitKeepsInv
<1> QED BY <1>1, <1>3, <1>4 DEF NeighbourSender

-----------------------------------------------------------------------------
(* The steps on the tables *)

\* Every step but the clock's keeps the tables as they should be.  Both the
\* rounds of the senders and the handlers of Voisin are in it; Inondation,
\* which runs them unchanged, cites the same lemma.
LEMMA TableStepKeepsInv ==
  ASSUME TablesOK, TablesDisjoint, TableStep
  PROVE  (TablesOK /\ TablesDisjoint)' /\ sent' \subseteq VoisinTlv
<1>a. 0 \in Age
  BY VoisinAssumption DEF Age
<1>b. DOMAIN g_neighbours \subseteq IpPort /\ g_neighbours \in [DOMAIN g_neighbours -> Neighbour]
  BY TableType DEF TablesOK
<1>1. ASSUME NEW p \in IpPort, NEW id \in Id, ApplyHelloCourt(p, id)
      PROVE  (TablesOK /\ TablesDisjoint)' /\ sent' \subseteq VoisinTlv
  <2> DEFINE v == [id |-> id, hello |-> 0,
                   long_hello |-> IF p \in DOMAIN g_neighbours
                                    THEN g_neighbours[p].long_hello ELSE uptime]
  <2>1. v \in Neighbour
    BY <1>a, <1>b DEF TablesOK, Neighbour, Age
  <2>2. /\ g_neighbours' = InsertMap(g_neighbours, p, v)
        /\ g_environs' = g_environs \ {p}
        /\ sent' = {HelloLongTo(p, id)}
        /\ UNCHANGED <<uptime, rounds>>
    BY <1>1 DEF ApplyHelloCourt
  <2> HIDE DEF v
  <2> QED BY <2>1, <2>2, RecordKeepsTables, HelloLongType
<1>2. ASSUME NEW p \in IpPort, NEW id \in Id, NEW to \in Id, ApplyHelloLong(p, id, to)
      PROVE  (TablesOK /\ TablesDisjoint)' /\ sent' \subseteq VoisinTlv
  <2> DEFINE v == [id |-> id, hello |-> 0, long_hello |-> 0]
  <2>1. v \in Neighbour
    BY <1>a DEF Neighbour
  <2>2. /\ g_neighbours' = InsertMap(g_neighbours, p, v)
        /\ g_environs' = g_environs \ {p}
        /\ sent' \subseteq {HelloLongTo(p, id)}
        /\ UNCHANGED <<uptime, rounds>>
    BY <1>2 DEF ApplyHelloLong
  <2> HIDE DEF v
  <2> QED BY <2>1, <2>2, RecordKeepsTables, HelloLongType
<1>3. ASSUME NEW src \in IpPort, NEW p \in IpPort, ApplyTlvNeighbour(src, p)
      PROVE  (TablesOK /\ TablesDisjoint)' /\ sent' \subseteq VoisinTlv
  BY <1>3 DEF ApplyTlvNeighbour, TablesOK, TablesDisjoint, RoundsOK, rounds
<1>4. ASSUME NEW p \in IpPort, NEW code \in GoAwayCode, ApplyTlvGoaway(p, code)
      PROVE  (TablesOK /\ TablesDisjoint)' /\ sent' \subseteq VoisinTlv
  <2>0. sent' = {} /\ UNCHANGED uptime /\ RoundsOK'
    BY <1>4 DEF ApplyTlvGoaway, TablesOK, RoundsOK, rounds
  <2>1. CASE FromNeighboursToEnv({p})
    BY <2>0, <2>1, DemotionKeepsTables
  <2>2. CASE /\ g_neighbours' = RemoveKeys(g_neighbours, {p})
             /\ g_environs' \subseteq g_environs
    <3>1. TablesOK'
      BY <2>0, <2>2, RemoveKeepsType DEF TablesOK
    <3>2. TablesDisjoint'
      BY <2>2 DEF TablesDisjoint, RemoveKeys
    <3> QED BY <2>0, <3>1, <3>2
  <2> QED BY <1>4, <2>1, <2>2 DEF ApplyTlvGoaway
<1>5. ASSUME NEW p \in IpPort, MakeDemand(p)
      PROVE  (TablesOK /\ TablesDisjoint)' /\ sent' \subseteq VoisinTlv
  <2>1. sent' \subseteq VoisinTlv
    BY <1>5 DEF MakeDemand, VoisinTlv, HelloShortTlv
  <2> QED BY <1>5, <2>1 DEF MakeDemand, TablesOK, TablesDisjoint, RoundsOK, rounds
<1> QED
  BY <1>1, <1>2, <1>3, <1>4, <1>5, HelloSenderKeepsInv, NeighbourSenderKeepsInv
     DEF TableStep, HelloFrom, GoAwayFrom

\* A second more keeps them too.
LEMMA TickKeepsInv ==
  ASSUME TablesOK, TablesDisjoint, Tick
  PROVE  (TablesOK /\ TablesDisjoint)' /\ sent' \subseteq VoisinTlv
<1>1. /\ uptime' = Older(uptime)
      /\ g_neighbours' = Aged(g_neighbours)
      /\ n_list' = [t \in Sender |-> Aged(n_list[t])]
      /\ sent' = {}
      /\ UNCHANGED <<g_environs, awake, todo, hellos>>
  BY DEF Tick
<1>2. g_neighbours' \in Table /\ DOMAIN g_neighbours' = DOMAIN g_neighbours
  BY <1>1, AgedKeepsType DEF TablesOK
<1>3. uptime' \in Age
  BY <1>1, OlderIsMonotonic DEF TablesOK
<1>4. ASSUME NEW t \in Sender
      PROVE  /\ Aged(n_list[t]) \in Table
             /\ DOMAIN Aged(n_list[t]) = DOMAIN n_list[t]
  BY AgedKeepsType DEF TablesOK, RoundsOK
<1>5. RoundsOK'
  BY <1>1, <1>4 DEF TablesOK, RoundsOK
<1> QED BY <1>1, <1>2, <1>3, <1>5 DEF TablesOK, TablesDisjoint

-----------------------------------------------------------------------------
(* Theorems *)

LEMMA VoisinInitHasInv == Init => TablesOK /\ TablesDisjoint /\ sent = {}
<1> SUFFICES ASSUME Init PROVE TablesOK /\ TablesDisjoint /\ sent = {}
  OBVIOUS
<1> DEFINE none == [p \in {} |-> {}]
<1>1. none \in Table /\ DOMAIN none = {}
  BY TableType
<1>2. /\ g_neighbours = none /\ g_environs = {} /\ uptime \in Boot /\ sent = {}
      /\ awake = {} /\ n_list = [t \in Sender |-> none]
      /\ todo = [t \in Sender |-> {}] /\ hellos = 0
  BY DEF Init
<1> HIDE DEF none
<1>3. RoundsOK
  BY <1>1, <1>2 DEF RoundsOK
<1> QED BY <1>1, <1>2, <1>3, VoisinAssumption DEF TablesOK, TablesDisjoint, Age

\* What the flooding does to the tables keeps them as they should be.
LEMMA VoisinStepKeepsInv ==
  ASSUME TablesOK, TablesDisjoint, sent \subseteq VoisinTlv, [VoisinNext]_voisinVars
  PROVE  (TablesOK /\ TablesDisjoint)' /\ sent' \subseteq VoisinTlv
<1>1. CASE Tick
  BY <1>1, TickKeepsInv
<1>2. CASE TableStep
  BY <1>2, TableStepKeepsInv
<1>3. CASE (\E author \in Id : FloodStarts(author)) \/ (\E p \in IpPort : RecipientStruckOff(p))
  <2>1. sent' = {} /\ UNCHANGED <<g_neighbours, g_environs, uptime, rounds>>
    BY <1>3 DEF FloodStarts, RecipientStruckOff
  <2> QED BY <2>1, QuietKeepsTables
<1>4. ASSUME NEW R \in SUBSET IpPort, RecipientsGivenUp(R)
      PROVE  (TablesOK /\ TablesDisjoint)' /\ sent' \subseteq VoisinTlv
  <2>1. /\ FromNeighboursToEnv(R) /\ sent' = GoAways(R, 2)
        /\ UNCHANGED <<uptime, rounds>>
    BY <1>4 DEF RecipientsGivenUp, UpdateNeighbours
  <2>2. RoundsOK'
    BY <2>1 DEF TablesOK, RoundsOK, rounds
  <2> QED BY <2>1, <2>2, DemotionKeepsTables, GoAwaysType DEF GoAwayCode
<1>5. CASE UNCHANGED voisinVars
  <2>1. UNCHANGED <<g_neighbours, g_environs, uptime, rounds, sent>>
    BY <1>5 DEF voisinVars, tableVars
  <2> QED BY <2>1, QuietKeepsTables
<1> QED BY <1>1, <1>2, <1>3, <1>4, <1>5 DEF VoisinNext

\* The inductive invariant: the types, by which a neighbour's Hello is as
\* recent as its long Hello in the table and in the copies, and the
\* disjointness of the tables.
THEOREM VoisinInvariant == VoisinSpec => []VoisinInv
<1>1. VoisinInit => VoisinInv
  BY VoisinInitHasInv DEF VoisinInit, VoisinInv, TypeOK, TablesOK
<1>2. VoisinInv /\ [VoisinNext]_voisinVars => VoisinInv'
  BY VoisinStepKeepsInv DEF VoisinInv, TypeOK, TablesOK
<1> QED BY <1>1, <1>2, PTL DEF VoisinSpec

\* Type correctness of the tables and of the rounds, for any addresses, ids,
\* senders and time-out.
THEOREM VoisinTypeOK == VoisinSpec => []TypeOK
<1>1. VoisinInv => TypeOK
  BY DEF VoisinInv
<1> QED BY <1>1, VoisinInvariant, PTL

\* No address is ever in both tables between two steps.
THEOREM VoisinTablesDisjoint == VoisinSpec => []TablesDisjoint
<1>1. VoisinInv => TablesDisjoint
  BY DEF VoisinInv
<1> QED BY <1>1, VoisinInvariant, PTL

\* A sender's step demotes the node it visits, one of those it had still to
\* visit, if its copy says it is late; or it leaves the tables alone.
LEMMA SenderStep ==
  ASSUME RoundsOK, HelloSender \/ NeighbourSender
  PROVE  /\ UNCHANGED uptime
         /\ \/ UNCHANGED <<g_neighbours, g_environs>>
            \/ \E t \in Sender : \E p \in todo[t] :
                 /\ FromNeighboursToEnv({q \in {p} : TimedOut(t, q)})
                 /\ todo' = [todo EXCEPT ![t] = @ \ {p}]
<1>1. ASSUME NEW t, Wake(t) \/ Sleep(t)
      PROVE  UNCHANGED <<g_neighbours, g_environs, uptime>>
  BY <1>1 DEF Wake, Sleep
<1>2. ASSUME NEW t, NEW p, NEW tlvs, Visit(t, p, tlvs)
      PROVE  /\ UNCHANGED uptime
             /\ t \in Sender /\ p \in todo[t]
             /\ FromNeighboursToEnv({q \in {p} : TimedOut(t, q)})
             /\ todo' = [todo EXCEPT ![t] = @ \ {p}]
  BY <1>2 DEF Visit, RoundsOK
<1>3. CASE HelloSender
  BY <1>1, <1>2, <1>3 DEF HelloSender, HelloShort, HelloLongNode
<1>4. CASE NeighbourSender
  BY <1>1, <1>2, <1>4 DEF NeighbourSender, NeighbourDone, NeighbourNode
<1> QED BY <1>3, <1>4

\* A neighbour that a sender demotes had no recent long Hello in its copy: the
\* copy's last Hello, which decides, is at least as recent as the long one.
THEOREM VoisinSparesSymetric == VoisinSpec => SendersSpareSymetric
<1>1. VoisinInv /\ [VoisinNext]_voisinVars =>
        [ \A t \in Sender : \A p \in todo[t] \ todo'[t] :
            IsSymetric(p) /\ p \notin DOMAIN g_neighbours' =>
              IsMoreThanTwo(n_list[t][p].long_hello) ]_voisinVars
  <2> SUFFICES ASSUME VoisinInv, VoisinNext, NEW t \in Sender,
                      NEW p \in todo[t], p \notin todo'[t],
                      IsSymetric(p), p \notin DOMAIN g_neighbours'
               PROVE  IsMoreThanTwo(n_list[t][p].long_hello)
    BY DEF voisinVars, tableVars, rounds
  <2>1. RoundsOK /\ p \in DOMAIN g_neighbours
    BY DEF VoisinInv, TypeOK, IsSymetric
  <2>2. n_list[t][p] \in Neighbour
    BY <2>1, TableType DEF RoundsOK
  <2>0. PICK u \in Sender : \E q \in todo[u] :
          /\ FromNeighboursToEnv({r \in {q} : TimedOut(u, r)})
          /\ todo' = [todo EXCEPT ![u] = @ \ {q}]
    <3>1. CASE UNCHANGED todo
      BY <3>1
    <3>2. CASE HelloSender \/ NeighbourSender
      BY <2>1, <3>2, SenderStep
    <3>3. TableStep => HelloSender \/ NeighbourSender \/ UNCHANGED todo
      BY DEF TableStep, HelloFrom, ApplyHelloCourt, ApplyHelloLong, ApplyTlvNeighbour,
             GoAwayFrom, ApplyTlvGoaway, MakeDemand, rounds
    <3>4. TableStep \/ UNCHANGED todo
      BY DEF VoisinNext, Tick, FloodStarts, RecipientStruckOff, RecipientsGivenUp, rounds
    <3> QED BY <3>1, <3>2, <3>3, <3>4
  <2>3. PICK q \in todo[u] :
          /\ FromNeighboursToEnv({r \in {q} : TimedOut(u, r)})
          /\ todo' = [todo EXCEPT ![u] = @ \ {q}]
    BY <2>0
  <2>4. u = t /\ q = p
    BY <2>1, <2>3 DEF RoundsOK
  <2>5. TimedOut(t, p)
    BY <2>1, <2>3, <2>4 DEF FromNeighboursToEnv, RemoveKeys
  <2>6. /\ n_list[t][p].hello \in Nat /\ n_list[t][p].long_hello \in Nat
        /\ n_list[t][p].hello <= n_list[t][p].long_hello
    BY <2>2, VoisinAssumption DEF Neighbour, Age
  <2> QED BY <2>5, <2>6, VoisinAssumption DEF TimedOut, IsMoreThanTwo
<1> QED BY <1>1, VoisinInvariant, PTL DEF VoisinSpec, SendersSpareSymetric

\* What demoting the addresses of R can lose: those that were potential
\* neighbours already.
LEMMA DemotionForgets ==
  ASSUME NEW R, FromNeighboursToEnv(R), NEW p \in Known, p \notin Known'
  PROVE  p \in R \cap g_environs
BY DEF FromNeighboursToEnv, RemoveKeys, Known

\* A neighbour is never lost but by its own GoAway; a potential neighbour only
\* if a sender's round, or a message being flooded, still has it as a neighbour.
THEOREM VoisinForgetsNobody == VoisinSpec => NoPeerForgotten
<1>1. VoisinInv /\ [VoisinNext]_voisinVars =>
        [ \A p \in Known : p \notin Known' =>
            \/ GoAwayFrom(p)
            \/ /\ p \in g_environs
               /\ p \in recipients \cup UNION {todo[t] : t \in Sender} ]_voisinVars
  <2> SUFFICES ASSUME VoisinInv, VoisinNext, NEW p \in Known, p \notin Known'
               PROVE  \/ GoAwayFrom(p)
                      \/ /\ p \in g_environs
                         /\ p \in recipients \cup UNION {todo[t] : t \in Sender}
    BY DEF voisinVars, tableVars, Known
  <2>1. ASSUME NEW q \in IpPort, HelloFrom(q)
        PROVE  FALSE
    BY <2>1 DEF HelloFrom, ApplyHelloCourt, ApplyHelloLong, InsertMap, Known
  <2>2. ASSUME NEW src \in IpPort, NEW q \in IpPort,
             ApplyTlvNeighbour(src, q) \/ MakeDemand(q)
        PROVE  FALSE
    BY <2>2 DEF ApplyTlvNeighbour, MakeDemand, Known
  <2>3. ASSUME NEW q \in IpPort, GoAwayFrom(q)
        PROVE  GoAwayFrom(p)
    <3>1. p = q
      BY <2>3 DEF GoAwayFrom, ApplyTlvGoaway, FromNeighboursToEnv, RemoveKeys, Known
    <3> QED BY <2>3, <3>1
  <2>4. CASE HelloSender \/ NeighbourSender
    <3>1. RoundsOK /\ ~UNCHANGED <<g_neighbours, g_environs>>
      BY DEF VoisinInv, TypeOK, Known
    <3>2. PICK t \in Sender : \E q \in todo[t] :
            FromNeighboursToEnv({r \in {q} : TimedOut(t, r)})
      BY <2>4, <3>1, SenderStep
    <3>3. PICK q \in todo[t] : FromNeighboursToEnv({r \in {q} : TimedOut(t, r)})
      BY <3>2
    <3>4. p \in {r \in {q} : TimedOut(t, r)} /\ p \in g_environs
      BY <3>3, DemotionForgets
    <3> QED BY <3>3, <3>4
  <2>5. ASSUME NEW R \in SUBSET IpPort, RecipientsGivenUp(R)
        PROVE  p \in g_environs /\ p \in recipients
    BY <2>5, DemotionForgets DEF RecipientsGivenUp, UpdateNeighbours
  <2>6. ASSUME NEW author \in Id, FloodStarts(author)
        PROVE  FALSE
    BY <2>6 DEF FloodStarts, Known
  <2>7. ASSUME NEW q \in IpPort, RecipientStruckOff(q)
        PROVE  FALSE
    BY <2>7 DEF RecipientStruckOff, Known
  <2>8. CASE Tick
    BY <2>8 DEF Tick, Aged, Known
  <2> QED BY <2>1, <2>2, <2>3, <2>4, <2>5, <2>6, <2>7, <2>8 DEF VoisinNext, TableStep
<1> QED BY <1>1, VoisinInvariant, PTL DEF VoisinSpec, NoPeerForgotten

\* What each step does to the neighbour table: a second passes, a Hello is
\* recorded, addresses are removed, or nothing.
LEMMA NeighboursStep ==
  ASSUME RoundsOK, VoisinNext
  PROVE  \/ Tick
         \/ \E p \in IpPort : HelloFrom(p)
         \/ \E R : g_neighbours' = RemoveKeys(g_neighbours, R)
         \/ UNCHANGED g_neighbours
<1>1. CASE HelloSender \/ NeighbourSender
  BY <1>1, SenderStep DEF FromNeighboursToEnv
<1>2. ASSUME NEW p \in IpPort, GoAwayFrom(p)
      PROVE  \E R : g_neighbours' = RemoveKeys(g_neighbours, R)
  BY <1>2 DEF GoAwayFrom, ApplyTlvGoaway, FromNeighboursToEnv
<1>3. ASSUME NEW src \in IpPort, NEW p \in IpPort,
             ApplyTlvNeighbour(src, p) \/ MakeDemand(p)
      PROVE  UNCHANGED g_neighbours
  BY <1>3 DEF ApplyTlvNeighbour, MakeDemand
<1>4. ASSUME NEW R \in SUBSET IpPort, RecipientsGivenUp(R)
      PROVE  g_neighbours' = RemoveKeys(g_neighbours, R)
  BY <1>4 DEF RecipientsGivenUp, UpdateNeighbours, FromNeighboursToEnv
<1>5. ASSUME NEW author \in Id, FloodStarts(author)
      PROVE  UNCHANGED g_neighbours
  BY <1>5 DEF FloodStarts
<1>6. ASSUME NEW p \in IpPort, RecipientStruckOff(p)
      PROVE  UNCHANGED g_neighbours
  BY <1>6 DEF RecipientStruckOff
<1> QED BY <1>1, <1>2, <1>3, <1>4, <1>5, <1>6 DEF VoisinNext, TableStep

\* A neighbour's id is the one it was recorded with.
THEOREM VoisinIdIsStable == VoisinSpec => IdIsStable
<1>1. VoisinInv /\ [VoisinNext]_voisinVars =>
        [ \A p \in DOMAIN g_neighbours \cap DOMAIN g_neighbours' :
            g_neighbours'[p].id = g_neighbours[p].id ]_voisinVars
  <2> SUFFICES ASSUME VoisinInv, VoisinNext,
                      NEW p \in DOMAIN g_neighbours, p \in DOMAIN g_neighbours'
               PROVE  g_neighbours'[p].id = g_neighbours[p].id
    BY DEF voisinVars, tableVars
  <2>1. ASSUME NEW q \in IpPort, HelloFrom(q)
        PROVE  g_neighbours'[p].id = g_neighbours[p].id
    BY <2>1 DEF HelloFrom, ApplyHelloCourt, ApplyHelloLong, InsertMap
  <2>2. ASSUME NEW R, g_neighbours' = RemoveKeys(g_neighbours, R)
        PROVE  g_neighbours'[p].id = g_neighbours[p].id
    BY <2>2 DEF RemoveKeys
  <2>3. CASE Tick
    BY <2>3 DEF Tick, Aged
  <2>4. RoundsOK
    BY DEF VoisinInv, TypeOK
  <2> QED BY <2>1, <2>2, <2>3, <2>4, NeighboursStep
<1> QED BY <1>1, VoisinInvariant, PTL DEF VoisinSpec, IdIsStable

\* is_symetric becomes true of an address by its long Hello alone, except of a
\* newcomer that sends a short one in the first Recent seconds of the machine.
THEOREM VoisinSymetricByLongHello == VoisinSpec => SymetricByLongHello
<1> DEFINE Becomes(p) == ~IsSymetric(p) /\ IsSymetric(p)'
           Newcomer(p) == /\ ~IsMoreThanTwo(uptime)
                          /\ p \notin DOMAIN g_neighbours
                          /\ \E id \in Id : ApplyHelloCourt(p, id)
<1>1. VoisinInv /\ [VoisinNext]_voisinVars =>
        [ \A p \in IpPort : ~IsSymetric(p) /\ IsSymetric(p)' =>
            \/ \E id \in Id : ApplyHelloLong(p, id, MyId)
            \/ /\ ~IsMoreThanTwo(uptime)
               /\ p \notin DOMAIN g_neighbours
               /\ \E id \in Id : ApplyHelloCourt(p, id) ]_voisinVars
  <2> SUFFICES ASSUME VoisinInv, VoisinNext, NEW p \in IpPort, Becomes(p)
               PROVE  (\E id \in Id : ApplyHelloLong(p, id, MyId)) \/ Newcomer(p)
    BY DEF voisinVars, tableVars, IsSymetric
  <2>1. ASSUME NEW q \in IpPort, NEW id \in Id, ApplyHelloCourt(q, id)
        PROVE  Newcomer(p)
    <3>1. q = p /\ p \notin DOMAIN g_neighbours
      BY <2>1 DEF ApplyHelloCourt, InsertMap, IsSymetric
    <3>2. ~IsMoreThanTwo(uptime)
      BY <2>1, <3>1 DEF ApplyHelloCourt, InsertMap, IsSymetric
    <3> QED BY <2>1, <3>1, <3>2
  <2>2. ASSUME NEW q \in IpPort, NEW id \in Id, NEW to \in Id,
               ApplyHelloLong(q, id, to)
        PROVE  ApplyHelloLong(p, id, MyId)
    <3>1. to = MyId
      BY <2>2 DEF ApplyHelloLong
    <3>2. q = p
      BY <2>2 DEF ApplyHelloLong, InsertMap, IsSymetric
    <3> QED BY <2>2, <3>1, <3>2
  <2>3. ASSUME NEW R, g_neighbours' = RemoveKeys(g_neighbours, R)
        PROVE  FALSE
    BY <2>3 DEF RemoveKeys, IsSymetric
  <2>4. ASSUME UNCHANGED g_neighbours PROVE FALSE
    BY <2>4 DEF IsSymetric
  <2>5. ASSUME Tick PROVE FALSE
    <3>1. /\ p \in DOMAIN g_neighbours
          /\ g_neighbours'[p].long_hello = Older(g_neighbours[p].long_hello)
      BY <2>5 DEF Tick, Aged, IsSymetric
    <3> QED BY <3>1 DEF Older, IsSymetric, IsMoreThanTwo
  <2>6. RoundsOK
    BY DEF VoisinInv, TypeOK
  <2> QED BY <2>1, <2>2, <2>3, <2>4, <2>5, <2>6, NeighboursStep DEF HelloFrom
<1> QED BY <1>1, VoisinInvariant, PTL DEF VoisinSpec, SymetricByLongHello

-----------------------------------------------------------------------------
(* Powers of two *)

\* The powers of two the flooding draws its delays from are naturals, each
\* twice the one before, and none exceeds the largest.
LEMMA Powers ==
  ASSUME NEW n \in 0..(COUNT_INOND + 2)
  PROVE  /\ 2^n \in Nat
         /\ 2^(n + 1) = 2 * 2^n
         /\ 2^n <= 2^(COUNT_INOND + 2)
<1> DEFINE N == COUNT_INOND + 2
<1>1. N \in Nat /\ N \in 0..N
  BY InondationAssumption
<1>2. 2^0 = 1 /\ \A k \in 0..(N - 1) : 2^(k + 1) = 2 * 2^k
  BY <1>1, PowerAssumption
<1>3. \A k \in 0..N : 2^k \in Nat \ {0} /\ \A m \in 0..k : 2^m <= 2^k
  BY <1>1, <1>2, PowersGrow
<1> QED BY <1>1, <1>3, PowerAssumption

-----------------------------------------------------------------------------
(* Lemmas on the list *)

\* Due dates are numbers of seconds.
LEMMA SendTimeIsNat ==
  ASSUME NEW list \in Seq(Message), NEW i \in 1..Len(list)
  PROVE  list[i] \in Message /\ list[i].send_time \in Nat
<1>1. list[i] \in Message
  OBVIOUS
<1> QED BY <1>1 DEF Message

\* contains_message stops at an entry that has the key, if there is one.
LEMMA FirstOfFound ==
  ASSUME g_floods \in Seq(Message), NEW key, ContainsMessage(key)
  PROVE  /\ FirstOf(key) \in DOMAIN g_floods
         /\ g_floods[FirstOf(key)].key = key
<1> DEFINE S == {i \in 1..Len(g_floods) : g_floods[i].key = key}
<1>1. S \in SUBSET Nat /\ S # {}
  BY DEF ContainsMessage
<1>2. PICK m \in S : \A n \in S : m <= n
  <2> HIDE DEF S
  <2> QED BY <1>1, LeastNatural
<1>3. /\ m \in DOMAIN g_floods
      /\ g_floods[m].key = key
      /\ \A j \in 1..(m - 1) : g_floods[j].key # key
  BY <1>2
<1> QED BY <1>3 DEF FirstOf

\* insert_message finds a place: everything before it is due before msg, what
\* follows it at once is not.
LEMMA BeforeFound ==
  ASSUME NEW list \in Seq(Message), NEW msg \in Message
  PROVE  /\ Before(list, msg) \in 0..Len(list)
         /\ \A i \in 1..Before(list, msg) : list[i].send_time < msg.send_time
         /\ Before(list, msg) < Len(list) =>
              list[Before(list, msg) + 1].send_time >= msg.send_time
<1> DEFINE S == {n \in 0..Len(list) :
                   n < Len(list) => list[n + 1].send_time >= msg.send_time}
<1>1. S \in SUBSET Nat /\ Len(list) \in S
  OBVIOUS
<1>2. PICK n \in S : \A k \in S : n <= k
  <2> HIDE DEF S
  <2> QED BY <1>1, LeastNatural
<1>3. ASSUME NEW i \in 1..n
      PROVE  list[i].send_time < msg.send_time
  <2>1. i - 1 \notin S
    BY <1>2
  <2>2. i - 1 \in 0..Len(list) /\ i - 1 < Len(list) /\ (i - 1) + 1 = i
    BY <1>2
  <2>3. ~ (list[i].send_time >= msg.send_time)
    BY <2>1, <2>2
  <2>4. list[i].send_time \in Nat
    <3>1. i \in 1..Len(list)
      BY <2>2
    <3> QED BY <3>1, SendTimeIsNat
  <2>5. msg.send_time \in Nat
    BY DEF Message
  <2> QED BY <2>3, <2>4, <2>5
<1>4. /\ n \in 0..Len(list)
      /\ \A i \in 1..n : list[i].send_time < msg.send_time
      /\ n < Len(list) => list[n + 1].send_time >= msg.send_time
  BY <1>2, <1>3
<1> QED BY <1>4 DEF Before

SortedList(list) ==
  \A i, j \in 1..Len(list) : i < j => list[i].send_time <= list[j].send_time

\* Where every element of the longer list comes from.
LEMMA InsertElements ==
  ASSUME NEW list \in Seq(Message), NEW msg \in Message
  PROVE  /\ InsertMessage(list, msg) \in Seq(Message)
         /\ Len(InsertMessage(list, msg)) = Len(list) + 1
         /\ Before(list, msg) + 1 \in 1..(Len(list) + 1)
         /\ \A i \in 1..(Len(list) + 1) :
              InsertMessage(list, msg)[i] =
                IF i <= Before(list, msg) THEN list[i]
                ELSE IF i = Before(list, msg) + 1 THEN msg ELSE list[i - 1]
<1> DEFINE n == Before(list, msg)
<1>1. n \in 0..Len(list)
  BY BeforeFound
<1> HIDE DEF n
<1>2. InsertMessage(list, msg) =
        [i \in 1..(Len(list) + 1) |->
           IF i <= n THEN list[i] ELSE IF i = n + 1 THEN msg ELSE list[i - 1]]
  BY DEF InsertMessage, n
<1>3. ASSUME NEW i \in 1..(Len(list) + 1)
      PROVE  (IF i <= n THEN list[i] ELSE IF i = n + 1 THEN msg ELSE list[i - 1])
               \in Message
  <2>1. CASE i <= n
    BY <1>1, <2>1
  <2>2. CASE i > n + 1
    <3>1. i - 1 \in 1..Len(list)
      BY <1>1, <2>2
    <3> QED BY <1>1, <2>2, <3>1
  <2> QED BY <1>1, <2>1, <2>2
<1> QED BY <1>1, <1>2, <1>3 DEF n

\* The list stays in the order of its send_time.
LEMMA InsertSorts ==
  ASSUME NEW list \in Seq(Message), NEW msg \in Message, SortedList(list)
  PROVE  SortedList(InsertMessage(list, msg))
<1> DEFINE n == Before(list, msg)
           new == InsertMessage(list, msg)
<1>1. /\ n \in 0..Len(list)
      /\ \A i \in 1..n : list[i].send_time < msg.send_time
      /\ n < Len(list) => list[n + 1].send_time >= msg.send_time
  BY BeforeFound
<1>2. /\ Len(new) = Len(list) + 1
      /\ \A i \in 1..(Len(list) + 1) :
           new[i] = IF i <= n THEN list[i]
                    ELSE IF i = n + 1 THEN msg ELSE list[i - 1]
  BY InsertElements
<1>3. \A i \in 1..Len(list) : list[i].send_time \in Nat
  BY SendTimeIsNat
<1>4. msg.send_time \in Nat
  BY DEF Message
<1> HIDE DEF n, new
<1>5. ASSUME NEW i \in 1..Len(list), i > n
      PROVE  msg.send_time <= list[i].send_time
  <2>1. n + 1 \in 1..Len(list) /\ n < Len(list)
    BY <1>1, <1>5
  <2>2. list[n + 1].send_time <= list[i].send_time
    BY <1>1, <1>3, <1>5, <2>1 DEF SortedList
  <2> QED BY <1>1, <1>3, <1>4, <2>1, <2>2
<1>6. ASSUME NEW i \in 1..Len(new), NEW j \in 1..Len(new), i < j
      PROVE  new[i].send_time <= new[j].send_time
  <2>1. CASE j <= n
    BY <1>1, <1>2, <1>6, <2>1 DEF SortedList
  <2>2. CASE j = n + 1
    <3>1. i \in 1..n /\ new[i] = list[i] /\ new[j] = msg
      BY <1>1, <1>2, <1>6, <2>2
    <3> QED BY <1>1, <1>3, <1>4, <3>1
  <2>3. CASE j > n + 1 /\ i = n + 1
    <3>1. j - 1 \in 1..Len(list) /\ j - 1 > n /\ new[j] = list[j - 1] /\ new[i] = msg
      BY <1>1, <1>2, <1>6, <2>3
    <3> QED BY <1>5, <3>1
  <2>4. CASE j > n + 1 /\ i <= n
    <3>1. j - 1 \in 1..Len(list) /\ i < j - 1 /\ new[j] = list[j - 1] /\ new[i] = list[i]
      BY <1>1, <1>2, <1>6, <2>4
    <3> QED BY <1>1, <3>1 DEF SortedList
  <2>5. CASE j > n + 1 /\ i > n + 1
    <3>1. /\ j - 1 \in 1..Len(list) /\ new[j] = list[j - 1]
          /\ i - 1 \in 1..Len(list) /\ new[i] = list[i - 1]
          /\ i - 1 < j - 1
      BY <1>1, <1>2, <1>6, <2>5
    <3> QED BY <3>1 DEF SortedList
  <2> QED BY <1>1, <1>2, <2>1, <2>2, <2>3, <2>4, <2>5
<1> QED BY <1>6 DEF SortedList, new

\* insert_message adds msg to the elements of the list and changes nothing else.
LEMMA InsertContents ==
  ASSUME NEW list \in Seq(Message), NEW msg \in Message
  PROVE  LET new == InsertMessage(list, msg)
         IN  /\ \A i \in 1..Len(new) :
                  \/ new[i] = msg
                  \/ \E j \in 1..Len(list) : new[i] = list[j]
             /\ \E i \in 1..Len(new) : new[i] = msg
             /\ \A j \in 1..Len(list) : \E i \in 1..Len(new) : new[i] = list[j]
<1> DEFINE n == Before(list, msg)
           new == InsertMessage(list, msg)
<1>1. n \in 0..Len(list)
  BY BeforeFound
<1>2. /\ Len(new) = Len(list) + 1
      /\ \A i \in 1..(Len(list) + 1) :
           new[i] = IF i <= n THEN list[i]
                    ELSE IF i = n + 1 THEN msg ELSE list[i - 1]
  BY InsertElements
<1> HIDE DEF n, new
<1>3. ASSUME NEW i \in 1..Len(new)
      PROVE  new[i] = msg \/ \E j \in 1..Len(list) : new[i] = list[j]
  <2>1. CASE i <= n
    BY <1>1, <1>2, <2>1
  <2>2. CASE i = n + 1
    BY <1>1, <1>2, <2>2
  <2>3. CASE i > n + 1
    <3>1. i - 1 \in 1..Len(list) /\ new[i] = list[i - 1]
      BY <1>1, <1>2, <2>3
    <3> QED BY <3>1
  <2>4. i <= n \/ i = n + 1 \/ i > n + 1
    BY <1>1, <1>2
  <2> QED BY <2>1, <2>2, <2>3, <2>4
<1>4. n + 1 \in 1..Len(new) /\ new[n + 1] = msg
  BY <1>1, <1>2
<1>5. ASSUME NEW j \in 1..Len(list)
      PROVE  \E i \in 1..Len(new) : new[i] = list[j]
  <2>1. CASE j <= n
    BY <1>1, <1>2, <2>1
  <2>2. CASE j > n
    <3>1. j + 1 \in 1..Len(new) /\ new[j + 1] = list[(j + 1) - 1] /\ (j + 1) - 1 = j
      BY <1>1, <1>2, <2>2
    <3> QED BY <3>1
  <2> QED BY <1>1, <1>2, <2>1, <2>2
<1> QED BY <1>3, <1>4, <1>5 DEF new

UniqueKeys(list) ==
  \A i, j \in 1..Len(list) : list[i].key = list[j].key => i = j

\* A message with a key of its own keeps the keys unique.
LEMMA InsertKeepsUnique ==
  ASSUME NEW list \in Seq(Message), NEW msg \in Message, UniqueKeys(list),
         \A i \in 1..Len(list) : list[i].key # msg.key
  PROVE  UniqueKeys(InsertMessage(list, msg))
<1> DEFINE n == Before(list, msg)
           new == InsertMessage(list, msg)
<1>1. n \in 0..Len(list)
  BY BeforeFound
<1>2. /\ Len(new) = Len(list) + 1
      /\ \A i \in 1..(Len(list) + 1) :
           new[i] = IF i <= n THEN list[i]
                    ELSE IF i = n + 1 THEN msg ELSE list[i - 1]
  BY InsertElements
<1> HIDE DEF n, new
<1>3. ASSUME NEW i \in 1..Len(new), i # n + 1
      PROVE  LET o == IF i <= n THEN i ELSE i - 1
             IN  o \in 1..Len(list) /\ new[i] = list[o]
  BY <1>1, <1>2, <1>3
<1>4. ASSUME NEW i \in 1..Len(new), NEW j \in 1..Len(new),
             new[i].key = new[j].key
      PROVE  i = j
  <2>1. new[n + 1] = msg
    BY <1>1, <1>2
  <2>2. CASE i = n + 1 \/ j = n + 1
    BY <1>3, <1>4, <2>1, <2>2
  <2>3. CASE i # n + 1 /\ j # n + 1
    <3> DEFINE o(k) == IF k <= n THEN k ELSE k - 1
    <3>1. /\ o(i) \in 1..Len(list) /\ new[i] = list[o(i)]
          /\ o(j) \in 1..Len(list) /\ new[j] = list[o(j)]
      BY <1>3, <2>3
    <3>2. o(i) = o(j)
      BY <1>4, <3>1 DEF UniqueKeys
    <3> QED BY <1>1, <1>2, <2>3, <3>2
  <2> QED BY <2>2, <2>3
<1> QED BY <1>4 DEF UniqueKeys, new

\* The list without its head.
LEMMA TailKeeps ==
  ASSUME NEW list \in Seq(Message), list # <<>>
  PROVE  /\ Tail(list) \in Seq(Message)
         /\ Len(Tail(list)) = Len(list) - 1
         /\ \A i \in 1..(Len(list) - 1) : Tail(list)[i] = list[i + 1]
         /\ SortedList(list) => SortedList(Tail(list))
         /\ UniqueKeys(list) => UniqueKeys(Tail(list))
         /\ UniqueKeys(list) =>
              \A i \in 1..Len(Tail(list)) : Tail(list)[i].key # Head(list).key
<1>1. /\ Tail(list) \in Seq(Message)
      /\ Len(Tail(list)) = Len(list) - 1
      /\ \A i \in 1..(Len(list) - 1) : Tail(list)[i] = list[i + 1]
      /\ Len(list) \in Nat \ {0}
      /\ Head(list) = list[1]
  OBVIOUS
<1>2. SortedList(list) => SortedList(Tail(list))
  BY <1>1 DEF SortedList
<1>3. UniqueKeys(list) => UniqueKeys(Tail(list))
  BY <1>1 DEF UniqueKeys
<1>4. ASSUME UniqueKeys(list), NEW i \in 1..Len(Tail(list))
      PROVE  Tail(list)[i].key # Head(list).key
  <2>1. i + 1 \in 1..Len(list) /\ 1 \in 1..Len(list) /\ i + 1 # 1
    BY <1>1
  <2>2. Tail(list)[i] = list[i + 1]
    BY <1>1
  <2> QED BY <1>1, <1>4, <2>1, <2>2 DEF UniqueKeys
<1> QED BY <1>1, <1>2, <1>3, <1>4

-----------------------------------------------------------------------------
(* The invariant, as predicates on a list so that it can be stated of the  *)
(* list before and after a step                                            *)

EntryOK(msg, last, nonce) ==
  /\ msg.key.id = MyId => msg.key.nonce <= nonce
  /\ \A p \in DOMAIN msg.recipient : msg.recipient[p] = msg.count
  /\ \/ last[msg.key] = Window
     \/ 2^(msg.count + 1) <= last[msg.key] + msg.send_time + 1

HasKey(list, key) == \E i \in 1..Len(list) : list[i].key = key

ListOK(list, last, nonce) ==
  /\ list \in Seq(Message)
  /\ SortedList(list)
  /\ UniqueKeys(list)
  /\ \A i \in 1..Len(list) : EntryOK(list[i], last, nonce)

AbsentOK(list, last) ==
  \A key \in Key : ~HasKey(list, key) => last[key] = Window

FloodInv ==
  /\ FloodTypeOK
  /\ TablesDisjoint
 
  /\ ListOK(g_floods, lastShown, g_nonce)
  /\ AbsentOK(g_floods, lastShown)

\* What the invariant gives, in the words of Inondation.
LEMMA FloodInvImplies ==
  FloodInv => /\ FloodTypeOK
              /\ Sorted
              /\ OneEntryPerMessage
              /\ SendsMatchCount
              /\ OwnNoncesInUse
              /\ TurnsTakeTime
<1> SUFFICES ASSUME FloodInv
             PROVE  /\ Sorted
                    /\ OneEntryPerMessage
                    /\ SendsMatchCount
                    /\ OwnNoncesInUse
                    /\ TurnsTakeTime
  BY DEF FloodInv
<1>1. DOMAIN g_floods = 1..Len(g_floods)
  BY DEF FloodInv, ListOK
<1>2. Sorted /\ OneEntryPerMessage
  BY <1>1 DEF FloodInv, ListOK, SortedList, UniqueKeys, Sorted, OneEntryPerMessage
<1>3. SendsMatchCount /\ OwnNoncesInUse
  BY <1>1 DEF FloodInv, ListOK, EntryOK, SendsMatchCount, OwnNoncesInUse
<1>4. TurnsTakeTime
  BY <1>1 DEF FloodInv, ListOK, EntryOK, AbsentOK, HasKey, ContainsMessage, TurnsTakeTime
<1> QED BY <1>2, <1>3, <1>4

\* A message with a key of its own enters the list.
LEMMA InsertKeepsList ==
  ASSUME NEW list, NEW last, NEW nonce, ListOK(list, last, nonce),
         NEW msg \in Message, EntryOK(msg, last, nonce), ~HasKey(list, msg.key)
  PROVE  /\ ListOK(InsertMessage(list, msg), last, nonce)
         /\ \A key : HasKey(InsertMessage(list, msg), key)
                       <=> HasKey(list, key) \/ key = msg.key
<1> DEFINE new == InsertMessage(list, msg)
<1>1. /\ list \in Seq(Message)
      /\ SortedList(list)
      /\ UniqueKeys(list)
      /\ \A i \in 1..Len(list) : EntryOK(list[i], last, nonce)
  BY DEF ListOK
<1>2. new \in Seq(Message)
  BY <1>1, InsertElements
<1>3. SortedList(new)
  BY <1>1, InsertSorts
<1>4. UniqueKeys(new)
  BY <1>1, InsertKeepsUnique DEF HasKey
<1>5. /\ \A i \in 1..Len(new) :
            new[i] = msg \/ \E j \in 1..Len(list) : new[i] = list[j]
      /\ \E i \in 1..Len(new) : new[i] = msg
      /\ \A j \in 1..Len(list) : \E i \in 1..Len(new) : new[i] = list[j]
  BY <1>1, InsertContents
<1> HIDE DEF new
<1>6. \A i \in 1..Len(new) : EntryOK(new[i], last, nonce)
  BY <1>1, <1>5
<1>7. ASSUME NEW key
      PROVE  HasKey(new, key) <=> HasKey(list, key) \/ key = msg.key
  BY <1>5 DEF HasKey
<1> QED BY <1>2, <1>3, <1>4, <1>6, <1>7 DEF ListOK, new

\* The head leaves the list.
LEMMA TailKeepsList ==
  ASSUME NEW list, NEW last, NEW nonce, ListOK(list, last, nonce), list # <<>>
  PROVE  /\ ListOK(Tail(list), last, nonce)
         /\ \A key : HasKey(list, key) <=> HasKey(Tail(list), key) \/ key = Head(list).key
         /\ ~HasKey(Tail(list), Head(list).key)
<1>1. list \in Seq(Message) /\ SortedList(list) /\ UniqueKeys(list)
  BY DEF ListOK
<1>2. /\ Tail(list) \in Seq(Message)
      /\ Len(Tail(list)) = Len(list) - 1
      /\ \A i \in 1..(Len(list) - 1) : Tail(list)[i] = list[i + 1]
      /\ SortedList(Tail(list))
      /\ UniqueKeys(Tail(list))
      /\ \A i \in 1..Len(Tail(list)) : Tail(list)[i].key # Head(list).key
  BY <1>1, TailKeeps
<1>3. Len(list) \in Nat \ {0} /\ Head(list) = list[1]
  BY <1>1
<1>4. \A i \in 1..Len(Tail(list)) : EntryOK(Tail(list)[i], last, nonce)
  BY <1>2, <1>3 DEF ListOK
<1>5. ASSUME NEW key
      PROVE  HasKey(list, key) <=> HasKey(Tail(list), key) \/ key = Head(list).key
  <2>1. ASSUME NEW i \in 1..Len(list), list[i].key = key, i # 1
        PROVE  HasKey(Tail(list), key)
    <3>1. /\ i - 1 \in 1..Len(Tail(list))
          /\ Tail(list)[i - 1] = list[(i - 1) + 1]
          /\ (i - 1) + 1 = i
      BY <1>2, <1>3, <2>1
    <3> QED BY <2>1, <3>1 DEF HasKey
  <2>2. ASSUME NEW i \in 1..Len(Tail(list)), Tail(list)[i].key = key
        PROVE  HasKey(list, key)
    <3>1. i + 1 \in 1..Len(list) /\ list[i + 1].key = key
      BY <1>2, <1>3, <2>2
    <3> QED BY <3>1 DEF HasKey
  <2>3. HasKey(list, Head(list).key)
    BY <1>3 DEF HasKey
  <2> QED BY <1>3, <2>1, <2>2, <2>3 DEF HasKey
<1>6. ~HasKey(Tail(list), Head(list).key)
  BY <1>2 DEF HasKey
<1> QED BY <1>2, <1>4, <1>5, <1>6 DEF ListOK

\* A list changed element by element, keys and order kept.
LEMMA RewriteKeepsList ==
  ASSUME NEW list, NEW last, NEW nonce, ListOK(list, last, nonce),
         NEW new \in Seq(Message), Len(new) = Len(list), NEW last2,
         \A i \in 1..Len(list) : /\ new[i].key = list[i].key
                                 /\ EntryOK(new[i], last2, nonce),
         SortedList(new)
  PROVE  /\ ListOK(new, last2, nonce)
         /\ \A key : HasKey(new, key) <=> HasKey(list, key)
BY DEF ListOK, UniqueKeys, HasKey

-----------------------------------------------------------------------------
(* The messages the steps build *)

\* A set of addresses with a number of sends for each is a list of recipients.
LEMMA RecipientType ==
  ASSUME NEW f
  PROVE  f \in UNION {[R -> Sends] : R \in SUBSET IpPort}
           <=> DOMAIN f \subseteq IpPort /\ f \in [DOMAIN f -> Sends]
OBVIOUS

\* The bounds of the types: the counts, the first delay and the longest one.
LEMMA Bounds ==
  /\ COUNT_INOND \in Nat
  /\ 0 \in Sends
  /\ Window \in Nat
  /\ MaxDelay \in Nat
  /\ 1 \in 0..MaxDelay
  /\ 2^1 = 2
<1>1. COUNT_INOND \in Nat
  BY InondationAssumption
<1>2. 2^(0 + 1) = 2 * 2^0 /\ 2^0 = 1
  BY <1>1, PowerAssumption
<1>3. 2^1 = 2
  BY <1>2
<1>4. 2^1 <= 2^(COUNT_INOND + 2) /\ 2^(COUNT_INOND + 2) \in Nat
  <2>1. 1 \in 0..(COUNT_INOND + 2) /\ COUNT_INOND + 2 \in 0..(COUNT_INOND + 2)
    BY <1>1
  <2> QED BY <2>1, Powers
<1> QED BY <1>1, <1>3, <1>4 DEF Sends, Window, MaxDelay

\* A new message: no recipient has been sent it, it is due in a second.
LEMMA CreateMessageOK ==
  ASSUME NEW key \in Key, g_neighbours \in Table
  PROVE  /\ CreateMessage(key) \in Message
         /\ CreateMessage(key).key = key
         /\ CreateMessage(key).count = 0
         /\ CreateMessage(key).send_time = 1
         /\ \A p \in DOMAIN CreateMessage(key).recipient :
              CreateMessage(key).recipient[p] = 0
<1> DEFINE R == {q \in DOMAIN g_neighbours :
                   IsSymetric(q) /\ g_neighbours[q].id # key.id}
           f == [p \in R |-> 0]
<1>1. f \in UNION {[Q -> Sends] : Q \in SUBSET IpPort}
  BY TableType, RecipientType, Bounds
<1>2. CreateMessage(key) = [key |-> key, count |-> 0, send_time |-> 1, recipient |-> f]
  BY DEF CreateMessage
<1>3. \A p \in DOMAIN f : f[p] = 0
  OBVIOUS
<1> HIDE DEF f
<1> QED BY <1>1, <1>2, <1>3, Bounds DEF Message

\* A message one of whose recipients is struck off.
LEMMA RemoveSenderOK ==
  ASSUME NEW list, NEW last, NEW nonce, ListOK(list, last, nonce),
         NEW n \in 1..Len(list), NEW src
  PROVE  LET new == [list EXCEPT ![n] = StruckOff(list[n], src)]
         IN  /\ ListOK(new, last, nonce)
             /\ \A key : HasKey(new, key) <=> HasKey(list, key)
<1> DEFINE new == [list EXCEPT ![n] = StruckOff(list[n], src)]
           r == RemoveKeys(list[n].recipient, {src})
           msg == StruckOff(list[n], src)
<1>1. list \in Seq(Message) /\ SortedList(list) /\ list[n] \in Message
  BY DEF ListOK
<1>2. r \in UNION {[Q -> Sends] : Q \in SUBSET IpPort}
  <2>1. list[n].recipient \in UNION {[Q -> Sends] : Q \in SUBSET IpPort}
    BY <1>1 DEF Message
  <2> QED BY <2>1, RecipientType DEF RemoveKeys
<1>3. /\ \A p \in DOMAIN r : r[p] = list[n].recipient[p]
      /\ DOMAIN r \subseteq DOMAIN list[n].recipient
  BY DEF RemoveKeys
<1>4. new = [list EXCEPT ![n] = msg]
  OBVIOUS
<1> HIDE DEF r
<1>5. /\ msg \in Message
      /\ msg.key = list[n].key
      /\ msg.count = list[n].count
      /\ msg.send_time = list[n].send_time
      /\ msg.recipient = r
  BY <1>1, <1>2 DEF Message, StruckOff, r
<1>6. EntryOK(msg, last, nonce)
  <2>1. EntryOK(list[n], last, nonce)
    BY DEF ListOK
  <2> HIDE DEF msg
  <2> QED BY <1>3, <1>5, <2>1 DEF EntryOK
<1> HIDE DEF msg, new
<1>7. /\ new \in Seq(Message)
      /\ Len(new) = Len(list)
      /\ \A i \in 1..Len(list) : new[i] = IF i = n THEN msg ELSE list[i]
  BY <1>1, <1>4, <1>5
<1>8. SortedList(new)
  BY <1>1, <1>5, <1>7 DEF SortedList
<1>9. \A i \in 1..Len(list) : new[i].key = list[i].key /\ EntryOK(new[i], last, nonce)
  BY <1>5, <1>6, <1>7 DEF ListOK
<1>10. ListOK(new, last, nonce)
  BY <1>7, <1>8, <1>9, RewriteKeepsList
<1>11. ASSUME NEW key
       PROVE  HasKey(new, key) <=> HasKey(list, key)
  BY <1>7, <1>9 DEF HasKey
<1> QED BY <1>10, <1>11 DEF new

\* A message after a turn of flooding, which is at its due date.
LEMMA FloodedOK ==
  ASSUME NEW msg \in Message, NEW last, NEW nonce, EntryOK(msg, last, nonce),
         last[msg.key] \in Nat, msg.send_time = 0, ~Exhausted(msg),
         NEW delay \in 2^(msg.count + 1) .. 2^(msg.count + 2) - 1
  PROVE  /\ Flooded(msg, delay) \in Message
         /\ Flooded(msg, delay).key = msg.key
         /\ EntryOK(Flooded(msg, delay), last, nonce)
<1> DEFINE c == msg.count
           new == Flooded(msg, delay)
           r == [p \in {q \in DOMAIN msg.recipient : IsSymetric(q)} |->
                   msg.recipient[p] + 1]
<1>1. /\ c \in Nat
      /\ c <= COUNT_INOND
      /\ c + 1 \in Sends
      /\ msg.key \in Key
      /\ msg.recipient \in UNION {[Q -> Sends] : Q \in SUBSET IpPort}
      /\ COUNT_INOND \in Nat
  BY Bounds DEF Message, Sends, Exhausted
<1>2. \A p \in DOMAIN msg.recipient : msg.recipient[p] = c
  BY DEF EntryOK
<1>3. /\ 2^(c + 1) \in Nat
      /\ 2^((c + 1) + 1) = 2 * 2^(c + 1)
      /\ 2^(c + 2) \in Nat
      /\ 2^(c + 2) <= 2^(COUNT_INOND + 2)
  <2>1. c + 1 \in 0..(COUNT_INOND + 2) /\ c + 2 \in 0..(COUNT_INOND + 2)
    BY <1>1
  <2> QED BY <2>1, Powers
<1>4. (c + 1) + 1 = c + 2
  BY <1>1
<1>5. delay \in 0..MaxDelay
  <2>1. 2^(COUNT_INOND + 2) \in Nat
    BY Bounds, Powers
  <2> QED BY <1>3, <2>1 DEF MaxDelay
<1>6. /\ r \in UNION {[Q -> Sends] : Q \in SUBSET IpPort}
      /\ \A p \in DOMAIN r : r[p] = c + 1
  BY <1>1, <1>2, RecipientType
<1>7. new = [key |-> msg.key, count |-> c + 1, send_time |-> delay, recipient |-> r]
  BY DEF Flooded, Message
<1> HIDE DEF r, new
<1>8. new \in Message
  BY <1>1, <1>5, <1>6, <1>7 DEF Message
<1>9. EntryOK(new, last, nonce)
  <2>1. new.key.id = MyId => new.key.nonce <= nonce
    BY <1>7 DEF EntryOK
  <2>2. \A p \in DOMAIN new.recipient : new.recipient[p] = new.count
    BY <1>6, <1>7
  <2>3. last[new.key] = Window \/ 2^(new.count + 1) <= last[new.key] + new.send_time + 1
    <3>1. last[msg.key] = Window \/ 2^(c + 1) <= last[msg.key] + 0 + 1
      BY DEF EntryOK
    <3>2. delay >= 2^(c + 1) /\ delay \in Nat
      BY <1>3, <1>5 DEF MaxDelay
    <3>3. last[msg.key] = Window \/ 2^((c + 1) + 1) <= last[msg.key] + delay + 1
      BY <1>3, <3>1, <3>2
    <3> QED BY <1>7, <3>3
  <2> QED BY <2>1, <2>2, <2>3 DEF EntryOK
<1> QED BY <1>7, <1>8, <1>9 DEF new

-----------------------------------------------------------------------------
(* The steps *)

\* FloodTypeOK without what a step changes outside the list.
LEMMA TypeParts ==
  FloodTypeOK <=> /\ g_floods \in Seq(Message)
                  /\ g_nonce \in 0..MaxMine
                  /\ shown \subseteq Key
                  /\ lastShown \in [Key -> 0..Window]
                  /\ TablesOK
                  /\ sent \subseteq VoisinTlv \cup DataTlv \cup AckTlv
BY DEF FloodTypeOK, TablesOK

\* A Data TLV, of a message in the list or of a new one.
LEMMA DataKeepsInv ==
  ASSUME FloodInv, NEW src \in IpPort, NEW key \in KeysAbroad, ApplyTlvData(src, key)
  PROVE  FloodInv'
<1>1. /\ FloodTypeOK /\ TablesOK /\ TablesDisjoint
      /\ ListOK(g_floods, lastShown, g_nonce) /\ AbsentOK(g_floods, lastShown)
  BY TypeParts DEF FloodInv
<1>2. key \in Key /\ (key.id = MyId => key.nonce <= g_nonce)
  BY DEF KeysAbroad
<1>3. /\ UNCHANGED <<g_neighbours, g_environs, uptime, rounds, g_nonce>>
      /\ sent' = {[dest |-> src, type |-> "ack", key |-> key]}
  BY DEF ApplyTlvData
<1>4. sent' \subseteq AckTlv
  BY <1>2, <1>3 DEF AckTlv
<1>5. (TablesOK /\ TablesDisjoint)'
  BY <1>1, <1>3, QuietKeepsTables
<1>6. ContainsMessage(key) <=> HasKey(g_floods, key)
  BY <1>1 DEF ContainsMessage, HasKey, ListOK
<1>7. CASE ~ContainsMessage(key)
  <2> DEFINE msg == CreateMessage(key)
  <2>1. /\ g_floods' = InsertMessage(g_floods, msg)
        /\ shown' = {key}
        /\ lastShown' = [lastShown EXCEPT ![key] = 0]
    BY <1>7 DEF ApplyTlvData
  <2>2. /\ msg \in Message /\ msg.key = key /\ msg.count = 0 /\ msg.send_time = 1
        /\ \A p \in DOMAIN msg.recipient : msg.recipient[p] = 0
    BY <1>1, <1>2, CreateMessageOK DEF TablesOK
  <2> HIDE DEF msg
  <2>3. /\ lastShown' \in [Key -> 0..Window]
        /\ lastShown'[key] = 0
        /\ \A k \in Key \ {key} : lastShown'[k] = lastShown[k]
    BY <1>1, <1>2, <2>1, Bounds DEF FloodTypeOK
  <2>4. EntryOK(msg, lastShown', g_nonce)
    <3>1. 2^(msg.count + 1) <= lastShown'[msg.key] + msg.send_time + 1
      BY <2>2, <2>3, Bounds
    <3> QED BY <1>2, <2>2, <3>1 DEF EntryOK
  <2>5. ListOK(g_floods, lastShown', g_nonce)
    <3>1. ASSUME NEW i \in 1..Len(g_floods)
          PROVE  EntryOK(g_floods[i], lastShown', g_nonce)
      <4>1. g_floods[i].key \in Key \ {key}
        BY <1>1, <1>6, <1>7, SendTimeIsNat DEF ListOK, HasKey, Message
      <4> QED BY <1>1, <2>3, <4>1 DEF ListOK, EntryOK
    <3> QED BY <1>1, <3>1 DEF ListOK
  <2>6. /\ ListOK(g_floods', lastShown', g_nonce)
        /\ \A k : HasKey(g_floods', k) <=> HasKey(g_floods, k) \/ k = key
    BY <1>6, <1>7, <2>1, <2>2, <2>4, <2>5, InsertKeepsList
  <2>7. AbsentOK(g_floods', lastShown')
    BY <1>1, <2>3, <2>6 DEF AbsentOK
  <2>8. FloodTypeOK'
    <3>1. g_floods' \in Seq(Message)
      BY <2>6 DEF ListOK
    <3>2. g_nonce' \in 0..MaxMine /\ shown' \subseteq Key
      BY <1>1, <1>2, <1>3, <2>1 DEF FloodTypeOK
    <3> QED BY <1>4, <1>5, <2>3, <3>1, <3>2, TypeParts DEF FloodTypeOK, TablesOK
  <2> QED BY <1>3, <1>5, <2>6, <2>7, <2>8 DEF FloodInv
<1>8. CASE ContainsMessage(key)
  <2>1. /\ g_floods' = RemoveSender(src, key)
        /\ shown' = {}
        /\ UNCHANGED lastShown
    BY <1>8 DEF ApplyTlvData
  <2>2. FirstOf(key) \in 1..Len(g_floods)
    BY <1>1, <1>8, FirstOfFound DEF ListOK
  <2>3. /\ ListOK(g_floods', lastShown, g_nonce)
        /\ \A k : HasKey(g_floods', k) <=> HasKey(g_floods, k)
    <3>1. g_floods' = [g_floods EXCEPT
                         ![FirstOf(key)] = StruckOff(g_floods[FirstOf(key)], src)]
      BY <2>1 DEF RemoveSender
    <3> QED BY <1>1, <2>2, <3>1, RemoveSenderOK
  <2>4. AbsentOK(g_floods', lastShown)
    BY <1>1, <2>3 DEF AbsentOK
  <2>5. FloodTypeOK'
    <3>1. g_floods' \in Seq(Message)
      BY <2>3 DEF ListOK
    <3> QED BY <1>1, <1>3, <1>4, <1>5, <2>1, <3>1 DEF FloodTypeOK, TablesOK
  <2> QED BY <1>3, <1>5, <2>1, <2>3, <2>4, <2>5 DEF FloodInv
<1> QED BY <1>7, <1>8

\* An Ack.
LEMMA AckKeepsInv ==
  ASSUME FloodInv, NEW src \in IpPort, NEW key \in Key, ApplyTlvAck(src, key)
  PROVE  FloodInv'
<1>1. /\ FloodTypeOK /\ TablesOK /\ TablesDisjoint
      /\ ListOK(g_floods, lastShown, g_nonce) /\ AbsentOK(g_floods, lastShown)
  BY TypeParts DEF FloodInv
<1>2. /\ ContainsMessage(key)
      /\ g_floods' = RemoveSender(src, key)
      /\ sent' = {} /\ shown' = {}
      /\ UNCHANGED <<g_neighbours, g_environs, uptime, rounds, g_nonce, lastShown>>
  BY DEF ApplyTlvAck
<1>3. FirstOf(key) \in 1..Len(g_floods)
  BY <1>1, <1>2, FirstOfFound DEF ListOK
<1>4. /\ ListOK(g_floods', lastShown, g_nonce)
      /\ \A k : HasKey(g_floods', k) <=> HasKey(g_floods, k)
  <2>1. g_floods' = [g_floods EXCEPT
                       ![FirstOf(key)] = StruckOff(g_floods[FirstOf(key)], src)]
    BY <1>2 DEF RemoveSender
  <2> QED BY <1>1, <1>3, <2>1, RemoveSenderOK
<1>5. AbsentOK(g_floods', lastShown)
  BY <1>1, <1>4 DEF AbsentOK
<1>6. (TablesOK /\ TablesDisjoint)'
  BY <1>1, <1>2, QuietKeepsTables
<1>7. FloodTypeOK'
  <2>1. g_floods' \in Seq(Message)
    BY <1>4 DEF ListOK
  <2> QED BY <1>1, <1>2, <1>6, <2>1 DEF FloodTypeOK, TablesOK
<1> QED BY <1>2, <1>4, <1>5, <1>6, <1>7 DEF FloodInv

\* A message of this node: its nonce is in no key of the list.
LEMMA MineKeepsInv ==
  ASSUME FloodInv, AddMyMessage
  PROVE  FloodInv'
<1> DEFINE key == [id |-> MyId, nonce |-> g_nonce + 1]
           msg == CreateMessage(key)
<1>1. /\ FloodTypeOK /\ TablesOK /\ TablesDisjoint
      /\ ListOK(g_floods, lastShown, g_nonce) /\ AbsentOK(g_floods, lastShown)
  BY TypeParts DEF FloodInv
<1>2. /\ g_nonce < MaxMine
      /\ g_nonce' = g_nonce + 1
      /\ g_floods' = InsertMessage(g_floods, msg)
      /\ sent' = {} /\ shown' = {}
      /\ UNCHANGED <<g_neighbours, g_environs, uptime, rounds, lastShown>>
  BY DEF AddMyMessage
<1>3. g_nonce \in Nat /\ g_nonce + 1 \in 0..MaxMine /\ g_nonce + 1 \in Nonce
  BY <1>1, <1>2, InondationAssumption DEF FloodTypeOK, Nonce
<1>4. key \in Key
  BY <1>3, VoisinAssumption DEF Key
<1>5. ~HasKey(g_floods, key)
  BY <1>1, <1>3 DEF ListOK, EntryOK, HasKey
<1>6. /\ msg \in Message /\ msg.key = key /\ msg.count = 0 /\ msg.send_time = 1
      /\ \A p \in DOMAIN msg.recipient : msg.recipient[p] = 0
  BY <1>1, <1>4, CreateMessageOK DEF TablesOK
<1> HIDE DEF msg
<1>7. EntryOK(msg, lastShown, g_nonce + 1)
  <2>1. lastShown[key] = Window
    BY <1>1, <1>4, <1>5 DEF AbsentOK
  <2>2. key.nonce <= g_nonce + 1
    BY <1>3
  <2> HIDE DEF key
  <2> QED BY <1>6, <2>1, <2>2 DEF EntryOK
<1>8. ListOK(g_floods, lastShown, g_nonce + 1)
  <2>1. ASSUME NEW i \in 1..Len(g_floods)
        PROVE  EntryOK(g_floods[i], lastShown, g_nonce + 1)
    <3>1. EntryOK(g_floods[i], lastShown, g_nonce)
      BY <1>1 DEF ListOK
    <3>2. g_floods[i].key.nonce \in Nat
      <4>1. g_floods[i] \in Message
        BY <1>1, SendTimeIsNat DEF ListOK
      <4>2. g_floods[i].key \in Key
        BY <4>1 DEF Message
      <4> QED BY <4>2, InondationAssumption DEF Key, Nonce
    <3> QED BY <1>3, <3>1, <3>2 DEF EntryOK
  <2> QED BY <1>1, <2>1 DEF ListOK
<1> HIDE DEF key
<1>9. /\ ListOK(g_floods', lastShown, g_nonce + 1)
      /\ \A k : HasKey(g_floods', k) <=> HasKey(g_floods, k) \/ k = key
  BY <1>2, <1>5, <1>6, <1>7, <1>8, InsertKeepsList
<1>10. AbsentOK(g_floods', lastShown)
  BY <1>1, <1>9 DEF AbsentOK
<1>11. (TablesOK /\ TablesDisjoint)'
  BY <1>1, <1>2, QuietKeepsTables
<1>12. FloodTypeOK'
  <2>1. g_floods' \in Seq(Message)
    BY <1>9 DEF ListOK
  <2> QED BY <1>1, <1>2, <1>3, <1>11, <2>1 DEF FloodTypeOK, TablesOK
<1> QED BY <1>2, <1>9, <1>10, <1>11, <1>12 DEF FloodInv

\* What a step of launch_flood finds at the head of the list.
LEMMA HeadOK ==
  ASSUME FloodInv, Due
  PROVE  /\ g_floods \in Seq(Message) /\ g_floods # <<>>
         /\ Head(g_floods) \in Message
         /\ Head(g_floods).send_time = 0
         /\ Head(g_floods).key \in Key
         /\ EntryOK(Head(g_floods), lastShown, g_nonce)
         /\ lastShown[Head(g_floods).key] \in 0..Window
         /\ DOMAIN Head(g_floods).recipient \subseteq IpPort
<1>1. g_floods \in Seq(Message) /\ g_floods # <<>> /\ Head(g_floods).send_time = 0
  BY DEF FloodInv, ListOK, Due
<1>2. 1 \in 1..Len(g_floods) /\ Head(g_floods) = g_floods[1]
  BY <1>1
<1>3. Head(g_floods) \in Message
  BY <1>1, <1>2
<1>4. /\ Head(g_floods).key \in Key
      /\ Head(g_floods).recipient \in UNION {[R -> Sends] : R \in SUBSET IpPort}
  BY <1>3 DEF Message
<1>5. EntryOK(Head(g_floods), lastShown, g_nonce)
  BY <1>2 DEF FloodInv, ListOK
<1>6. lastShown[Head(g_floods).key] \in 0..Window
  BY <1>4 DEF FloodInv, FloodTypeOK
<1>7. DOMAIN Head(g_floods).recipient \subseteq IpPort
  BY <1>4, RecipientType
<1> QED BY <1>1, <1>3, <1>4, <1>5, <1>6, <1>7

\* A turn of flooding.
LEMMA FloodDataKeepsInv ==
  ASSUME FloodInv, FloodData
  PROVE  FloodInv'
<1> DEFINE msg == Head(g_floods)
<1>1. /\ FloodTypeOK /\ TablesOK /\ TablesDisjoint
      /\ ListOK(g_floods, lastShown, g_nonce) /\ AbsentOK(g_floods, lastShown)
  BY TypeParts DEF FloodInv
<1>2. /\ Due /\ ~Exhausted(msg)
      /\ sent' = {[dest |-> p, type |-> "data", key |-> msg.key] :
                    p \in {q \in DOMAIN msg.recipient : IsSymetric(q)}}
      /\ shown' = {}
      /\ UNCHANGED <<g_neighbours, g_environs, uptime, rounds, g_nonce, lastShown>>
  BY DEF FloodData
<1>3. PICK delay \in 2^(msg.count + 1) .. 2^(msg.count + 2) - 1 :
        g_floods' = InsertMessage(Tail(g_floods), Flooded(msg, delay))
  BY DEF FloodData
<1>4. /\ msg \in Message /\ msg.send_time = 0 /\ msg.key \in Key
      /\ EntryOK(msg, lastShown, g_nonce)
      /\ lastShown[msg.key] \in 0..Window
      /\ DOMAIN msg.recipient \subseteq IpPort
      /\ g_floods # <<>>
  BY <1>2, HeadOK
<1>5. /\ ListOK(Tail(g_floods), lastShown, g_nonce)
      /\ \A k : HasKey(g_floods, k) <=> HasKey(Tail(g_floods), k) \/ k = msg.key
      /\ ~HasKey(Tail(g_floods), msg.key)
  BY <1>1, <1>4, TailKeepsList
<1> HIDE DEF msg
<1> DEFINE new == Flooded(msg, delay)
<1>6. /\ new \in Message /\ new.key = msg.key
      /\ EntryOK(new, lastShown, g_nonce)
  BY <1>2, <1>4, FloodedOK, Bounds
<1> HIDE DEF new
<1>7. /\ ListOK(g_floods', lastShown, g_nonce)
      /\ \A k : HasKey(g_floods', k) <=> HasKey(Tail(g_floods), k) \/ k = msg.key
  BY <1>3, <1>5, <1>6, InsertKeepsList DEF new
<1>8. AbsentOK(g_floods', lastShown)
  BY <1>1, <1>5, <1>7 DEF AbsentOK
<1>9. sent' \subseteq DataTlv
  BY <1>2, <1>4 DEF DataTlv
<1>10. (TablesOK /\ TablesDisjoint)'
  BY <1>1, <1>2, QuietKeepsTables
<1>11. FloodTypeOK'
  <2>1. g_floods' \in Seq(Message)
    BY <1>7 DEF ListOK
  <2> QED BY <1>1, <1>2, <1>9, <1>10, <2>1 DEF FloodTypeOK, TablesOK
<1> QED BY <1>2, <1>7, <1>8, <1>10, <1>11 DEF FloodInv

\* The last turn: the recipients left are demoted, the message goes.
LEMMA FloodGoAwayKeepsInv ==
  ASSUME FloodInv, FloodGoAway
  PROVE  FloodInv'
<1> DEFINE msg == Head(g_floods)
           R == DOMAIN msg.recipient
<1>1. /\ FloodTypeOK /\ TablesOK /\ TablesDisjoint
      /\ ListOK(g_floods, lastShown, g_nonce) /\ AbsentOK(g_floods, lastShown)
  BY TypeParts DEF FloodInv
<1>2. /\ Due /\ Exhausted(msg)
      /\ FromNeighboursToEnv(R)
      /\ sent' = GoAways(R, 2)
      /\ g_floods' = Tail(g_floods)
      /\ shown' = {}
      /\ UNCHANGED <<uptime, rounds, g_nonce, lastShown>>
  BY DEF FloodGoAway, UpdateNeighbours
<1>3. /\ msg \in Message /\ msg.send_time = 0 /\ msg.key \in Key
      /\ EntryOK(msg, lastShown, g_nonce)
      /\ lastShown[msg.key] \in 0..Window
      /\ R \in SUBSET IpPort
      /\ g_floods # <<>>
  BY <1>2, HeadOK
<1>4. /\ ListOK(g_floods', lastShown, g_nonce)
      /\ \A k : HasKey(g_floods, k) <=> HasKey(g_floods', k) \/ k = msg.key
  BY <1>1, <1>2, <1>3, TailKeepsList
<1>5. (TablesOK /\ TablesDisjoint)'
  <2>1. RoundsOK'
    BY <1>1, <1>2 DEF TablesOK, RoundsOK, rounds
  <2> QED BY <1>1, <1>2, <1>3, <2>1, DemotionKeepsTables
<1>6. sent' \subseteq VoisinTlv
  BY <1>2, <1>3, GoAwaysType DEF GoAwayCode
<1> HIDE DEF msg
<1>7. lastShown[msg.key] = Window
  <2>1. msg.count = COUNT_INOND + 1
    BY <1>2, <1>3, Bounds DEF Exhausted, Message, Sends
  <2>2. msg.count + 1 = COUNT_INOND + 2
    BY <2>1, Bounds
  <2>3. 2^(COUNT_INOND + 2) \in Nat
    BY Bounds, Powers
  <2>4. lastShown[msg.key] = Window \/ 2^(COUNT_INOND + 2) <= lastShown[msg.key] + 0 + 1
    BY <1>3, <2>2 DEF EntryOK
  <2> QED BY <1>3, <2>3, <2>4 DEF Window
<1>8. AbsentOK(g_floods', lastShown)
  BY <1>1, <1>4, <1>7 DEF AbsentOK
<1>9. FloodTypeOK'
  <2>1. g_floods' \in Seq(Message)
    BY <1>4 DEF ListOK
  <2> QED BY <1>1, <1>2, <1>5, <1>6, <2>1 DEF FloodTypeOK, TablesOK
<1> QED BY <1>2, <1>4, <1>5, <1>8, <1>9 DEF FloodInv

\* A second.
LEMMA SecondKeepsInv ==
  ASSUME FloodInv, Second
  PROVE  FloodInv'
<1>1. /\ FloodTypeOK /\ TablesOK /\ TablesDisjoint
      /\ ListOK(g_floods, lastShown, g_nonce) /\ AbsentOK(g_floods, lastShown)
  BY TypeParts DEF FloodInv
<1>2. /\ Tick
      /\ g_floods' = [i \in DOMAIN g_floods |-> Sooner(g_floods[i])]
      /\ shown' = {}
      /\ lastShown' = [k \in Key |->
           IF lastShown[k] < Window THEN lastShown[k] + 1 ELSE Window]
      /\ UNCHANGED g_nonce
  BY DEF Second
<1>3. /\ (TablesOK /\ TablesDisjoint)'
      /\ sent' \subseteq VoisinTlv
  BY <1>1, <1>2, TickKeepsInv
<1>4. ASSUME NEW msg \in Message
      PROVE  /\ Sooner(msg) \in Message
             /\ Sooner(msg).key = msg.key
             /\ Sooner(msg).count = msg.count
             /\ Sooner(msg).recipient = msg.recipient
             /\ Sooner(msg).send_time = IF msg.send_time = 0 THEN 0 ELSE msg.send_time - 1
             /\ msg.send_time \in Nat
  <2> DEFINE s == IF msg.send_time = 0 THEN 0 ELSE msg.send_time - 1
  <2>1. msg.send_time \in 0..MaxDelay
    BY DEF Message
  <2>2. s \in 0..MaxDelay /\ msg.send_time \in Nat
    BY <2>1, Bounds
  <2>3. Sooner(msg) = [msg EXCEPT !.send_time = s]
    BY DEF Sooner
  <2> HIDE DEF s
  <2>4. /\ Sooner(msg) \in Message
        /\ Sooner(msg).key = msg.key
        /\ Sooner(msg).count = msg.count
        /\ Sooner(msg).recipient = msg.recipient
        /\ Sooner(msg).send_time = s
    BY <2>2, <2>3 DEF Message
  <2> QED BY <2>2, <2>4 DEF s
<1>5. g_floods \in Seq(Message) /\ DOMAIN g_floods = 1..Len(g_floods)
  BY <1>1 DEF ListOK
<1>6. /\ g_floods' \in Seq(Message)
      /\ Len(g_floods') = Len(g_floods)
      /\ \A i \in 1..Len(g_floods) :
           g_floods[i] \in Message /\ g_floods'[i] = Sooner(g_floods[i])
  BY <1>2, <1>4, <1>5
<1>7. SortedList(g_floods')
  <2>1. ASSUME NEW i \in 1..Len(g_floods), NEW j \in 1..Len(g_floods), i < j
        PROVE  g_floods'[i].send_time <= g_floods'[j].send_time
    <3>1. g_floods[i].send_time <= g_floods[j].send_time
      BY <1>1, <2>1 DEF ListOK, SortedList
    <3> QED BY <1>4, <1>6, <3>1
  <2> QED BY <1>6, <2>1 DEF SortedList
<1>8. lastShown' \in [Key -> 0..Window]
  BY <1>1, <1>2, Bounds DEF FloodTypeOK
<1>9. ASSUME NEW i \in 1..Len(g_floods)
      PROVE  EntryOK(g_floods'[i], lastShown', g_nonce)
  <2> DEFINE m == g_floods[i]
             k == m.key
  <2>1. EntryOK(m, lastShown, g_nonce) /\ m \in Message /\ k \in Key
    BY <1>1, <1>6 DEF ListOK, Message
  <2>2. /\ lastShown[k] \in 0..Window
        /\ lastShown'[k] = IF lastShown[k] < Window THEN lastShown[k] + 1 ELSE Window
    BY <1>1, <1>2, <2>1 DEF FloodTypeOK
  <2>3. /\ g_floods'[i].key = k
        /\ g_floods'[i].count = m.count
        /\ g_floods'[i].recipient = m.recipient
        /\ g_floods'[i].send_time = IF m.send_time = 0 THEN 0 ELSE m.send_time - 1
        /\ m.send_time \in Nat
    BY <1>4, <1>6
  <2>4. 2^(m.count + 1) \in Nat
    <3>1. m.count + 1 \in 0..(COUNT_INOND + 2)
      BY <2>1, Bounds DEF Message, Sends
    <3> QED BY <3>1, Powers
  <2> HIDE DEF k, m
  <2>5. \/ lastShown'[k] = Window
        \/ 2^(m.count + 1) <= lastShown'[k] + g_floods'[i].send_time + 1
    <3>1. lastShown[k] = Window \/ 2^(m.count + 1) <= lastShown[k] + m.send_time + 1
      BY <2>1 DEF EntryOK, k
    <3> QED BY <2>2, <2>3, <2>4, <3>1, Bounds
  <2> QED BY <2>1, <2>3, <2>5 DEF EntryOK, k
<1>10. /\ ListOK(g_floods', lastShown', g_nonce)
       /\ \A k : HasKey(g_floods', k) <=> HasKey(g_floods, k)
  <2>1. \A i \in 1..Len(g_floods) : g_floods'[i].key = g_floods[i].key
    BY <1>4, <1>6
  <2> QED BY <1>1, <1>6, <1>7, <1>9, <2>1 DEF ListOK, UniqueKeys, HasKey
<1>11. AbsentOK(g_floods', lastShown')
  BY <1>1, <1>2, <1>10, Bounds DEF AbsentOK
<1>12. FloodTypeOK'
  BY <1>1, <1>2, <1>3, <1>6, <1>8 DEF FloodTypeOK, TablesOK
<1> QED BY <1>2, <1>3, <1>10, <1>11, <1>12 DEF FloodInv

\* The handlers and threads that leave the list alone.
LEMMA TablesKeepsInv ==
  ASSUME FloodInv, Tables
  PROVE  FloodInv'
<1>1. FloodTypeOK /\ TablesOK /\ TablesDisjoint
  BY TypeParts DEF FloodInv
<1>2. TableStep /\ shown' = {} /\ UNCHANGED <<g_floods, g_nonce, lastShown>>
  BY DEF Tables
<1>3. /\ (TablesOK /\ TablesDisjoint)'
      /\ sent' \subseteq VoisinTlv
  BY <1>1, <1>2, TableStepKeepsInv
<1>4. FloodTypeOK'
  BY <1>1, <1>2, <1>3 DEF FloodTypeOK, TablesOK
<1> QED BY <1>2, <1>3, <1>4 DEF FloodInv

-----------------------------------------------------------------------------
(* Theorems *)

LEMMA InitHasInv == InondationInit => FloodInv
<1> SUFFICES ASSUME InondationInit PROVE FloodInv
  OBVIOUS
<1>1. /\ Init /\ g_floods = <<>> /\ g_nonce = 0 /\ shown = {}
      /\ lastShown = [k \in Key |-> Window]
  BY DEF InondationInit
<1>2. TablesOK /\ TablesDisjoint /\ sent = {}
  BY <1>1, VoisinInitHasInv
<1>3. /\ ListOK(g_floods, lastShown, g_nonce)
      /\ AbsentOK(g_floods, lastShown)
  BY <1>1 DEF ListOK, AbsentOK, SortedList, UniqueKeys
<1>4. FloodTypeOK
  BY <1>1, <1>2, <1>3, Bounds, InondationAssumption DEF FloodTypeOK, TablesOK, ListOK
<1> QED BY <1>2, <1>3, <1>4 DEF FloodInv

LEMMA NextKeepsInv == FloodInv /\ [InondationNext]_vars => FloodInv'
<1> SUFFICES ASSUME FloodInv, [InondationNext]_vars PROVE FloodInv'
  OBVIOUS
<1>1. CASE UNCHANGED vars
  BY <1>1 DEF vars, floodVars, tableVars, rounds, FloodInv, FloodTypeOK, RoundsOK,
              TablesDisjoint
<1>2. CASE Second
  BY <1>2, SecondKeepsInv
<1>3. CASE Tables
  BY <1>3, TablesKeepsInv
<1>4. ASSUME NEW src \in IpPort, NEW key \in KeysAbroad, ApplyTlvData(src, key)
      PROVE  FloodInv'
  BY <1>4, DataKeepsInv
<1>5. ASSUME NEW src \in IpPort, NEW key \in Key, ApplyTlvAck(src, key)
      PROVE  FloodInv'
  BY <1>5, AckKeepsInv
<1>6. CASE AddMyMessage
  BY <1>6, MineKeepsInv
<1>7. CASE LaunchFlood
  BY <1>7, FloodDataKeepsInv, FloodGoAwayKeepsInv DEF LaunchFlood
<1> QED BY <1>1, <1>2, <1>3, <1>4, <1>5, <1>6, <1>7 DEF InondationNext

\* The inductive invariant of the flooding: the types, the tables as in Voisin,
\* and a list that is sorted, without duplicates, whose entries agree with
\* the history of the displays.
THEOREM FloodInvariant == InondationSpec => []FloodInv
BY InitHasInv, NextKeepsInv, PTL DEF InondationSpec

\* Type correctness of the list and the tables.
THEOREM FloodTypes == InondationSpec => []FloodTypeOK
BY FloodInvariant, FloodInvImplies, PTL

\* The list is always in the order of its due dates.
THEOREM ListIsSorted == InondationSpec => []Sorted
BY FloodInvariant, FloodInvImplies, PTL

\* A message never has two entries, the user's own messages included.
THEOREM NoDuplicateEntry == InondationSpec => []OneEntryPerMessage
BY FloodInvariant, FloodInvImplies, PTL

\* A recipient left has been sent the message at every turn.
THEOREM SendsAreCounted == InondationSpec => []SendsMatchCount
BY FloodInvariant, FloodInvImplies, PTL

\* The next nonce of this node names no message of the list.
THEOREM NextNonceIsFree == InondationSpec => []OwnNoncesInUse
BY FloodInvariant, FloodInvImplies, PTL

\* The turns of a message account for the time since it was displayed.
THEOREM TurnsAccountForTime == InondationSpec => []TurnsTakeTime
BY FloodInvariant, FloodInvImplies, PTL

\* No message is displayed twice within Window seconds.
THEOREM NoEarlyRepeat == InondationSpec => NotShownTwiceWithin
<1>1. FloodInv /\ [InondationNext]_vars =>
        [ \A key \in shown' : lastShown[key] = Window ]_vars
  <2> SUFFICES ASSUME FloodInv, InondationNext, NEW key \in shown'
               PROVE  lastShown[key] = Window
    BY DEF vars
  <2>1. PICK src \in IpPort : key \in KeysAbroad /\ ApplyTlvData(src, key)
    BY DEF InondationNext, Second, Tables, ApplyTlvData, ApplyTlvAck, AddMyMessage,
           LaunchFlood, FloodData, FloodGoAway
  <2>2. key \in Key /\ ~ContainsMessage(key)
    BY <2>1 DEF ApplyTlvData, KeysAbroad
  <2>3. TurnsTakeTime
    BY FloodInvImplies
  <2> QED BY <2>2, <2>3 DEF TurnsTakeTime
<1> QED BY <1>1, FloodInvariant, PTL DEF InondationSpec, NotShownTwiceWithin

\* Flooding demotes only a neighbour that every turn has sent the message to.
THEOREM DemotedOnlyAfterAllSends == InondationSpec => DemotedAfterAllSends
<1>1. FloodInv /\ [InondationNext]_vars =>
        [ \A p \in DOMAIN g_neighbours :
            LaunchFlood /\ p \notin DOMAIN g_neighbours' =>
              Head(g_floods).recipient[p] = COUNT_INOND + 1 ]_vars
  <2> SUFFICES ASSUME FloodInv, NEW p \in DOMAIN g_neighbours,
                      LaunchFlood, p \notin DOMAIN g_neighbours'
               PROVE  Head(g_floods).recipient[p] = COUNT_INOND + 1
    OBVIOUS
  <2> DEFINE msg == Head(g_floods)
  <2>1. Due /\ Exhausted(msg) /\ FromNeighboursToEnv(DOMAIN msg.recipient)
    BY DEF LaunchFlood, FloodData, FloodGoAway, UpdateNeighbours
  <2>2. msg \in Message /\ EntryOK(msg, lastShown, g_nonce)
    BY <2>1, HeadOK
  <2>3. p \in DOMAIN msg.recipient
    BY <2>1 DEF FromNeighboursToEnv, RemoveKeys
  <2> HIDE DEF msg
  <2>4. msg.count = COUNT_INOND + 1
    BY <2>1, <2>2, Bounds DEF Exhausted, Message, Sends
  <2>5. msg.recipient[p] = COUNT_INOND + 1
    BY <2>2, <2>3, <2>4 DEF EntryOK
  <2> QED BY <2>5 DEF msg
<1> QED BY <1>1, FloodInvariant, PTL DEF InondationSpec, DemotedAfterAllSends

-----------------------------------------------------------------------------
(* The addresses a list still has to flood with a key *)

LEMMA RecipientsAre ==
  ASSUME NEW list \in Seq(Message), NEW key, NEW p
  PROVE  p \in Recipients(list, key)
           <=> \E j \in 1..Len(list) :
                 list[j].key = key /\ p \in DOMAIN list[j].recipient
BY DEF Recipients

LEMMA RecipientsOfEntry ==
  ASSUME NEW list \in Seq(Message), UniqueKeys(list), NEW i \in 1..Len(list)
  PROVE  Recipients(list, list[i].key) = DOMAIN list[i].recipient
<1>1. ASSUME NEW p
      PROVE  p \in Recipients(list, list[i].key) <=> p \in DOMAIN list[i].recipient
  BY RecipientsAre DEF UniqueKeys
<1> QED BY <1>1

\* The list's image in Diffusion, without the position FirstOf stops at.
Remembered(list) ==
  [key \in {list[i].key : i \in DOMAIN list} |-> Recipients(list, key)]

LEMMA RememberedIs == FloodInv => Owing = Remembered(g_floods)
<1> SUFFICES ASSUME FloodInv,
                    NEW key \in {g_floods[i].key : i \in DOMAIN g_floods}
             PROVE  DOMAIN g_floods[FirstOf(key)].recipient = Recipients(g_floods, key)
  BY DEF Remembered, Owing
<1>1. g_floods \in Seq(Message) /\ UniqueKeys(g_floods)
  BY DEF FloodInv, ListOK
<1>2. FirstOf(key) \in 1..Len(g_floods) /\ g_floods[FirstOf(key)].key = key
  BY <1>1, FirstOfFound DEF ContainsMessage
<1> QED BY <1>1, <1>2, RecipientsOfEntry

\* How the image of a list follows its changes.
LEMMA RememberedKeys ==
  ASSUME NEW list \in Seq(Message)
  PROVE  /\ \A key : key \in DOMAIN Remembered(list) <=> HasKey(list, key)
         /\ \A key \in DOMAIN Remembered(list) :
              Remembered(list)[key] = Recipients(list, key)
         /\ Remembered(list) = [key \in DOMAIN Remembered(list) |-> Recipients(list, key)]
BY DEF Remembered, HasKey

LEMMA InsertHasKey ==
  ASSUME NEW list \in Seq(Message), NEW msg \in Message, NEW key
  PROVE  HasKey(InsertMessage(list, msg), key) <=> HasKey(list, key) \/ key = msg.key
<1> DEFINE new == InsertMessage(list, msg)
<1>1. /\ \A i \in 1..Len(new) :
            new[i] = msg \/ \E j \in 1..Len(list) : new[i] = list[j]
      /\ \E i \in 1..Len(new) : new[i] = msg
      /\ \A j \in 1..Len(list) : \E i \in 1..Len(new) : new[i] = list[j]
  BY InsertContents
<1> HIDE DEF new
<1>2. HasKey(new, key) <=> HasKey(list, key) \/ key = msg.key
  BY <1>1 DEF HasKey
<1> QED BY <1>2 DEF new

LEMMA InsertRecipients ==
  ASSUME NEW list \in Seq(Message), NEW msg \in Message, ~HasKey(list, msg.key)
  PROVE  LET new == InsertMessage(list, msg)
         IN  /\ Recipients(new, msg.key) = DOMAIN msg.recipient
             /\ \A key : key # msg.key => Recipients(new, key) = Recipients(list, key)
<1> DEFINE new == InsertMessage(list, msg)
<1>1. new \in Seq(Message)
  BY InsertElements
<1>2. /\ \A i \in 1..Len(new) :
            new[i] = msg \/ \E j \in 1..Len(list) : new[i] = list[j]
      /\ \E i \in 1..Len(new) : new[i] = msg
      /\ \A j \in 1..Len(list) : \E i \in 1..Len(new) : new[i] = list[j]
  BY InsertContents
<1> HIDE DEF new
<1>3. ASSUME NEW p
      PROVE  p \in Recipients(new, msg.key) <=> p \in DOMAIN msg.recipient
  <2>1. p \in Recipients(new, msg.key)
          <=> \E j \in 1..Len(new) :
                new[j].key = msg.key /\ p \in DOMAIN new[j].recipient
    BY <1>1, RecipientsAre
  <2>2. \A j \in 1..Len(new) : new[j].key = msg.key => new[j] = msg
    BY <1>2 DEF HasKey
  <2> QED BY <1>2, <2>1, <2>2
<1>4. Recipients(new, msg.key) = DOMAIN msg.recipient
  BY <1>3
<1>5. ASSUME NEW key, key # msg.key
      PROVE  Recipients(new, key) = Recipients(list, key)
  <2>1. ASSUME NEW p \in Recipients(new, key)
        PROVE  p \in Recipients(list, key)
    <3>1. PICK i \in 1..Len(new) : new[i].key = key /\ p \in DOMAIN new[i].recipient
      BY <1>1, <2>1, RecipientsAre
    <3>2. PICK j \in 1..Len(list) : new[i] = list[j]
      BY <1>2, <1>5, <3>1
    <3> QED BY <3>1, <3>2, RecipientsAre
  <2>2. ASSUME NEW p \in Recipients(list, key)
        PROVE  p \in Recipients(new, key)
    <3>1. PICK j \in 1..Len(list) : list[j].key = key /\ p \in DOMAIN list[j].recipient
      BY <2>2, RecipientsAre
    <3>2. PICK i \in 1..Len(new) : new[i] = list[j]
      BY <1>2, <3>1
    <3> QED BY <1>1, <3>1, <3>2, RecipientsAre
  <2> QED BY <2>1, <2>2
<1> QED BY <1>4, <1>5 DEF new

LEMMA TailRecipients ==
  ASSUME NEW list \in Seq(Message), list # <<>>, NEW key, key # Head(list).key
  PROVE  Recipients(Tail(list), key) = Recipients(list, key)
<1>1. /\ Tail(list) \in Seq(Message)
      /\ Len(Tail(list)) = Len(list) - 1
      /\ \A i \in 1..(Len(list) - 1) : Tail(list)[i] = list[i + 1]
  BY TailKeeps
<1>2. Len(list) \in Nat \ {0} /\ Head(list) = list[1]
  OBVIOUS
<1>3. ASSUME NEW p, NEW j \in 1..Len(list),
             list[j].key = key, p \in DOMAIN list[j].recipient
      PROVE  p \in Recipients(Tail(list), key)
  <2>1. j - 1 \in 1..Len(Tail(list)) /\ Tail(list)[j - 1] = list[j]
    <3>1. j # 1
      BY <1>2, <1>3
    <3>2. j - 1 \in 1..(Len(list) - 1) /\ (j - 1) + 1 = j
      BY <1>2, <3>1
    <3> QED BY <1>1, <3>2
  <2> QED BY <1>1, <1>3, <2>1, RecipientsAre
<1>4. ASSUME NEW p, NEW j \in 1..Len(Tail(list)),
             Tail(list)[j].key = key, p \in DOMAIN Tail(list)[j].recipient
      PROVE  p \in Recipients(list, key)
  <2>1. j + 1 \in 1..Len(list) /\ Tail(list)[j] = list[j + 1]
    BY <1>1, <1>2
  <2> QED BY <1>1, <1>4, <2>1, RecipientsAre
<1>5. ASSUME NEW p \in Recipients(Tail(list), key)
      PROVE  p \in Recipients(list, key)
  <2>1. PICK j \in 1..Len(Tail(list)) :
          Tail(list)[j].key = key /\ p \in DOMAIN Tail(list)[j].recipient
    BY <1>1, <1>5, RecipientsAre
  <2> QED BY <1>4, <2>1
<1>6. ASSUME NEW p \in Recipients(list, key)
      PROVE  p \in Recipients(Tail(list), key)
  <2>1. PICK j \in 1..Len(list) : list[j].key = key /\ p \in DOMAIN list[j].recipient
    BY <1>6, RecipientsAre
  <2> QED BY <1>3, <2>1
<1> QED BY <1>5, <1>6

\* A list rewritten element by element whose recipients only dwindle.
LEMMA RewriteRecipients ==
  ASSUME NEW list \in Seq(Message), NEW new \in Seq(Message), Len(new) = Len(list),
         \A i \in 1..Len(list) :
           /\ new[i].key = list[i].key
           /\ DOMAIN new[i].recipient \subseteq DOMAIN list[i].recipient,
         NEW key
  PROVE  /\ Recipients(new, key) \subseteq Recipients(list, key)
         /\ (\A i \in 1..Len(list) : list[i].key = key => new[i] = list[i])
              => Recipients(new, key) = Recipients(list, key)
<1>1. ASSUME NEW p \in Recipients(new, key)
      PROVE  p \in Recipients(list, key)
  BY RecipientsAre
<1>2. ASSUME \A i \in 1..Len(list) : list[i].key = key => new[i] = list[i],
             NEW p \in Recipients(list, key)
      PROVE  p \in Recipients(new, key)
  BY <1>2, RecipientsAre
<1> QED BY <1>1, <1>2

-----------------------------------------------------------------------------
(* What each step does to the recipients of each message *)

\* What a step can do to a key: nothing, fewer recipients, a new entry, no entry.
Same(key) ==
  /\ HasKey(g_floods', key) <=> HasKey(g_floods, key)
  /\ Recipients(g_floods', key) = Recipients(g_floods, key)

Dwindles(key) ==
  /\ HasKey(g_floods, key) /\ HasKey(g_floods', key)
  /\ Recipients(g_floods', key) \subseteq Recipients(g_floods, key)

Enters(key) ==
  /\ ~HasKey(g_floods, key) /\ HasKey(g_floods', key)
  /\ Recipients(g_floods', key) \subseteq IpPort

Leaves(key) == HasKey(g_floods, key) /\ ~HasKey(g_floods', key)

OnlyKey(key) == \A k : k # key => Same(k)

\* A step forgets, strikes off, accepts, or leaves the image alone.
ImageStep ==
  \/ (\A k : Same(k)) /\ shown' = {}
  \/ \E key \in Key : /\ OnlyKey(key)
                      /\ \/ Dwindles(key) /\ shown' = {}
                         \/ Enters(key) /\ shown' \in {{}, {key}}
                         \/ Leaves(key) /\ shown' = {}

LEMMA StrikeStep ==
  ASSUME FloodInv, NEW src, NEW key \in Key, ContainsMessage(key),
         g_floods' = RemoveSender(src, key), shown' = {}
  PROVE  ImageStep
<1> DEFINE n == FirstOf(key)
<1>1. g_floods \in Seq(Message) /\ ListOK(g_floods, lastShown, g_nonce)
  BY DEF FloodInv, ListOK
<1>2. n \in 1..Len(g_floods) /\ g_floods[n].key = key
  BY <1>1, FirstOfFound
<1>3. g_floods' = [g_floods EXCEPT ![n] = StruckOff(g_floods[n], src)]
  BY DEF RemoveSender
<1> HIDE DEF n
<1>4. /\ ListOK(g_floods', lastShown, g_nonce)
      /\ \A k : HasKey(g_floods', k) <=> HasKey(g_floods, k)
  <2> DEFINE new == [g_floods EXCEPT ![n] = StruckOff(g_floods[n], src)]
  <2>1. /\ ListOK(new, lastShown, g_nonce)
        /\ \A k : HasKey(new, k) <=> HasKey(g_floods, k)
    BY <1>1, <1>2, RemoveSenderOK
  <2> HIDE DEF new
  <2>2. g_floods' = new
    BY <1>3 DEF new
  <2> QED BY <2>1, <2>2
<1>5. g_floods' \in Seq(Message)
  BY <1>4 DEF ListOK
<1>6. /\ Len(g_floods') = Len(g_floods)
      /\ \A i \in 1..Len(g_floods) :
           g_floods'[i] = IF i = n THEN StruckOff(g_floods[n], src) ELSE g_floods[i]
  BY <1>1, <1>3, <1>5
<1>7. /\ StruckOff(g_floods[n], src).key = g_floods[n].key
      /\ DOMAIN StruckOff(g_floods[n], src).recipient \subseteq DOMAIN g_floods[n].recipient
  <2>1. g_floods[n] \in Message
    BY <1>1, <1>2
  <2> QED BY <2>1 DEF StruckOff, RemoveKeys, Message
<1>8. \A i \in 1..Len(g_floods) :
        /\ g_floods'[i].key = g_floods[i].key
        /\ DOMAIN g_floods'[i].recipient \subseteq DOMAIN g_floods[i].recipient
  BY <1>6, <1>7
<1>9. Dwindles(key)
  <2>1. HasKey(g_floods, key)
    BY <1>2 DEF HasKey
  <2>2. Recipients(g_floods', key) \subseteq Recipients(g_floods, key)
    BY <1>1, <1>5, <1>6, <1>8, RewriteRecipients
  <2> QED BY <1>4, <2>1, <2>2 DEF Dwindles
<1>10. ASSUME NEW k, k # key
       PROVE  Same(k)
  <2>1. \A i \in 1..Len(g_floods) : g_floods[i].key = k => g_floods'[i] = g_floods[i]
    BY <1>2, <1>6, <1>10
  <2>2. Recipients(g_floods', k) = Recipients(g_floods, k)
    BY <1>1, <1>5, <1>6, <1>8, <2>1, RewriteRecipients
  <2> QED BY <1>4, <2>2 DEF Same
<1> QED BY <1>9, <1>10 DEF ImageStep, OnlyKey

LEMMA EnterStep ==
  ASSUME FloodInv, NEW key \in Key, ~HasKey(g_floods, key),
         g_floods' = InsertMessage(g_floods, CreateMessage(key)), shown' \in {{}, {key}}
  PROVE  ImageStep
<1> DEFINE msg == CreateMessage(key)
<1>1. g_floods \in Seq(Message) /\ g_neighbours \in Table
  BY DEF FloodInv, FloodTypeOK
<1>2. msg \in Message /\ msg.key = key
  BY <1>1, CreateMessageOK
<1> HIDE DEF msg
<1>3. g_floods' = InsertMessage(g_floods, msg)
  BY DEF msg
<1>4. /\ Recipients(g_floods', key) = DOMAIN msg.recipient
      /\ \A k : k # key => Recipients(g_floods', k) = Recipients(g_floods, k)
  BY <1>1, <1>2, <1>3, InsertRecipients
<1>5. \A k : HasKey(g_floods', k) <=> HasKey(g_floods, k) \/ k = key
  BY <1>1, <1>2, <1>3, InsertHasKey
<1>6. DOMAIN msg.recipient \subseteq IpPort
  BY <1>2, RecipientType DEF Message
<1>7. Enters(key)
  BY <1>4, <1>5, <1>6 DEF Enters
<1>8. OnlyKey(key)
  BY <1>4, <1>5 DEF OnlyKey, Same
<1> QED BY <1>7, <1>8 DEF ImageStep

LEMMA FloodStep ==
  ASSUME FloodInv, LaunchFlood
  PROVE  ImageStep
<1> DEFINE msg == Head(g_floods)
           key == msg.key
           rest == Tail(g_floods)
<1>1. /\ g_floods \in Seq(Message) /\ g_floods # <<>>
      /\ ListOK(g_floods, lastShown, g_nonce)
      /\ Due
  BY DEF FloodInv, ListOK, LaunchFlood, FloodData, FloodGoAway, Due
<1>2. /\ msg \in Message /\ key \in Key /\ msg.send_time = 0
      /\ EntryOK(msg, lastShown, g_nonce)
      /\ lastShown[key] \in 0..Window
  BY <1>1, HeadOK
<1>3. /\ rest \in Seq(Message)
      /\ \A k : HasKey(g_floods, k) <=> HasKey(rest, k) \/ k = key
      /\ ~HasKey(rest, key)
  BY <1>1, TailKeepsList DEF ListOK
<1>4. \A k : k # key => Recipients(rest, k) = Recipients(g_floods, k)
  BY <1>1, TailRecipients
<1>5. 1 \in 1..Len(g_floods) /\ g_floods[1] = msg
  BY <1>1
<1>6. Recipients(g_floods, key) = DOMAIN msg.recipient
  BY <1>1, <1>5, RecipientsOfEntry DEF ListOK
<1> HIDE DEF msg, rest
<1>7. CASE FloodData
  <2>1. PICK delay \in 2^(msg.count + 1) .. 2^(msg.count + 2) - 1 :
          g_floods' = InsertMessage(rest, Flooded(msg, delay))
    BY <1>7 DEF FloodData, msg, rest
  <2>2. ~Exhausted(msg) /\ shown' = {}
    BY <1>7 DEF FloodData, msg
  <2>3. /\ Flooded(msg, delay) \in Message
        /\ Flooded(msg, delay).key = key
    BY <1>2, <2>2, FloodedOK, Bounds
  <2>4. DOMAIN Flooded(msg, delay).recipient \subseteq DOMAIN msg.recipient
    BY DEF Flooded
  <2>5. /\ Recipients(g_floods', key) = DOMAIN Flooded(msg, delay).recipient
        /\ \A k : k # key => Recipients(g_floods', k) = Recipients(rest, k)
    BY <1>3, <2>1, <2>3, InsertRecipients
  <2>6. \A k : HasKey(g_floods', k) <=> HasKey(rest, k) \/ k = key
    BY <1>3, <2>1, <2>3, InsertHasKey
  <2>7. Dwindles(key)
    BY <1>3, <1>6, <2>4, <2>5, <2>6 DEF Dwindles
  <2>8. OnlyKey(key)
    BY <1>3, <1>4, <2>5, <2>6 DEF OnlyKey, Same
  <2> QED BY <1>2, <2>2, <2>7, <2>8 DEF ImageStep
<1>8. CASE FloodGoAway
  <2>1. g_floods' = rest /\ shown' = {}
    BY <1>8 DEF FloodGoAway, rest
  <2>2. Leaves(key)
    BY <1>3, <2>1 DEF Leaves
  <2>3. OnlyKey(key)
    BY <1>3, <1>4, <2>1 DEF OnlyKey, Same
  <2> QED BY <1>2, <2>1, <2>2, <2>3 DEF ImageStep
<1> QED BY <1>7, <1>8 DEF LaunchFlood

LEMMA SecondStep ==
  ASSUME FloodInv, Second
  PROVE  ImageStep
<1>1. g_floods \in Seq(Message) /\ DOMAIN g_floods = 1..Len(g_floods)
  BY DEF FloodInv, ListOK
<1>2. /\ g_floods' = [i \in DOMAIN g_floods |-> Sooner(g_floods[i])]
      /\ shown' = {}
  BY DEF Second
<1>3. ASSUME NEW i \in 1..Len(g_floods)
      PROVE  /\ g_floods'[i].key = g_floods[i].key
             /\ g_floods'[i].recipient = g_floods[i].recipient
  <2>1. g_floods[i] \in Message
    BY <1>1
  <2> QED BY <1>1, <1>2, <2>1 DEF Sooner, Message
<1>4. g_floods' \in Seq(Message) /\ Len(g_floods') = Len(g_floods)
  <2>1. FloodInv'
    BY SecondKeepsInv
  <2>2. DOMAIN g_floods' = 1..Len(g_floods)
    BY <1>1, <1>2
  <2>3. g_floods' \in Seq(Message)
    BY <2>1 DEF FloodInv, ListOK
  <2>4. Len(g_floods) \in Nat
    BY <1>1
  <2> QED BY <2>2, <2>3, <2>4
<1>5. ASSUME NEW k
      PROVE  Same(k)
  <2>1. HasKey(g_floods', k) <=> HasKey(g_floods, k)
    BY <1>3, <1>4 DEF HasKey
  <2>2. Recipients(g_floods', k) \subseteq Recipients(g_floods, k)
    BY <1>1, <1>3, <1>4, RewriteRecipients
  <2>3. Recipients(g_floods, k) \subseteq Recipients(g_floods', k)
    <3>1. ASSUME NEW p \in Recipients(g_floods, k)
          PROVE  p \in Recipients(g_floods', k)
      <4>1. PICK j \in 1..Len(g_floods) :
              g_floods[j].key = k /\ p \in DOMAIN g_floods[j].recipient
        BY <1>1, <3>1, RecipientsAre
      <4> QED BY <1>3, <1>4, <4>1, RecipientsAre
    <3> QED BY <3>1
  <2> QED BY <2>1, <2>2, <2>3 DEF Same
<1> QED BY <1>2, <1>5 DEF ImageStep

\* Every step of the flooding is one of these.
LEMMA NextIsImageStep ==
  ASSUME FloodInv, InondationNext
  PROVE  ImageStep
<1>1. g_floods \in Seq(Message)
  BY DEF FloodInv, ListOK
<1>2. ASSUME NEW key
      PROVE  ContainsMessage(key) <=> HasKey(g_floods, key)
  BY <1>1 DEF ContainsMessage, HasKey
<1>3. CASE Second
  BY <1>3, SecondStep
<1>4. CASE Tables
  BY <1>4 DEF Tables, ImageStep, Same
<1>5. ASSUME NEW src \in IpPort, NEW key \in KeysAbroad, ApplyTlvData(src, key)
      PROVE  ImageStep
  <2>1. key \in Key
    BY DEF KeysAbroad
  <2>2. CASE ContainsMessage(key)
    BY <1>5, <2>1, <2>2, StrikeStep DEF ApplyTlvData
  <2>3. CASE ~ContainsMessage(key)
    BY <1>2, <1>5, <2>1, <2>3, EnterStep DEF ApplyTlvData
  <2> QED BY <2>2, <2>3
<1>6. ASSUME NEW src \in IpPort, NEW key \in Key, ApplyTlvAck(src, key)
      PROVE  ImageStep
  BY <1>6, StrikeStep DEF ApplyTlvAck
<1>7. CASE AddMyMessage
  <2> DEFINE key == [id |-> MyId, nonce |-> g_nonce + 1]
  <2>1. g_nonce \in Nat /\ g_nonce + 1 \in Nonce
    BY <1>7, InondationAssumption DEF FloodInv, FloodTypeOK, AddMyMessage, Nonce
  <2>2. key \in Key
    BY <2>1, VoisinAssumption DEF Key
  <2>3. ~HasKey(g_floods, key)
    BY <2>1 DEF FloodInv, ListOK, EntryOK, HasKey
  <2>4. g_floods' = InsertMessage(g_floods, CreateMessage(key)) /\ shown' = {}
    BY <1>7 DEF AddMyMessage
  <2> HIDE DEF key
  <2> QED BY <2>2, <2>3, <2>4, EnterStep
<1>8. CASE LaunchFlood
  BY <1>8, FloodStep
<1> QED BY <1>3, <1>4, <1>5, <1>6, <1>7, <1>8 DEF InondationNext

-----------------------------------------------------------------------------
(* Theorems *)

\* Whoever is no longer a recipient of a message never becomes one again
\* while the message is in the list.
THEOREM FloodRecipientsDwindle == InondationSpec => RecipientsDwindle
<1>1. FloodInv /\ [InondationNext]_vars =>
        [ \A key \in Key :
            ContainsMessage(key) =>
              Recipients(g_floods', key) \subseteq Recipients(g_floods, key) ]_vars
  <2> SUFFICES ASSUME FloodInv, InondationNext, NEW key \in Key, ContainsMessage(key)
               PROVE  Recipients(g_floods', key) \subseteq Recipients(g_floods, key)
    BY DEF vars
  <2>1. g_floods \in Seq(Message) /\ FloodInv' /\ HasKey(g_floods, key)
    BY NextKeepsInv DEF FloodInv, ListOK, ContainsMessage, HasKey
  <2>2. g_floods' \in Seq(Message)
    BY <2>1 DEF FloodInv, ListOK
  <2>3. ASSUME ~HasKey(g_floods', key)
        PROVE  Recipients(g_floods', key) = {}
    BY <2>2, <2>3, RecipientsAre DEF HasKey
  <2>4. Same(key) \/ Dwindles(key) \/ Enters(key) \/ Leaves(key)
    BY NextIsImageStep DEF ImageStep, OnlyKey
  <2> QED BY <2>1, <2>3, <2>4 DEF Same, Dwindles, Enters, Leaves
<1> QED BY <1>1, FloodInvariant, PTL DEF InondationSpec, RecipientsDwindle

\* A step of the list is a step of Diffusion.
LEMMA ImageIsDiffusion ==
  ASSUME FloodInv, FloodInv', ImageStep
  PROVE  Diffusion!Next
<1> DEFINE now  == Remembered(g_floods)
           next == Remembered(g_floods')
<1>1. Owing = now
  BY RememberedIs
<1>2. Owing' = next
  <2>1. (FloodInv => Owing = Remembered(g_floods))'
    BY RememberedIs, PTL
  <2> QED BY <2>1
<1>3. g_floods \in Seq(Message) /\ g_floods' \in Seq(Message)
  BY DEF FloodInv, ListOK
<1>4. /\ \A k : k \in DOMAIN now <=> HasKey(g_floods, k)
      /\ \A k \in DOMAIN now : now[k] = Recipients(g_floods, k)
      /\ now = [k \in DOMAIN now |-> Recipients(g_floods, k)]
  BY <1>3, RememberedKeys
<1>5. /\ \A k : k \in DOMAIN next <=> HasKey(g_floods', k)
      /\ \A k \in DOMAIN next : next[k] = Recipients(g_floods', k)
      /\ next = [k \in DOMAIN next |-> Recipients(g_floods', k)]
  BY <1>3, RememberedKeys
<1> HIDE DEF now, next
<1>6. CASE (\A k : Same(k)) /\ shown' = {}
  <2>1. DOMAIN next = DOMAIN now
    BY <1>4, <1>5, <1>6 DEF Same
  <2>2. next = now
    BY <1>4, <1>5, <1>6, <2>1 DEF Same
  <2> QED BY <1>1, <1>2, <1>6, <2>2 DEF Diffusion!Next, Diffusion!Quiet
<1>7. ASSUME NEW key \in Key, OnlyKey(key), Dwindles(key), shown' = {}
      PROVE  Diffusion!Next
  <2> DEFINE R == Recipients(g_floods', key)
  <2>1. DOMAIN next = DOMAIN now /\ key \in DOMAIN now
    BY <1>4, <1>5, <1>7 DEF OnlyKey, Same, Dwindles
  <2>2. R \in SUBSET now[key]
    BY <1>4, <1>7, <2>1 DEF Dwindles
  <2>3. \A k \in DOMAIN now : next[k] = IF k = key THEN R ELSE now[k]
    BY <1>4, <1>5, <1>7, <2>1 DEF OnlyKey, Same
  <2>4. next = [now EXCEPT ![key] = R]
    BY <1>4, <1>5, <2>1, <2>3
  <2> HIDE DEF R
  <2>5. Diffusion!StrikeOff(key)
    BY <1>1, <1>2, <1>7, <2>1, <2>2, <2>4 DEF Diffusion!StrikeOff
  <2> QED BY <2>5 DEF Diffusion!Next
<1>8. ASSUME NEW key \in Key, OnlyKey(key), Enters(key), shown' \in {{}, {key}}
      PROVE  Diffusion!Next
  <2> DEFINE R == Recipients(g_floods', key)
  <2>1. DOMAIN next = DOMAIN now \cup {key} /\ key \notin DOMAIN now
    BY <1>4, <1>5, <1>8 DEF OnlyKey, Same, Enters
  <2>2. R \in SUBSET IpPort
    BY <1>8 DEF Enters
  <2>3. \A k \in DOMAIN now \cup {key} : next[k] = IF k = key THEN R ELSE now[k]
    BY <1>4, <1>5, <1>8, <2>1 DEF OnlyKey, Same
  <2>4. next = [k \in DOMAIN now \cup {key} |-> IF k = key THEN R ELSE now[k]]
    BY <1>4, <1>5, <2>1, <2>3
  <2> HIDE DEF R
  <2>5. Diffusion!Accept(key)
    BY <1>1, <1>2, <1>8, <2>1, <2>2, <2>4 DEF Diffusion!Accept
  <2> QED BY <2>5 DEF Diffusion!Next
<1>9. ASSUME NEW key \in Key, OnlyKey(key), Leaves(key), shown' = {}
      PROVE  Diffusion!Next
  <2>1. DOMAIN next = DOMAIN now \ {key} /\ key \in DOMAIN now
    BY <1>4, <1>5, <1>9 DEF OnlyKey, Same, Leaves
  <2>2. \A k \in DOMAIN now \ {key} : next[k] = now[k]
    BY <1>4, <1>5, <1>9, <2>1 DEF OnlyKey, Same
  <2>3. next = [k \in DOMAIN now \ {key} |-> now[k]]
    BY <1>5, <2>1, <2>2
  <2>4. Diffusion!Forget(key)
    BY <1>1, <1>2, <1>9, <2>1, <2>3 DEF Diffusion!Forget
  <2> QED BY <2>4 DEF Diffusion!Next
<1> QED BY <1>6, <1>7, <1>8, <1>9 DEF ImageStep

\* The flooding implements the abstract memory: it starts empty, and every
\* step is a step of Diffusion or leaves it alone.
THEOREM ImplementsDiffusionSafety == InondationSpec => Diffusion!Safety
<1>1. InondationInit => Diffusion!Init
  <2> SUFFICES ASSUME InondationInit
               PROVE  Owing = [k \in {} |-> {}] /\ shown = {}
    BY DEF Diffusion!Init
  <2>1. {g_floods[i].key : i \in DOMAIN g_floods} = {}
    BY DEF InondationInit
  <2> QED BY <2>1 DEF InondationInit, Owing
<1>2. FloodInv /\ FloodInv' /\ [InondationNext]_vars => [Diffusion!Next]_(Diffusion!diffusionVars)
  <2> SUFFICES ASSUME FloodInv, FloodInv', [InondationNext]_vars
               PROVE  [Diffusion!Next]_(Diffusion!diffusionVars)
    OBVIOUS
  <2>1. CASE InondationNext
    BY <2>1, NextIsImageStep, ImageIsDiffusion
  <2>2. CASE UNCHANGED vars
    BY <2>2 DEF vars, floodVars, Diffusion!diffusionVars, Owing, FirstOf
  <2> QED BY <2>1, <2>2
<1> QED BY <1>1, <1>2, FloodInvariant, PTL DEF InondationSpec, Diffusion!Safety

=============================================================================
