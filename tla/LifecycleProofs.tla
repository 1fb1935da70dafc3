--------------------------- MODULE LifecycleProofs ----------------------------
(***************************************************************************)
(* Proofs about the threads, for every set of addresses, every MIN and     *)
(* every number of calls before the stop.  First SendThread: the three     *)
(* threads never wait for each other in a circle, and an address is in     *)
(* both tables only while it is being moved.  Then Lifecycle: nobody is    *)
(* left in g_neighbours once leave_network has returned, and no GoAway     *)
(* stays behind.                                                           *)
(***************************************************************************)
EXTENDS Lifecycle, TLAPS

-----------------------------------------------------------------------------
(* Labels *)

\* What lock() does to the mutexes a label stands for.
LEMMA LockTable ==
  ASSUME NEW l \in DOMAIN Wants
  PROVE  /\ Wants[l] \in Mutex
         /\ Granted[l] \in Label
         /\ Granted[l] \in HoldsN <=> l \in HoldsN \/ Wants[l] = "N"
         /\ Granted[l] \in HoldsE <=> l \in HoldsE \/ Wants[l] = "E"
         /\ Granted[l] \in HoldsB <=> l \in HoldsB \/ Wants[l] = "B"
BY DEF Wants, Granted, Mutex, Label, HoldsN, HoldsE, HoldsB

\* g_neighbours, then g_environs, then the buffer: nobody waits for a mutex
\* while holding it or a later one.
LEMMA LockOrder ==
  ASSUME NEW l \in DOMAIN Wants
  PROVE  /\ Wants[l] = "N" => l \notin HoldsN \cup HoldsE \cup HoldsB
         /\ Wants[l] = "E" => l \notin HoldsE \cup HoldsB
         /\ Wants[l] = "B" => l \notin HoldsB
BY DEF Wants, HoldsN, HoldsE, HoldsB

-----------------------------------------------------------------------------
(* Preservation of OwnsByLabel *)

Shape == pc \in [Thread -> Label] /\ owner \in [Mutex -> Thread \cup {"free"}]

ThreadsInv == Shape /\ OwnsByLabel

\* A thread goes on to another label, giving back the mutexes ms.
LEMMA ReleaseKeepsOwners ==
  ASSUME ThreadsInv, NEW t \in Thread, NEW l \in Label, NEW ms \in SUBSET Mutex,
         Goto(t, l), Unlock(t, ms),
         "N" \in ms => pc[t] \in HoldsN,
         "E" \in ms => pc[t] \in HoldsE,
         "B" \in ms => pc[t] \in HoldsB,
         l \in HoldsN <=> pc[t] \in HoldsN /\ "N" \notin ms,
         l \in HoldsE <=> pc[t] \in HoldsE /\ "E" \notin ms,
         l \in HoldsB <=> pc[t] \in HoldsB /\ "B" \notin ms
  PROVE  ThreadsInv'
<1>1. Shape'
  BY DEF ThreadsInv, Shape, Goto, Unlock
<1>2. "free" \notin Thread
  BY SendThreadAssumption DEF Thread
<1>3. \A u \in Thread : pc'[u] = IF u = t THEN l ELSE pc[u]
  BY DEF ThreadsInv, Shape, Goto
<1>4. \A m \in Mutex : owner'[m] = IF m \in ms THEN "free" ELSE owner[m]
  BY DEF Unlock
<1>5. ASSUME NEW u \in Thread
      PROVE  /\ owner'["N"] = u <=> pc'[u] \in HoldsN
             /\ owner'["E"] = u <=> pc'[u] \in HoldsE
             /\ owner'["B"] = u <=> pc'[u] \in HoldsB
  BY <1>2, <1>3, <1>4 DEF ThreadsInv, OwnsByLabel, Mutex
<1> QED BY <1>1, <1>5 DEF ThreadsInv, OwnsByLabel

\* A thread goes on and keeps what it has.
LEMMA KeepKeepsOwners ==
  ASSUME ThreadsInv, NEW t \in Thread, NEW l \in Label,
         Goto(t, l), UNCHANGED owner,
         l \in HoldsN <=> pc[t] \in HoldsN,
         l \in HoldsE <=> pc[t] \in HoldsE,
         l \in HoldsB <=> pc[t] \in HoldsB
  PROVE  ThreadsInv'
<1>1. Unlock(t, {})
  BY DEF ThreadsInv, Shape, Unlock
<1> QED BY <1>1, ReleaseKeepsOwners

\* lock() returns.
LEMMA LockKeepsOwners ==
  ASSUME ThreadsInv, NEW t \in Thread, Lock(t)
  PROVE  ThreadsInv'
<1> DEFINE l == pc[t]
           m == Wants[l]
<1>1. /\ l \in DOMAIN Wants
      /\ owner[m] = "free"
      /\ owner' = [owner EXCEPT ![m] = t]
      /\ pc' = [pc EXCEPT ![t] = Granted[l]]
  BY DEF Lock, Goto
<1>2. /\ m \in Mutex
      /\ Granted[l] \in Label
      /\ Granted[l] \in HoldsN <=> l \in HoldsN \/ m = "N"
      /\ Granted[l] \in HoldsE <=> l \in HoldsE \/ m = "E"
      /\ Granted[l] \in HoldsB <=> l \in HoldsB \/ m = "B"
  BY <1>1, LockTable
<1>3. "free" \notin Thread
  BY SendThreadAssumption DEF Thread
<1> HIDE DEF m
<1>4. Shape'
  BY <1>1, <1>2 DEF ThreadsInv, Shape
<1>5. \A n \in Mutex : owner'[n] = IF n = m THEN t ELSE owner[n]
  BY <1>1 DEF ThreadsInv, Shape
<1>6. \A u \in Thread : pc'[u] = IF u = t THEN Granted[l] ELSE pc[u]
  BY <1>1 DEF ThreadsInv, Shape
<1>7. ASSUME NEW u \in Thread
      PROVE  /\ owner'["N"] = u <=> pc'[u] \in HoldsN
             /\ owner'["E"] = u <=> pc'[u] \in HoldsE
             /\ owner'["B"] = u <=> pc'[u] \in HoldsB
  BY <1>1, <1>2, <1>3, <1>5, <1>6 DEF ThreadsInv, OwnsByLabel, Mutex
<1> QED BY <1>4, <1>7 DEF ThreadsInv, OwnsByLabel

-----------------------------------------------------------------------------
(* The actions, each with the mutexes it gives back *)

LEMMA MainKeepsOwners ==
  ASSUME ThreadsInv, Main
  PROVE  ThreadsInv'
<1> USE DEF At, Label, Wants, HoldsN, HoldsE, HoldsB, Mutex
<1>1. "main" \in Thread
  BY DEF Thread
<1>2. CASE MainCall
  <2>1. PICK call \in MainCalls : Goto("main", call)
    BY <1>2 DEF MainCall
  <2>2. At("main", "idle") /\ UNCHANGED owner
    BY <1>2 DEF MainCall
  <2> QED BY <1>1, <2>1, <2>2, KeepKeepsOwners DEF MainCalls
<1>3. CASE MainRead
  BY <1>1, <1>3, KeepKeepsOwners DEF MainRead
<1>4. CASE MainRelease
  <2>1. CASE At("main", "list")
    BY <1>1, <1>4, <2>1, ReleaseKeepsOwners DEF MainRelease
  <2>2. CASE ~At("main", "list")
    BY <1>1, <1>4, <2>2, ReleaseKeepsOwners DEF MainRelease
  <2> QED BY <2>1, <2>2
<1>5. CASE CourtRefused
  BY <1>1, <1>5, ReleaseKeepsOwners DEF CourtRefused
<1>6. CASE CourtAccepted
  BY <1>1, <1>6, KeepKeepsOwners DEF CourtAccepted
<1>7. CASE CourtIn
  BY <1>1, <1>7, ReleaseKeepsOwners DEF CourtIn
<1>8. CASE LongRefused
  BY <1>1, <1>8, ReleaseKeepsOwners DEF LongRefused
<1>9. CASE LongAccepted
  BY <1>1, <1>9, KeepKeepsOwners DEF LongAccepted
<1>10. CASE LongAnswered
  BY <1>1, <1>10, ReleaseKeepsOwners DEF LongAnswered
<1>11. CASE LongIn
  BY <1>1, <1>11, ReleaseKeepsOwners DEF LongIn
<1>12. CASE NeighbourIn
  BY <1>1, <1>12, ReleaseKeepsOwners DEF NeighbourIn
<1>13. CASE Quit
  BY <1>1, <1>13, ReleaseKeepsOwners DEF Quit
<1> QED BY <1>2, <1>3, <1>4, <1>5, <1>6, <1>7, <1>8, <1>9, <1>10, <1>11, <1>12,
           <1>13 DEF Main

LEMMA MoveKeepsOwners ==
  ASSUME ThreadsInv, NEW t \in Thread, Move(t)
  PROVE  ThreadsInv'
<1> USE DEF At, Label, Wants, HoldsN, HoldsE, HoldsB, Mutex
<1>1. /\ Skipped(t) \in {"idle", "hello_next", "tell_next"}
      /\ Told(t) \in {"idle", "hello_B", "tell_send"}
  BY DEF Skipped, Told
<1>2. CASE MoveIn(t)
  BY <1>2, ReleaseKeepsOwners DEF MoveIn
<1>3. CASE MoveOut(t)
  <2>1. PICK l \in {"inform_B", "idle"} : Goto(t, l)
    BY <1>3 DEF MoveOut
  <2>2. At(t, "move_out") /\ Unlock(t, {"N"})
    BY <1>3 DEF MoveOut
  <2> QED BY <2>1, <2>2, ReleaseKeepsOwners
<1>4. CASE MoveFails(t)
  BY <1>4, KeepKeepsOwners DEF MoveFails
<1>5. CASE Undo(t)
  BY <1>1, <1>5, ReleaseKeepsOwners DEF Undo
<1>6. CASE Inform(t)
  BY <1>1, <1>6, ReleaseKeepsOwners DEF Inform
<1> QED BY <1>2, <1>3, <1>4, <1>5, <1>6 DEF Move

LEMMA LoopKeepsOwners ==
  ASSUME ThreadsInv, NEW t \in Sender, Loop(t)
  PROVE  ThreadsInv'
<1> USE DEF At, Label, Wants, HoldsN, HoldsE, HoldsB, Mutex
<1>1. /\ t \in Thread
      /\ Copying(t) \in {"hello_list", "tell_list"}
      /\ Onward(t) \in {"hello_next", "tell_next"}
      /\ Told(t) \in {"idle", "hello_B", "tell_send"}
  BY DEF Thread, Copying, Onward, Told
<1>2. CASE Wake(t)
  BY <1>1, <1>2, KeepKeepsOwners DEF Wake
<1>3. CASE Copy(t)
  BY <1>1, <1>3, ReleaseKeepsOwners DEF Copy
<1>4. CASE Visit(t)
  <2>1. PICK l \in {"move_E", "idle", "hello_B", "tell_send"} : Goto(t, l)
    BY <1>1, <1>4 DEF Visit
  <2>2. At(t, Onward(t)) /\ UNCHANGED owner
    BY <1>4 DEF Visit
  <2> QED BY <1>1, <2>1, <2>2, KeepKeepsOwners
<1>5. CASE Visited(t)
  <2>1. PICK l \in {"short_E", "sleep"} : Goto(t, l)
    BY <1>5 DEF Visited
  <2>2. At(t, Onward(t)) /\ UNCHANGED owner
    BY <1>5 DEF Visited
  <2> QED BY <1>1, <2>1, <2>2, KeepKeepsOwners
<1> QED BY <1>2, <1>3, <1>4, <1>5 DEF Loop

LEMMA RoundsKeepOwners ==
  ASSUME ThreadsInv, HelloRound \/ TellRound
  PROVE  ThreadsInv'
<1> USE DEF At, Label, Wants, HoldsN, HoldsE, HoldsB, Mutex
<1>1. CASE HelloAdded
  BY <1>1, ReleaseKeepsOwners DEF HelloAdded
<1>2. CASE ShortCopy
  BY <1>2, ReleaseKeepsOwners DEF ShortCopy
<1>3. CASE ShortNext
  BY <1>3, KeepKeepsOwners DEF ShortNext
<1>4. CASE ShortDone
  BY <1>4, KeepKeepsOwners DEF ShortDone
<1>5. CASE TellNext
  <2>1. PICK l \in {"tell_B", "tell_send"} : Goto("neighbour_sender", l)
    BY <1>5 DEF TellNext
  <2>2. At("neighbour_sender", "tell_send") /\ UNCHANGED owner
    BY <1>5 DEF TellNext
  <2> QED BY <2>1, <2>2, KeepKeepsOwners
<1>6. CASE TellDone
  BY <1>6, KeepKeepsOwners DEF TellDone
<1>7. CASE TellAdded
  BY <1>7, ReleaseKeepsOwners DEF TellAdded
<1> QED BY <1>1, <1>2, <1>3, <1>4, <1>5, <1>6, <1>7 DEF HelloRound, TellRound

LEMMA StepKeepsOwners ==
  ASSUME ThreadsInv, [Next]_vars
  PROVE  ThreadsInv'
<1>1. CASE UNCHANGED <<pc, owner>>
  BY <1>1 DEF ThreadsInv, Shape, OwnsByLabel
<1>2. CASE \E t \in Thread : Lock(t) \/ Move(t)
  BY <1>2, LockKeepsOwners, MoveKeepsOwners
<1>3. CASE Main
  BY <1>3, MainKeepsOwners
<1>4. CASE \E t \in Sender : Loop(t)
  BY <1>4, LoopKeepsOwners
<1>5. CASE HelloRound \/ TellRound
  BY <1>5, RoundsKeepOwners
<1> QED BY <1>1, <1>2, <1>3, <1>4, <1>5 DEF Next, vars, TimePasses

LEMMA InitOwners == Init => ThreadsInv
<1> SUFFICES ASSUME Init PROVE ThreadsInv
  OBVIOUS
<1>1. \A t \in Thread : pc[t] \in {"idle", "sleep"}
  BY DEF Init
<1>2. Shape
  BY <1>1 DEF Init, Shape, Label
<1>3. "free" \notin Thread
  BY SendThreadAssumption DEF Thread
<1>4. OwnsByLabel
  BY <1>1, <1>3 DEF Init, OwnsByLabel, Mutex, HoldsN, HoldsE, HoldsB
<1> QED BY <1>2, <1>4 DEF ThreadsInv

\* The mutexes a thread owns are at every moment those its label says.
THEOREM ThreadsOwnByLabel == Spec => []OwnsByLabel
<1>1. Spec => []ThreadsInv
  BY InitOwners, StepKeepsOwners, PTL DEF Spec
<1>2. ThreadsInv => OwnsByLabel
  BY DEF ThreadsInv
<1> QED BY <1>1, <1>2, PTL

-----------------------------------------------------------------------------
(* Absence of deadlock *)

\* In a set of threads that all wait for one another, nobody would wait for
\* the buffer, so nobody for g_environs, so nobody for g_neighbours.
LEMMA NoCircle == ThreadsInv => NoDeadlock
<1> SUFFICES ASSUME ThreadsInv, NEW T \in SUBSET Thread, T # {},
                    \A t \in T : \E u \in T : WaitsFor(t, u)
             PROVE  FALSE
  BY DEF NoDeadlock
<1>1. \A t \in T : /\ pc[t] \in DOMAIN Wants
                   /\ Wants[pc[t]] \in Mutex
                   /\ \E u \in T : owner[Wants[pc[t]]] = u
  BY LockTable DEF WaitsFor
<1>2. \A u \in T : /\ owner["N"] = u => pc[u] \in HoldsN
                   /\ owner["E"] = u => pc[u] \in HoldsE
                   /\ owner["B"] = u => pc[u] \in HoldsB
  BY DEF ThreadsInv, OwnsByLabel
<1>3. \A t \in T : Wants[pc[t]] # "B"
  BY <1>1, <1>2, LockOrder DEF Mutex
<1>4. \A t \in T : Wants[pc[t]] # "E"
  BY <1>1, <1>2, <1>3, LockOrder DEF Mutex
<1>5. \A t \in T : Wants[pc[t]] # "N"
  BY <1>1, <1>2, <1>3, <1>4, LockOrder DEF Mutex
<1> QED BY <1>1, <1>3, <1>4, <1>5 DEF Mutex

\* The main loop and the two senders never block one another for good.
THEOREM ThreadsDoNotDeadlock == Spec => []NoDeadlock
<1>1. Spec => []ThreadsInv
  BY InitOwners, StepKeepsOwners, PTL DEF Spec
<1> QED BY <1>1, NoCircle, PTL

-----------------------------------------------------------------------------
(* Types *)

TablesOK ==
  /\ DOMAIN g_neighbours \subseteq IpPort
  /\ g_neighbours \in [DOMAIN g_neighbours -> Date]
  /\ g_environs \subseteq IpPort

CopyOK(t) ==
  /\ DOMAIN list[t] \subseteq IpPort
  /\ list[t] \in [DOMAIN list[t] -> Date]
  /\ todo[t] \subseteq DOMAIN list[t]

LoopsOK ==
  /\ work \in [Thread -> IpPort]
  /\ DOMAIN list = Sender
  /\ todo \in [Sender -> SUBSET IpPort]
  /\ rest \in [Sender -> SUBSET IpPort]
  /\ count \in Nat
  /\ \A t \in Sender : CopyOK(t)

LEMMA TypeParts == TypeOK <=> Shape /\ TablesOK /\ LoopsOK
BY DEF TypeOK, Shape, TablesOK, LoopsOK, CopyOK

\* What the handlers write in the tables.
LEMMA TableUpdates ==
  ASSUME TablesOK, NEW p \in IpPort
  PROVE  /\ DOMAIN Recorded(p) \subseteq IpPort
         /\ Recorded(p) \in [DOMAIN Recorded(p) -> Date]
         /\ DOMAIN Without(p) \subseteq IpPort
         /\ Without(p) \in [DOMAIN Without(p) -> Date]
         /\ DOMAIN Aged(g_neighbours) \subseteq IpPort
         /\ Aged(g_neighbours) \in [DOMAIN Aged(g_neighbours) -> Date]
BY DEF TablesOK, Recorded, Without, Aged, Date

LEMMA TablesKept ==
  ASSUME Shape, TablesOK, LoopsOK, [Next]_vars
  PROVE  TablesOK'
<1> DEFINE Written(p) == /\ g_neighbours' \in {g_neighbours, Recorded(p),
                                               Without(p), Aged(g_neighbours)}
                         /\ g_environs' \subseteq g_environs \cup {p}
<1>1. ASSUME NEW p \in IpPort, Written(p)
      PROVE  TablesOK'
  <2>1. /\ DOMAIN g_neighbours' \subseteq IpPort
        /\ g_neighbours' \in [DOMAIN g_neighbours' -> Date]
    BY <1>1, TableUpdates DEF TablesOK
  <2> QED BY <1>1, <2>1 DEF TablesOK
<1>2. \A t \in Thread : work[t] \in IpPort
  BY DEF LoopsOK
<1>3. CASE UNCHANGED tables
  BY <1>3 DEF tables, TablesOK
<1>4. CASE Main
  <2>1. "main" \in Thread
    BY DEF Thread
  <2>2. UNCHANGED tables \/ Written(work["main"])
    <3>1. CASE MainCall \/ MainRead \/ MainRelease
      BY <3>1 DEF MainCall, MainRead, MainRelease
    <3>2. CASE CourtRefused \/ CourtAccepted \/ CourtIn
      BY <3>2 DEF CourtRefused, CourtAccepted, CourtIn
    <3>3. CASE LongRefused \/ LongAccepted \/ LongAnswered \/ LongIn
      BY <3>3 DEF LongRefused, LongAccepted, LongAnswered, LongIn
    <3>4. CASE NeighbourIn \/ Quit
      BY <3>4 DEF NeighbourIn, Quit
    <3> QED BY <1>4, <3>1, <3>2, <3>3, <3>4 DEF Main
  <2> QED BY <1>1, <1>2, <1>3, <2>1, <2>2
<1>5. CASE \E t \in Thread : Move(t)
  <2>1. PICK t \in Thread : Move(t)
    BY <1>5
  <2>2. UNCHANGED tables \/ Written(work[t])
    BY <2>1 DEF Move, MoveIn, MoveOut, MoveFails, Undo, Inform, tables
  <2> QED BY <1>1, <1>2, <1>3, <2>2
<1>6. CASE TimePasses
  BY <1>1, <1>6, SendThreadAssumption DEF TimePasses
<1>7. CASE \E t \in Thread : Lock(t)
  BY <1>3, <1>7 DEF Lock
<1>8. CASE \E t \in Sender : Loop(t)
  BY <1>3, <1>8 DEF Loop, Wake, Copy, Visit, Visited
<1>9. CASE HelloRound \/ TellRound
  BY <1>3, <1>9 DEF HelloRound, TellRound, HelloAdded, ShortCopy, ShortNext,
                    ShortDone, TellNext, TellDone, TellAdded
<1>10. CASE UNCHANGED vars
  BY <1>3, <1>10 DEF vars, tables
<1> QED BY <1>4, <1>5, <1>6, <1>7, <1>8, <1>9, <1>10 DEF Next

LEMMA LoopsKept ==
  ASSUME Shape, TablesOK, LoopsOK, [Next]_vars
  PROVE  LoopsOK'
<1> USE DEF LoopsOK, CopyOK
<1>1. CASE UNCHANGED <<work, loops>>
  BY <1>1 DEF loops
<1>2. CASE MainCall
  BY <1>2 DEF MainCall, loops
<1>3. CASE Main
  BY <1>1, <1>2, <1>3
     DEF Main, MainRead, MainRelease, CourtRefused, CourtAccepted, CourtIn,
         LongRefused, LongAccepted, LongAnswered, LongIn, NeighbourIn, Quit
<1>4. CASE \E t \in Thread : Lock(t) \/ Move(t)
  BY <1>1, <1>4 DEF Lock, Move, MoveIn, MoveOut, MoveFails, Undo, Inform
<1>5. CASE \E t \in Sender : Loop(t)
  <2>1. PICK t \in Sender : Loop(t)
    BY <1>5
  <2>2. CASE Wake(t)
    BY <1>1, <2>2 DEF Wake
  <2>3. CASE Copy(t)
    BY <2>3 DEF Copy, TablesOK
  <2>4. CASE Visit(t)
    <3>1. PICK p \in todo[t] :
            /\ work' = [work EXCEPT ![t] = p]
            /\ todo' = [todo EXCEPT ![t] = @ \ {p}]
            /\ rest' = [rest EXCEPT ![t] = IF t = "hello_sender" THEN {}
                                           ELSE DOMAIN list[t] \ {p}]
      BY <2>4 DEF Visit
    <3>2. UNCHANGED <<list, count>>
      BY <2>4 DEF Visit
    <3>3. p \in IpPort /\ DOMAIN list[t] \ {p} \subseteq IpPort
      BY <2>1, <3>1
    <3> QED BY <3>1, <3>2, <3>3
  <2>5. CASE Visited(t)
    BY <2>5 DEF Visited
  <2> QED BY <2>1, <2>2, <2>3, <2>4, <2>5 DEF Loop
<1>6. CASE HelloRound
  <2>1. CASE HelloAdded
    BY <2>1 DEF HelloAdded
  <2>2. CASE ShortCopy
    BY <2>2 DEF ShortCopy, TablesOK, At
  <2>3. CASE ShortNext
    <3>1. PICK p \in rest["hello_sender"] :
            /\ work' = [work EXCEPT !["hello_sender"] = p]
            /\ rest' = [rest EXCEPT !["hello_sender"] = @ \ {p}]
      BY <2>3 DEF ShortNext
    <3>2. UNCHANGED <<list, todo, count>> /\ "hello_sender" \in Sender
      BY <2>3 DEF ShortNext, At, Thread
    <3>3. rest["hello_sender"] \ {p} \subseteq IpPort /\ p \in IpPort
      BY <3>1, <3>2
    <3> QED BY <3>1, <3>2, <3>3 DEF Thread
  <2>4. CASE ShortDone
    BY <2>4 DEF ShortDone
  <2> QED BY <1>6, <2>1, <2>2, <2>3, <2>4 DEF HelloRound
<1>7. CASE TellRound
  <2>1. CASE TellNext
    BY <2>1 DEF TellNext
  <2> QED BY <1>1, <1>7, <2>1 DEF TellRound, TellDone, TellAdded
<1>8. CASE TimePasses
  BY <1>8 DEF TimePasses, Aged, Date
<1>9. CASE UNCHANGED vars
  BY <1>1, <1>9 DEF vars, loops
<1> QED BY <1>3, <1>4, <1>5, <1>6, <1>7, <1>8, <1>9 DEF Next

LEMMA InitTypes == Init => TypeOK
<1> SUFFICES ASSUME Init PROVE TypeOK
  OBVIOUS
<1>1. (CHOOSE p \in IpPort : TRUE) \in IpPort
  BY SendThreadAssumption
<1>2. LoopsOK
  BY <1>1 DEF Init, LoopsOK, CopyOK
<1>3. TablesOK
  BY DEF Init, TablesOK
<1>4. Shape
  BY InitOwners DEF ThreadsInv
<1> QED BY <1>2, <1>3, <1>4, TypeParts

\* The state the threads share and that of their loops stay well formed.
THEOREM ThreadTypes == Spec => []TypeOK
<1>1. Spec => []ThreadsInv
  BY InitOwners, StepKeepsOwners, PTL DEF Spec
<1>2. TypeOK /\ ThreadsInv' /\ [Next]_vars => TypeOK'
  <2> SUFFICES ASSUME TypeOK, ThreadsInv', [Next]_vars
               PROVE  TypeOK'
    OBVIOUS
  <2>1. Shape /\ TablesOK /\ LoopsOK
    BY TypeParts
  <2>2. Shape' /\ TablesOK' /\ LoopsOK'
    BY <2>1, TablesKept, LoopsKept DEF ThreadsInv
  <2>3. (TypeOK <=> Shape /\ TablesOK /\ LoopsOK)'
    BY TypeParts, PTL
  <2> QED BY <2>2, <2>3
<1> QED BY <1>1, <1>2, InitTypes, PTL DEF Spec

-----------------------------------------------------------------------------
(* In both tables only while moving *)

MoveLabels == {"move_N", "move_out", "undo_E", "undo"}

\* A step of t that leaves no address in both tables but those that were and
\* the one t is moving now.
LEMMA StepOfOne ==
  ASSUME Shape, LoopsOK, BothOnlyWhileMoving, NEW t \in Thread,
         \A u \in Thread \ {t} : pc'[u] = pc[u] /\ work'[u] = work[u],
         pc[t] \in MoveLabels =>
           \/ pc'[t] \in MoveLabels /\ work'[t] = work[t]
           \/ work[t] \notin DOMAIN g_neighbours' \cap g_environs',
         \A p \in DOMAIN g_neighbours' \cap g_environs' :
           \/ p \in DOMAIN g_neighbours \cap g_environs
           \/ pc'[t] \in MoveLabels /\ work'[t] = p
  PROVE  BothOnlyWhileMoving'
<1> SUFFICES ASSUME NEW p \in DOMAIN g_neighbours' \cap g_environs'
             PROVE  \E u \in Thread : pc'[u] \in MoveLabels /\ work'[u] = p
  BY DEF BothOnlyWhileMoving, Moving, MoveLabels
<1>1. CASE pc'[t] \in MoveLabels /\ work'[t] = p
  BY <1>1
<1>2. CASE p \in DOMAIN g_neighbours \cap g_environs
  <2>1. PICK u \in Thread : pc[u] \in MoveLabels /\ work[u] = p
    BY <1>2 DEF BothOnlyWhileMoving, Moving, MoveLabels
  <2> QED BY <2>1
<1> QED BY <1>1, <1>2

\* A thread goes from one label to another and touches neither table.
LEMMA Elsewhere ==
  ASSUME Shape, LoopsOK, BothOnlyWhileMoving, NEW t \in Thread, NEW l,
         Goto(t, l), UNCHANGED tables,
         \/ UNCHANGED work
         \/ pc[t] \notin MoveLabels /\ \E p : work' = [work EXCEPT ![t] = p],
         pc[t] \in MoveLabels => l \in MoveLabels
  PROVE  BothOnlyWhileMoving'
<1>1. pc' = [pc EXCEPT ![t] = l]
  BY DEF Goto
<1>2. \A u \in Thread : pc'[u] = IF u = t THEN l ELSE pc[u]
  BY <1>1 DEF Shape
<1>3. \A u \in Thread \ {t} : work'[u] = work[u]
  BY DEF LoopsOK
<1>4. pc[t] \in MoveLabels => work'[t] = work[t]
  OBVIOUS
<1>5. UNCHANGED g_neighbours /\ UNCHANGED g_environs
  BY DEF tables
<1> QED BY <1>2, <1>3, <1>4, <1>5, StepOfOne

LEMMA MainKeepsBoth ==
  ASSUME Shape, LoopsOK, BothOnlyWhileMoving, Main
  PROVE  BothOnlyWhileMoving'
<1> USE DEF At, MoveLabels
<1>1. "main" \in Thread
  BY DEF Thread
<1>2. CASE MainCall
  <2>1. PICK call \in MainCalls, p \in IpPort :
          /\ Goto("main", call)
          /\ work' = [work EXCEPT !["main"] = p]
    BY <1>2 DEF MainCall
  <2>2. pc["main"] = "idle" /\ UNCHANGED tables
    BY <1>2 DEF MainCall
  <2> QED BY <1>1, <2>1, <2>2, Elsewhere
<1>3. CASE MainRead \/ MainRelease
  BY <1>1, <1>3, Elsewhere DEF MainRead, MainRelease
<1>4. CASE CourtRefused \/ CourtAccepted
  BY <1>1, <1>4, Elsewhere DEF CourtRefused, CourtAccepted
<1>5. CASE LongRefused \/ LongAnswered
  BY <1>1, <1>5, Elsewhere DEF LongRefused, LongAnswered
<1>6. CASE LongAccepted
  <2>1. PICK l : Goto("main", l)
    BY <1>6 DEF LongAccepted
  <2> QED BY <1>1, <1>6, <2>1, Elsewhere DEF LongAccepted
<1>7. ASSUME CourtIn \/ LongIn \/ NeighbourIn \/ Quit
      PROVE  BothOnlyWhileMoving'
  <2>1. PICK l : Goto("main", l)
    BY <1>7 DEF CourtIn, LongIn, NeighbourIn, Quit
  <2>2. pc["main"] \in {"court_in", "long_in", "nbr", "quit"} /\ UNCHANGED work
    BY <1>7 DEF CourtIn, LongIn, NeighbourIn, Quit
  <2>3. DOMAIN g_neighbours' \cap g_environs' \subseteq
          DOMAIN g_neighbours \cap g_environs
    BY <1>7 DEF CourtIn, LongIn, NeighbourIn, Quit, Recorded, Without
  <2>4. \A u \in Thread \ {"main"} : pc'[u] = pc[u]
    BY <2>1 DEF Goto, Shape
  <2> QED BY <1>1, <2>2, <2>3, <2>4, StepOfOne
<1> QED BY <1>2, <1>3, <1>4, <1>5, <1>6, <1>7 DEF Main

LEMMA MoveKeepsBoth ==
  ASSUME Shape, LoopsOK, BothOnlyWhileMoving, NEW t \in Thread, Move(t)
  PROVE  BothOnlyWhileMoving'
<1> USE DEF At, MoveLabels
<1>1. PICK l : Goto(t, l)
  BY DEF Move, MoveIn, MoveOut, MoveFails, Undo, Inform
<1>2. \A u \in Thread : pc'[u] = IF u = t THEN l ELSE pc[u]
  BY <1>1 DEF Goto, Shape
<1>3. UNCHANGED work
  BY DEF Move, MoveIn, MoveOut, MoveFails, Undo, Inform
<1>4. CASE MoveIn(t)
  <2>1. l = "move_N"
    BY <1>2, <1>4 DEF MoveIn, Goto, Shape
  <2>2. \A p \in DOMAIN g_neighbours' \cap g_environs' :
          p \in DOMAIN g_neighbours \cap g_environs \/ p = work[t]
    BY <1>4 DEF MoveIn
  <2> QED BY <1>2, <1>3, <2>1, <2>2, StepOfOne
<1>5. CASE MoveOut(t) \/ Undo(t)
  <2>1. /\ DOMAIN g_neighbours' \cap g_environs' \subseteq
             DOMAIN g_neighbours \cap g_environs
        /\ work[t] \notin DOMAIN g_neighbours' \cap g_environs'
    BY <1>5 DEF MoveOut, Undo, Without
  <2> QED BY <1>2, <1>3, <2>1, StepOfOne
<1>6. CASE MoveFails(t) \/ Inform(t)
  BY <1>6, Elsewhere DEF MoveFails, Inform
<1> QED BY <1>4, <1>5, <1>6 DEF Move

LEMMA LoopsKeepBoth ==
  ASSUME Shape, LoopsOK, BothOnlyWhileMoving,
         (\E t \in Sender : Loop(t)) \/ HelloRound \/ TellRound
  PROVE  BothOnlyWhileMoving'
<1> USE DEF At, MoveLabels
<1>1. ASSUME NEW t \in Sender, Loop(t)
      PROVE  BothOnlyWhileMoving'
  <2>1. PICK l : Goto(t, l)
    BY <1>1 DEF Loop, Wake, Copy, Visit, Visited
  <2>2. /\ UNCHANGED tables
        /\ pc[t] \in {"sleep", Copying(t), Onward(t)}
        /\ UNCHANGED work \/ \E p : work' = [work EXCEPT ![t] = p]
    BY <1>1 DEF Loop, Wake, Copy, Visit, Visited
  <2> QED BY <2>1, <2>2, Elsewhere DEF Copying, Onward, Thread
<1>2. CASE HelloRound
  <2>1. PICK l : Goto("hello_sender", l)
    BY <1>2 DEF HelloRound, HelloAdded, ShortCopy, ShortNext, ShortDone
  <2>2. /\ UNCHANGED tables
        /\ "hello_sender" \in Thread
        /\ pc["hello_sender"] \in {"hello_add", "short_add", "short_list",
                                   "short_next"}
        /\ \/ UNCHANGED work
           \/ \E p : work' = [work EXCEPT !["hello_sender"] = p]
    BY <1>2 DEF HelloRound, HelloAdded, ShortCopy, ShortNext, ShortDone
  <2> QED BY <2>1, <2>2, Elsewhere
<1>3. CASE TellRound
  <2>1. PICK l : Goto("neighbour_sender", l)
    BY <1>3 DEF TellRound, TellNext, TellDone, TellAdded
  <2>2. /\ UNCHANGED <<tables, work>>
        /\ "neighbour_sender" \in Thread
        /\ pc["neighbour_sender"] \in {"tell_send", "tell_add"}
    BY <1>3 DEF TellRound, TellNext, TellDone, TellAdded
  <2> QED BY <2>1, <2>2, Elsewhere
<1> QED BY <1>1, <1>2, <1>3

LEMMA StepKeepsBoth ==
  ASSUME Shape, LoopsOK, BothOnlyWhileMoving, [Next]_vars
  PROVE  BothOnlyWhileMoving'
<1>1. CASE UNCHANGED <<pc, work>> /\ UNCHANGED g_environs
             /\ DOMAIN g_neighbours' = DOMAIN g_neighbours
  BY <1>1 DEF BothOnlyWhileMoving, Moving
<1>2. ASSUME NEW t \in Thread, Lock(t)
      PROVE  BothOnlyWhileMoving'
  <2>1. pc[t] \in MoveLabels => Granted[pc[t]] \in MoveLabels
    BY <1>2 DEF Lock, Wants, Granted, MoveLabels
  <2> QED BY <1>2, <2>1, Elsewhere DEF Lock
<1>3. CASE TimePasses
  BY <1>1, <1>3 DEF TimePasses, Aged
<1> QED BY <1>1, <1>2, <1>3, MainKeepsBoth, MoveKeepsBoth, LoopsKeepBoth
        DEF Next, vars

\* Outside the two halves of from_neighbours_to_env no address is both a
\* neighbour and a potential neighbour, whatever the three threads do.
THEOREM BothTablesOnlyWhileMoving == Spec => []BothOnlyWhileMoving
<1>1. Init => BothOnlyWhileMoving
  BY DEF Init, BothOnlyWhileMoving
<1>2. TypeOK => Shape /\ LoopsOK
  BY TypeParts
<1>3. TypeOK /\ BothOnlyWhileMoving /\ [Next]_vars => BothOnlyWhileMoving'
  BY <1>2, StepKeepsBoth
<1> QED BY <1>1, <1>3, ThreadTypes, PTL DEF Spec

-----------------------------------------------------------------------------
(* The goodbyes *)

LEMMA GoodbyesSentInit == LifeInit => GoodbyesSent
BY DEF LifeInit, GoodbyesSent

\* Outside leave_network no GoAway is put in the buffer.
LEMMA AddedTlvs ==
  ASSUME NEW t, Added(t, "tlvs"), NEW p \in IpPort, buffer'[p] = "goaway"
  PROVE  buffer[p] = "goaway"
<1>1. \/ buffer'[p] = "tlvs"
      \/ buffer'[p] = buffer[p]
  BY DEF Added
<1> QED
  BY <1>1

LEMMA GoodbyesSentStep ==
  ASSUME GoodbyesSent, [LifeNext]_lifeVars
  PROVE  GoodbyesSent'
<1> DEFINE Late == {"free_N", "free_E", "free_B", "end"}
<1>1. SUFFICES ASSUME stage' \in Late, ~refused', NEW p \in IpPort,
                      buffer'[p] = "goaway"
               PROVE  FALSE
  BY DEF GoodbyesSent
<1>2. ASSUME stage \in Late, ~refused, buffer[p] = "goaway" PROVE FALSE
  BY <1>2 DEF GoodbyesSent
<1>3. CASE MainStep
  <2>1. CASE LoopCalls
    BY <1>1, <2>1 DEF LoopCalls
  <2>2. CASE LoopSends
    BY <1>1, <2>2 DEF LoopSends
  <2>3. CASE MainGoesOn
    <3>1. stage' = stage /\ refused' = refused
      BY <2>3 DEF MainGoesOn, finisherVars
    <3>2. Added("main", "tlvs")
      BY <1>1, <2>3, <3>1 DEF MainGoesOn
    <3> QED
      BY <1>1, <1>2, <3>1, <3>2, AddedTlvs
  <2>4. CASE Stop
    BY <1>1, <2>4 DEF Stop
  <2>5. CASE LeaveCopies
    BY <1>1, <2>5 DEF LeaveCopies
  <2>6. CASE LeaveNext
    BY <1>1, <2>6 DEF LeaveNext
  <2>7. CASE DestroyThread
    BY <1>1, <2>7 DEF DestroyThread
  <2>8. CASE Drain
    <3>1. Emptied \/ refused'
      BY <1>1, <2>8 DEF Drain
    <3>2. Emptied => UNCHANGED buffer
      BY <2>8 DEF Drain
    <3> QED
      BY <1>1, <3>1, <3>2 DEF Emptied
  <2>9. CASE FreeNeighbours
    BY <1>1, <1>2, <2>9 DEF FreeNeighbours
  <2>10. CASE FreeWriter
    BY <1>1, <2>10 DEF FreeWriter
  <2> QED
    BY <1>3, <2>1, <2>2, <2>3, <2>4, <2>5, <2>6, <2>7, <2>8, <2>9, <2>10
       DEF MainStep
<1>4. ASSUME NEW t \in Sender, SenderGoesOn(t) PROVE FALSE
  <2>1. stage' = stage /\ refused' = refused /\ Added(t, "tlvs")
    BY <1>4 DEF SenderGoesOn, finisherVars
  <2> QED
    BY <1>1, <1>2, <2>1, AddedTlvs
<1>5. ASSUME NEW t \in Sender, Killed(t) PROVE FALSE
  <2>1. stage \in Late
    BY <1>5 DEF Killed, Freed
  <2> QED
    BY <1>1, <1>2, <1>5, <2>1 DEF Killed
<1>6. CASE Minutes
  BY <1>1, <1>2, <1>6 DEF Minutes, finisherVars
<1>7. CASE UNCHANGED lifeVars
  BY <1>1, <1>2, <1>7 DEF lifeVars, finisherVars
<1> QED
  BY <1>3, <1>4, <1>5, <1>6, <1>7 DEF LifeNext

\* finisher's loop ends with an empty buffer or a refusal, and nobody queues
\* a GoAway after leave_network.
THEOREM GoodbyesAreSent == LifeSpec => []GoodbyesSent
BY GoodbyesSentInit, GoodbyesSentStep, PTL DEF LifeSpec

-----------------------------------------------------------------------------
(* leave_network *)

\* Between MoveIn and MoveOut the address main works on is still a neighbour.
Removing == {"move_E", "move_in", "move_N", "move_out"}
Telling  == Removing \cup {"idle", "undo_E", "undo", "inform_B", "inform"}

\* What main may be doing at each stage after the loop.
MainAtStage ==
  /\ DOMAIN pc = Thread
  /\ DOMAIN work = Thread
  /\ stage = "copy" => pc["main"] \in {"list_N", "list"}
  /\ stage = "leave" => pc["main"] \in Telling
  /\ stage = "drain" => pc["main"] \in {"send_B", "send"}
  /\ stage = "free_N" => pc["main"] \in {"list_N", "list"}
  /\ stage = "free_E" => pc["main"] \in {"short_E", "short_list"}
  /\ stage = "free_B" => pc["main"] \in {"send_B", "send"}

\* A neighbour is one still to be told, or the one being moved.
StillToTell ==
  stage = "leave" =>
    \A p \in DOMAIN g_neighbours :
      p \in leaving \/ (pc["main"] \in Removing /\ p = work["main"])

LeaveInv ==
  /\ stage \in Stage
  /\ MainAtStage
  /\ StillToTell
  /\ NobodyLeft

LEMMA LeaveInvInit == LifeInit => LeaveInv
BY DEF LifeInit, Init, LeaveInv, MainAtStage, StillToTell, NobodyLeft, Stage,
       Thread

LEMMA MainIsNoSender == "main" \in Thread /\ "main" \notin Sender
BY SendThreadAssumption DEF Thread

\* A sender moves no label but its own, and makes no neighbour.
LEMMA SenderStep ==
  ASSUME NEW t \in Sender, SenderGoesOn(t), DOMAIN pc = Thread,
         DOMAIN work = Thread
  PROVE  /\ DOMAIN pc' = Thread /\ pc'["main"] = pc["main"]
         /\ DOMAIN work' = Thread /\ work'["main"] = work["main"]
         /\ DOMAIN g_neighbours' \subseteq DOMAIN g_neighbours
<1> USE MainIsNoSender
<1>1. CASE Lock(t)
  BY <1>1 DEF Lock, Goto, tables
<1>2. CASE MoveIn(t)
  BY <1>2 DEF MoveIn, Goto
<1>3. CASE MoveOut(t)
  BY <1>3 DEF MoveOut, Goto, Without
<1>4. CASE MoveFails(t)
  BY <1>4 DEF MoveFails, Goto, tables
<1>5. CASE Undo(t)
  BY <1>5 DEF Undo, Goto
<1>6. CASE Inform(t)
  BY <1>6 DEF Inform, Goto, tables
<1>7. CASE Wake(t)
  BY <1>7 DEF Wake, Goto, tables
<1>8. CASE Copy(t)
  BY <1>8 DEF Copy, Goto, tables
<1>9. CASE Visit(t)
  BY <1>9 DEF Visit, Goto, tables
<1>10. CASE Visited(t)
  BY <1>10 DEF Visited, Goto, tables
<1>11. CASE t = "hello_sender" /\ HelloRound
  <2>1. CASE HelloAdded
    BY <1>11, <2>1 DEF HelloAdded, Goto, tables
  <2>2. CASE ShortCopy
    BY <1>11, <2>2 DEF ShortCopy, Goto, tables
  <2>3. CASE ShortNext
    BY <1>11, <2>3 DEF ShortNext, Goto, tables
  <2>4. CASE ShortDone
    BY <1>11, <2>4 DEF ShortDone, Goto, tables
  <2> QED
    BY <1>11, <2>1, <2>2, <2>3, <2>4 DEF HelloRound
<1>12. CASE t = "neighbour_sender" /\ TellRound
  <2>1. CASE TellNext
    BY <1>12, <2>1 DEF TellNext, Goto, tables
  <2>2. CASE TellDone
    BY <1>12, <2>2 DEF TellDone, Goto, tables
  <2>3. CASE TellAdded
    BY <1>12, <2>3 DEF TellAdded, Goto, tables
  <2> QED
    BY <1>12, <2>1, <2>2, <2>3 DEF TellRound
<1> QED
  BY <1>1, <1>2, <1>3, <1>4, <1>5, <1>6, <1>7, <1>8, <1>9, <1>10, <1>11, <1>12
     DEF SenderGoesOn, Move, Loop

\* The main loop's handlers keep both functions on Thread.
LEMMA HandlerDomains ==
  ASSUME Main, DOMAIN pc = Thread, DOMAIN work = Thread
  PROVE  DOMAIN pc' = Thread /\ DOMAIN work' = Thread
<1>1. CASE MainCall
  BY <1>1 DEF MainCall, Goto
<1>2. CASE MainRead \/ MainRelease
  BY <1>2 DEF MainRead, MainRelease, Goto
<1>3. CASE CourtRefused \/ CourtAccepted \/ CourtIn
  BY <1>3 DEF CourtRefused, CourtAccepted, CourtIn, Goto
<1>4. CASE LongRefused \/ LongAccepted \/ LongAnswered \/ LongIn
  BY <1>4 DEF LongRefused, LongAccepted, LongAnswered, LongIn, Goto
<1>5. CASE NeighbourIn \/ Quit
  BY <1>5 DEF NeighbourIn, Quit, Goto
<1> QED
  BY <1>1, <1>2, <1>3, <1>4, <1>5 DEF Main

LEMMA MoveDomains ==
  ASSUME Move("main") \/ Lock("main"),
         DOMAIN pc = Thread, DOMAIN work = Thread
  PROVE  DOMAIN pc' = Thread /\ DOMAIN work' = Thread
BY DEF Move, MoveIn, MoveOut, MoveFails, Undo, Inform, Lock, Goto

\* While leave_network works main goes from label to label of
\* from_neighbours_to_env, and a neighbour leaves the cover only when it
\* leaves the table.
LEMMA MovingOut ==
  ASSUME LeaveInv, stage = "leave", stage' = "leave", leaving' = leaving,
         Move("main") \/ Lock("main")
  PROVE  MainAtStage' /\ StillToTell'
<1> USE MainIsNoSender
<1>0. /\ DOMAIN pc = Thread /\ DOMAIN work = Thread
      /\ pc["main"] \in Telling
      /\ \A p \in DOMAIN g_neighbours :
           p \in leaving \/ (pc["main"] \in Removing /\ p = work["main"])
  BY DEF LeaveInv, MainAtStage, StillToTell
<1>1. DOMAIN pc' = Thread /\ DOMAIN work' = Thread
  BY <1>0, MoveDomains
<1>2. SUFFICES /\ pc'["main"] \in Telling
               /\ \A p \in DOMAIN g_neighbours' :
                    p \in leaving \/ (pc'["main"] \in Removing
                                        /\ p = work'["main"])
  BY <1>1 DEF MainAtStage, StillToTell
<1>3. CASE Lock("main")
  <2>1. pc["main"] \in Telling \cap DOMAIN Wants
    BY <1>0, <1>3 DEF Lock
  <2>2. pc["main"] \in {"move_E", "move_N", "undo_E", "inform_B"}
    BY <2>1 DEF Telling, Removing, Wants
  <2>3. pc'["main"] = Granted[pc["main"]] /\ UNCHANGED <<g_neighbours, work>>
    BY <1>0, <1>3 DEF Lock, Goto, tables
  <2>4. /\ pc["main"] = "move_E" => pc'["main"] = "move_in"
        /\ pc["main"] = "move_N" => pc'["main"] = "move_out"
        /\ pc["main"] = "undo_E" => pc'["main"] = "undo"
        /\ pc["main"] = "inform_B" => pc'["main"] = "inform"
    BY <2>2, <2>3 DEF Granted
  <2> QED
    BY <1>0, <2>2, <2>3, <2>4 DEF Telling, Removing
<1>4. CASE MoveIn("main")
  BY <1>0, <1>4 DEF MoveIn, At, Goto, Telling, Removing
<1>5. CASE MoveOut("main")
  <2>1. DOMAIN g_neighbours' = DOMAIN g_neighbours \ {work["main"]}
    BY <1>5 DEF MoveOut, Without
  <2>2. pc'["main"] \in {"inform_B", "idle"}
    BY <1>0, <1>5 DEF MoveOut, Goto
  <2> QED
    BY <1>0, <2>1, <2>2 DEF Telling, Removing
<1>6. CASE MoveFails("main")
  BY <1>0, <1>6 DEF MoveFails, At, Goto, tables, Telling, Removing
<1>7. CASE Undo("main")
  BY <1>0, <1>7 DEF Undo, At, Goto, Skipped, Telling, Removing
<1>8. CASE Inform("main")
  BY <1>0, <1>8 DEF Inform, At, Goto, Told, tables, Telling, Removing
<1> QED
  BY <1>3, <1>4, <1>5, <1>6, <1>7, <1>8 DEF Move

\* At the other stages a mutex is all main can get outside finisher's own
\* steps.
LEMMA LockAtStage ==
  ASSUME LeaveInv, stage # "loop", stage # "leave", stage # "end",
         stage' = stage, Lock("main")
  PROVE  MainAtStage' /\ DOMAIN g_neighbours' = DOMAIN g_neighbours
<1> USE MainIsNoSender
<1>0. MainAtStage /\ stage \in Stage
  BY DEF LeaveInv
<1>1. /\ DOMAIN pc' = Thread /\ DOMAIN work' = Thread
      /\ pc["main"] \in DOMAIN Wants
      /\ pc'["main"] = Granted[pc["main"]]
      /\ UNCHANGED g_neighbours
  BY <1>0 DEF Lock, Goto, tables, MainAtStage
<1>2. pc["main"] \in {"list_N", "list", "send_B", "send", "short_E",
                      "short_list"}
  BY <1>0 DEF MainAtStage, Stage
<1>3. pc["main"] \in {"list_N", "send_B", "short_E"}
  BY <1>1, <1>2 DEF Wants
<1>4. /\ pc["main"] = "list_N" => pc'["main"] = "list"
      /\ pc["main"] = "send_B" => pc'["main"] = "send"
      /\ pc["main"] = "short_E" => pc'["main"] = "short_list"
  BY <1>1, <1>3 DEF Granted
<1> QED
  BY <1>0, <1>1, <1>3, <1>4 DEF MainAtStage

LEMMA LeaveInvStep ==
  ASSUME LeaveInv, [LifeNext]_lifeVars
  PROVE  LeaveInv'
<1> USE MainIsNoSender
<1>0. /\ stage \in Stage /\ MainAtStage /\ StillToTell /\ NobodyLeft
      /\ DOMAIN pc = Thread /\ DOMAIN work = Thread
  BY DEF LeaveInv, MainAtStage
<1>1. CASE MainStep
  <2>1. CASE LoopCalls
    BY <1>0, <2>1
       DEF LoopCalls, MainCall, Goto, LeaveInv, MainAtStage, StillToTell,
           NobodyLeft
  <2>2. CASE LoopSends
    BY <1>0, <2>2
       DEF LoopSends, MainGives, Goto, LeaveInv, MainAtStage, StillToTell,
           NobodyLeft
  <2>3. CASE MainGoesOn
    <3>0. /\ stage' = stage /\ leaving' = leaving
          /\ \/ stage = "loop" /\ Main
             \/ stage \in {"loop", "leave"} /\ Move("main")
             \/ Lock("main")
      BY <2>3 DEF MainGoesOn, finisherVars
    <3>1. CASE stage = "loop"
      <4>1. DOMAIN pc' = Thread /\ DOMAIN work' = Thread
        BY <1>0, <3>0, <3>1, HandlerDomains, MoveDomains
      <4> QED
        BY <1>0, <3>0, <3>1, <4>1
           DEF LeaveInv, MainAtStage, StillToTell, NobodyLeft
    <3>2. CASE stage = "leave"
      BY <1>0, <3>0, <3>2, MovingOut DEF LeaveInv, NobodyLeft
    <3>3. CASE stage \notin {"loop", "leave"}
      <4>1. stage # "end"
        BY <1>1 DEF MainStep
      <4>2. MainAtStage' /\ DOMAIN g_neighbours' = DOMAIN g_neighbours
        BY <3>0, <3>3, <4>1, LockAtStage
      <4> QED
        BY <1>0, <3>0, <3>3, <4>2 DEF LeaveInv, StillToTell, NobodyLeft
    <3> QED
      BY <3>1, <3>2, <3>3
  <2>4. CASE Stop
    BY <1>0, <2>4
       DEF Stop, Goto, LeaveInv, MainAtStage, StillToTell, NobodyLeft, Stage
  <2>5. CASE LeaveCopies
    BY <1>0, <2>5
       DEF LeaveCopies, MainGives, Goto, tables, LeaveInv, MainAtStage,
           StillToTell, NobodyLeft, Stage, Telling
  <2>6. CASE LeaveNext
    <3>1. /\ pc["main"] = "idle"
          /\ DOMAIN pc' = Thread /\ pc'["main"] = "move_E"
          /\ DOMAIN work' = Thread
          /\ leaving' = leaving \ {work'["main"]}
          /\ UNCHANGED <<g_neighbours, stage>>
          /\ stage = "leave"
      BY <1>0, <2>6 DEF LeaveNext, At, Goto, tables
    <3>2. \A p \in DOMAIN g_neighbours : p \in leaving
      BY <1>0, <3>1 DEF StillToTell, Removing
    <3> QED
      BY <1>0, <3>1, <3>2
         DEF LeaveInv, MainAtStage, StillToTell, NobodyLeft, Telling, Removing
  <2>7. CASE DestroyThread
    <3>1. DOMAIN g_neighbours = {}
      BY <1>0, <2>7 DEF DestroyThread, At, StillToTell, Removing
    <3> QED
      BY <1>0, <2>7, <3>1
         DEF DestroyThread, Goto, tables, LeaveInv, MainAtStage, StillToTell,
             NobodyLeft, Stage
  <2>8. CASE Drain
    <3>1. /\ stage = "drain"
          /\ UNCHANGED g_neighbours
          /\ DOMAIN pc' = Thread /\ DOMAIN work' = Thread
          /\ \/ stage' = "free_N" /\ pc'["main"] = "list_N"
             \/ stage' = "drain" /\ pc'["main"] = "send_B"
      BY <1>0, <2>8 DEF Drain, MainGives, Goto, tables
    <3> QED
      BY <1>0, <3>1 DEF LeaveInv, MainAtStage, StillToTell, NobodyLeft, Stage
  <2>9. CASE FreeNeighbours
    BY <1>0, <2>9
       DEF FreeNeighbours, MainGives, Goto, LeaveInv, MainAtStage,
           StillToTell, NobodyLeft, Stage
  <2>10. CASE FreeWriter
    BY <1>0, <2>10
       DEF FreeWriter, MainGives, Goto, tables, LeaveInv, MainAtStage,
           StillToTell, NobodyLeft, Stage
  <2> QED
    BY <1>1, <2>1, <2>2, <2>3, <2>4, <2>5, <2>6, <2>7, <2>8, <2>9, <2>10
       DEF MainStep
<1>2. ASSUME NEW t \in Sender, SenderGoesOn(t) PROVE LeaveInv'
  <2>1. /\ DOMAIN pc' = Thread /\ pc'["main"] = pc["main"]
        /\ DOMAIN work' = Thread /\ work'["main"] = work["main"]
        /\ DOMAIN g_neighbours' \subseteq DOMAIN g_neighbours
    BY <1>0, <1>2, SenderStep
  <2>2. stage' = stage /\ leaving' = leaving
    BY <1>2 DEF SenderGoesOn, finisherVars
  <2> QED
    BY <1>0, <2>1, <2>2 DEF LeaveInv, MainAtStage, StillToTell, NobodyLeft
<1>3. ASSUME NEW t \in Sender, Killed(t) PROVE LeaveInv'
  BY <1>0, <1>3
     DEF Killed, Freed, vars, LeaveInv, MainAtStage, StillToTell, NobodyLeft,
         Stage
<1>4. CASE Minutes
  <2>1. /\ DOMAIN g_neighbours' = DOMAIN g_neighbours
        /\ UNCHANGED <<pc, work, stage, leaving>>
    BY <1>4 DEF Minutes, TimePasses, Aged, finisherVars
  <2> QED
    BY <1>0, <2>1 DEF LeaveInv, MainAtStage, StillToTell, NobodyLeft
<1>5. CASE UNCHANGED lifeVars
  BY <1>0, <1>5
     DEF lifeVars, vars, finisherVars, LeaveInv, MainAtStage, StillToTell,
         NobodyLeft
<1> QED
  BY <1>1, <1>2, <1>3, <1>4, <1>5 DEF LifeNext

\* leave_network's copy misses nobody: the senders only take neighbours out,
\* and only the main thread, busy here, makes new ones.
THEOREM NobodyIsLeft == LifeSpec => []NobodyLeft
<1>1. LeaveInv => NobodyLeft
  BY DEF LeaveInv
<1> QED
  BY <1>1, LeaveInvInit, LeaveInvStep, PTL DEF LifeSpec

=============================================================================
