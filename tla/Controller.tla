----------------------------- MODULE Controller ------------------------------
(***************************************************************************)
(* The main loop of a Floodus node (controller.c, launch_program) on top   *)
(* of Reader: one round is a pselect, then the input, the socket read, the *)
(* socket written, and a decision taken from errno.                        *)
(*                                                                         *)
(* errno is the thread's: calls that succeed leave it alone, get_pmtu      *)
(* clears it, and so does a connect command that found nobody.  Its values *)
(* are the ones launch_program tells apart; the first Hello, sent before   *)
(* the loop, can leave any of them behind.                                 *)
(***************************************************************************)
EXTENDS Reader

CONSTANT MAX_NETWRK_LOOP  (* rounds a network failure is tolerated: 5       *)

ASSUME ControllerAssumption == MAX_NETWRK_LOOP \in Nat

VARIABLES
  pc,        (* where the round is                                         *)
  run,       (* cleared by /q and by SIGINT                                *)
  errno,
  tmp,       (* launch_program's tmp                                       *)
  nb_fd,     (* what pselect returned: "error", "timeout" or "ready"       *)
  ready,     (* descriptors pselect found ready                            *)
  tm,        (* the time-out get_nexttime computed: "zero" or "later"      *)
  count,     (* consecutive rounds the network has failed                  *)
  g_floods,  (* "none", a message "waiting" for its time, or one "due"     *)
  buffer,    (* something is in the writer's buffer                        *)
  failures   (* history: consecutive rounds that ended in a network error  *)

loopVars == <<pc, run, errno, tmp, nb_fd, ready, tm, count, g_floods, buffer,
              failures>>
controllerVars == <<readerVars, loopVars>>

-----------------------------------------------------------------------------
\* 0; ENOENT; ENETDOWN, ENETRESET, ENETUNREACH or ENONET; anything else.
Errno == {"0", "ENOENT", "ENET", "other"}

Place == {"select", "input", "read", "tlv", "write", "decide", "stopped"}

Descriptor == {"stdin", "in", "out"}

ControllerInit ==
  /\ ReaderInit
  /\ pc = "select"
  /\ run = TRUE
  /\ errno \in Errno
  /\ tmp = "0"
  /\ nb_fd = "ready"
  /\ ready = {}
  /\ tm = "later"
  /\ count = 0
  /\ g_floods = "none"
  /\ buffer = TRUE
  /\ failures = 0

\* tmp = (!tmp) ? errno : tmp
Noted(e) == IF tmp = "0" THEN e ELSE tmp

-----------------------------------------------------------------------------
(* One round *)

\* while (run)
LeaveLoop ==
  /\ pc = "select"
  /\ ~run
  /\ pc' = "stopped"
  /\ UNCHANGED <<readerVars, run, errno, tmp, nb_fd, ready, tm, count,
                 g_floods, buffer, failures>>

\* The socket is asked for writing only when there is something to write.
\* A time-out is the time of the first message having come.
Pselect ==
  /\ pc = "select"
  /\ run
  /\ tm' = IF g_floods = "due" THEN "zero" ELSE "later"
  /\ \/ /\ nb_fd' = "error" /\ ready' = {} /\ errno' = "other"
        /\ UNCHANGED g_floods
     \/ /\ nb_fd' = "timeout" /\ ready' = {}
        /\ g_floods' = IF g_floods = "waiting" THEN "due" ELSE g_floods
        /\ UNCHANGED errno
     \/ /\ nb_fd' = "ready"
        /\ ready' \in (SUBSET Descriptor) \ {{}}
        /\ "out" \in ready' => buffer
        /\ UNCHANGED <<errno, g_floods>>
  /\ pc' = "input"
  /\ UNCHANGED <<readerVars, run, tmp, count, buffer, failures>>

\* handle_input: /q, a line of text (its first turn is a second away), or a
\* connect command, which queues a Hello or clears errno and whose name
\* resolution and trial connection may leave an error behind.
Input ==
  /\ pc = "input"
  /\ \/ "stdin" \notin ready /\ UNCHANGED <<run, errno, g_floods, buffer>>
     \/ "stdin" \in ready /\
        \/ UNCHANGED <<run, errno, g_floods, buffer>>
        \/ run' = FALSE /\ UNCHANGED <<errno, g_floods, buffer>>
        \/ /\ g_floods' = IF g_floods = "none" THEN "waiting" ELSE g_floods
           /\ UNCHANGED <<run, errno, buffer>>
        \/ /\ buffer' = TRUE
           /\ errno' \in {errno, "ENOENT", "ENET", "other"}
           /\ UNCHANGED <<run, g_floods>>
        \/ errno' = "0" /\ UNCHANGED <<run, g_floods, buffer>>
  /\ pc' = IF "in" \in ready THEN "read"
           ELSE IF "out" \in ready THEN "write" ELSE "decide"
  /\ UNCHANGED <<readerVars, tmp, nb_fd, ready, tm, count, failures>>

AfterRead == IF "out" \in ready THEN "write" ELSE "decide"

\* read_msg when recvmsg fails: a failure other than EAGAIN, which is tried
\* again at once.
ReadFails ==
  /\ pc = "read"
  /\ errno' \in {"ENET", "other"}
  /\ tmp' = Noted(errno')
  /\ pc' = AfterRead
  /\ UNCHANGED <<readerVars, run, nb_fd, ready, tm, count, g_floods, buffer,
                 failures>>

\* read_msg gets a datagram, which it goes through or ignores.  An EAGAIN met
\* on the way stays in errno.
ReadDatagram ==
  /\ pc = "read"
  /\ IgnoreMsg \/ \E d \in Datagram, local \in Local : ReadMsg(d, local)
  /\ errno' \in {errno, "other"}
  /\ pc' = "tlv"
  /\ UNCHANGED <<run, tmp, nb_fd, ready, tm, count, g_floods, buffer, failures>>

\* A handler may queue an answer, a Data starts a flooding, and the trial
\* connection of a Neighbour may leave its error.
ReadOneTlv ==
  /\ pc = "tlv"
  /\ ReadTlv
  /\ buffer' \in IF TlvCallHello \/ TlvCallData THEN {buffer, TRUE} ELSE {buffer}
  /\ g_floods' = IF TlvCallData /\ peer = "symmetric" /\ g_floods = "none"
                   THEN "waiting" ELSE g_floods
  /\ errno' \in IF TlvCallNeighbour THEN {errno, "ENET", "other"} ELSE {errno}
  /\ UNCHANGED <<pc, run, tmp, nb_fd, ready, tm, count, failures>>

ReadDone ==
  /\ pc = "tlv"
  /\ ReadMsgReturns
  /\ tmp' = Noted(errno)
  /\ pc' = AfterRead
  /\ UNCHANGED <<run, errno, nb_fd, ready, tm, count, g_floods,
                 buffer, failures>>

\* send_buffer_tlv: get_pmtu clears errno, then the first node leaves, maybe
\* after an EAGAIN, or sendmsg fails and it stays.  EINVAL becomes ENETDOWN.
Write ==
  /\ pc = "write"
  /\ \/ errno' \in {"0", "other"} /\ buffer' \in BOOLEAN
     \/ errno' \in {"ENET", "other"} /\ UNCHANGED buffer
  /\ tmp' = Noted(errno')
  /\ pc' = "decide"
  /\ UNCHANGED <<readerVars, run, nb_fd, ready, tm, count, g_floods, failures>>

-----------------------------------------------------------------------------
(* The decision *)

\* The line before the tests: an errno nobody noted counts too, ENOENT apart.
Verdict == IF tmp = "0" /\ errno # "ENOENT" THEN errno ELSE tmp

NetworkFailed == Verdict = "ENET"

\* What the round computed is not looked at again.
NextRound ==
  /\ pc' = "select"
  /\ tmp' = "0"
  /\ nb_fd' = "ready"
  /\ ready' = {}
  /\ tm' = "later"

\* Mutant: one round too many.
TryReachNetwork_Late ==
  /\ pc = "decide"
  /\ NetworkFailed
  /\ count <= MAX_NETWRK_LOOP
  /\ count' = count + 1
  /\ failures' = failures + 1
  /\ g_floods' \in IF g_floods = "waiting" THEN {"waiting", "due"} ELSE {g_floods}
  /\ NextRound
  /\ UNCHANGED <<readerVars, run, errno, buffer>>

\* Another second is given to the network, in which the time of a message may
\* come; the flooding waits.
TryReachNetwork ==
  /\ pc = "decide"
  /\ NetworkFailed
  /\ count < MAX_NETWRK_LOOP
  /\ count' = count + 1
  /\ failures' = failures + 1
  /\ g_floods' \in IF g_floods = "waiting" THEN {"waiting", "due"} ELSE {g_floods}
  /\ NextRound
  /\ UNCHANGED <<readerVars, run, errno, buffer>>

Problem ==
  /\ pc = "decide"
  /\ ~(NetworkFailed /\ count < MAX_NETWRK_LOOP)
  /\ nb_fd = "error" \/ Verdict # "0"
  /\ pc' = "stopped"
  /\ UNCHANGED <<readerVars, run, errno, tmp, nb_fd, ready, tm, count,
                 g_floods, buffer, failures>>

Calm == nb_fd # "error" /\ Verdict = "0"

\* launch_flood takes every message whose time has come.
Flood ==
  /\ g_floods' \in IF g_floods = "due" THEN {"none", "waiting"} ELSE {g_floods}
  /\ buffer' \in IF g_floods = "due" THEN {buffer, TRUE} ELSE {buffer}

\* Mutant: the messages are flooded only when nothing else happened.
RoundEnds_IfIdle ==
  /\ pc = "decide"
  /\ Calm
  /\ IF nb_fd = "timeout" THEN Flood ELSE UNCHANGED <<g_floods, buffer>>
  /\ count' = 0
  /\ failures' = 0
  /\ NextRound
  /\ UNCHANGED <<readerVars, run, errno>>

\* Mutant: a round that goes well does not reset the count.
RoundEnds_Counts ==
  /\ pc = "decide"
  /\ Calm
  /\ IF tm = "zero" \/ nb_fd = "timeout" THEN Flood
                                         ELSE UNCHANGED <<g_floods, buffer>>
  /\ failures' = 0
  /\ NextRound
  /\ UNCHANGED <<readerVars, run, errno, count>>

RoundEnds ==
  /\ pc = "decide"
  /\ Calm
  /\ IF tm = "zero" \/ nb_fd = "timeout" THEN Flood
                                         ELSE UNCHANGED <<g_floods, buffer>>
  /\ count' = 0
  /\ failures' = 0
  /\ NextRound
  /\ UNCHANGED <<readerVars, run, errno>>

-----------------------------------------------------------------------------
(* Around the loop *)

\* SIGINT is caught at any point of the round.
SigInt ==
  /\ pc # "stopped"
  /\ run' = FALSE
  /\ UNCHANGED <<readerVars, pc, errno, tmp, nb_fd, ready, tm, count,
                 g_floods, buffer, failures>>

\* A message's time comes, a sender thread queues a TLV.
Meanwhile ==
  /\ pc # "stopped"
  /\ \/ g_floods = "waiting" /\ g_floods' = "due" /\ UNCHANGED buffer
     \/ buffer' = TRUE /\ UNCHANGED g_floods
  /\ UNCHANGED <<readerVars, pc, run, errno, tmp, nb_fd, ready, tm, count,
                 failures>>

PeerAgesMeanwhile ==
  /\ pc # "stopped"
  /\ PeerAges
  /\ UNCHANGED loopVars

MainStep ==
  \/ LeaveLoop \/ Pselect \/ Input
  \/ ReadFails \/ ReadDatagram \/ ReadOneTlv \/ ReadDone
  \/ Write
  \/ TryReachNetwork \/ Problem \/ RoundEnds

ControllerNext == MainStep \/ SigInt \/ Meanwhile \/ PeerAgesMeanwhile

\* The main thread runs.
ControllerSpec ==
  /\ ControllerInit
  /\ [][ControllerNext]_controllerVars
  /\ WF_controllerVars(MainStep)

-----------------------------------------------------------------------------
(* Correctness *)

\* Type invariant.
ControllerTypeOK ==
  /\ ReaderTypeOK
  /\ pc \in Place
  /\ run \in BOOLEAN
  /\ errno \in Errno
  /\ tmp \in Errno
  /\ nb_fd \in {"error", "timeout", "ready"}
  /\ ready \subseteq Descriptor
  /\ tm \in {"zero", "later"}
  /\ count \in 0..MAX_NETWRK_LOOP
  /\ g_floods \in {"none", "waiting", "due"}
  /\ buffer \in BOOLEAN
  /\ failures \in 0..MAX_NETWRK_LOOP

\* A network failure ends the program only when the MAX_NETWRK_LOOP rounds
\* before it failed too, one after the other: outages far apart do not add up.
FailuresInARow ==
  [][ pc = "decide" /\ pc' = "stopped" /\ NetworkFailed =>
        failures = MAX_NETWRK_LOOP ]_controllerVars

\* A message whose time has come is flooded however busy the descriptors
\* are, and however long the datagrams, unless the program stops: what
\* Inondation assumes of launch_flood.
DueIsFlooded ==
  g_floods = "due" ~> g_floods # "due" \/ pc = "stopped"

=============================================================================
