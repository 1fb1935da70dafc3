------------------------------ MODULE Lifecycle ------------------------------
(***************************************************************************)
(* A Floodus node until its process ends (Main.c): the main loop, then     *)
(* finisher, against the two sender threads of SendThread, one step per    *)
(* lock operation.  The main thread's program counter keeps the labels of  *)
(* SendThread: list_N, short_E and send_B are the calls that take one      *)
(* mutex, whatever is done under it at this stage.                         *)
(*                                                                         *)
(* The threads are created before the tables but sleep 30 and 60 seconds   *)
(* first: the initial state is the one initializer leaves.  The tables     *)
(* only the main thread uses are left out of the cleaning up.              *)
(***************************************************************************)
EXTENDS SendThread

CONSTANT MaxCalls  (* bound of the model: calls the main loop makes         *)

ASSUME LifecycleAssumption == MaxCalls \in Nat

VARIABLES
  stage,      (* where main and finisher are                               *)
  calls,      (* calls made by the main loop so far                        *)
  leaving,    (* addresses of leave_network's copy still to be told        *)
  buffer,     (* address -> what the writer's buffer has for it            *)
  cancelled,  (* pthread_cancel has been called                            *)
  refused     (* the last send_buffer_tlv failed                           *)

finisherVars == <<stage, calls, leaving, cancelled, refused>>
lifeVars == <<vars, finisherVars, buffer>>

-----------------------------------------------------------------------------
Stage == {"loop", "copy", "leave", "drain", "free_N", "free_E", "free_B",
          "end"}

\* The buffer has nothing for an address, some TLVs, or some TLVs and the
\* GoAway of leave_network among them.
Content == {"nothing", "tlvs", "goaway"}

LifeInit ==
  /\ Init
  /\ stage = "loop"
  /\ calls = 0
  /\ leaving = {}
  /\ buffer = [p \in IpPort |-> "nothing"]
  /\ cancelled = FALSE
  /\ refused = FALSE

-----------------------------------------------------------------------------
(* The buffer: add_tlv, wherever it is called, ends when its label is left *)

Adds == {"inform", "long_add", "add", "hello_add", "short_add", "tell_add"}

\* The TLV t was adding, if it was and this step ends it.  A GoAway waiting
\* for the same address stays with it.
Added(t, content) ==
  buffer' = [p \in IpPort |->
    IF pc[t] \in Adds /\ pc'[t] # pc[t] /\ work[t] = p /\ buffer[p] # "goaway"
      THEN content ELSE buffer[p]]

Emptied == \A p \in IpPort : buffer[p] = "nothing"

\* send_buffer_tlv with the buffer locked: a node leaves, or the socket
\* refuses it.
SendOne ==
  \/ /\ \E p \in IpPort : /\ buffer[p] # "nothing"
                          /\ buffer' = [buffer EXCEPT ![p] = "nothing"]
     /\ refused' = FALSE
  \/ /\ refused' = TRUE
     /\ UNCHANGED buffer

MainGives(m, label) ==
  /\ Unlock("main", {m})
  /\ Goto("main", label)

-----------------------------------------------------------------------------
(* The main loop *)

LoopCalls ==
  /\ stage = "loop"
  /\ calls < MaxCalls
  /\ MainCall
  /\ calls' = calls + 1
  /\ UNCHANGED <<stage, leaving, cancelled, refused, buffer>>

LoopSends ==
  /\ stage = "loop"
  /\ At("main", "send")
  /\ IF Emptied THEN UNCHANGED <<buffer, refused>> ELSE SendOne
  /\ MainGives("B", "idle")
  /\ UNCHANGED <<tables, work, loops, stage, calls, leaving, cancelled>>

\* A handler goes on; from_neighbours_to_env also does so for leave_network,
\* which then always tells the neighbour.
MainGoesOn ==
  /\ \/ stage = "loop" /\ pc["main"] \notin {"idle", "send"} /\ Main
     \/ stage \in {"loop", "leave"} /\ Move("main")
     \/ Lock("main")
  /\ stage = "leave" => pc["main"] \in Adds \/ pc'["main"] # "idle"
                        \/ At("main", "undo")
  /\ Added("main", IF stage = "leave" THEN "goaway" ELSE "tlvs")
  /\ UNCHANGED finisherVars

\* /q, SIGINT or an error: launch_program returns, finisher starts.
Stop ==
  /\ stage = "loop"
  /\ At("main", "idle")
  /\ stage' = "copy"
  /\ Goto("main", "list_N")
  /\ UNCHANGED <<owner, tables, work, loops, calls, leaving, cancelled,
                 refused, buffer>>

-----------------------------------------------------------------------------
(* leave_network *)

\* Mutant: only the neighbours whose Hello is recent are told.
LeaveCopies_Recent ==
  /\ stage = "copy"
  /\ At("main", "list")
  /\ leaving' = {p \in DOMAIN g_neighbours : g_neighbours[p] = "recent"}
  /\ stage' = "leave"
  /\ MainGives("N", "idle")
  /\ UNCHANGED <<tables, work, loops, calls, cancelled, refused, buffer>>

LeaveCopies ==
  /\ stage = "copy"
  /\ At("main", "list")
  /\ leaving' = DOMAIN g_neighbours
  /\ stage' = "leave"
  /\ MainGives("N", "idle")
  /\ UNCHANGED <<tables, work, loops, calls, cancelled, refused, buffer>>

LeaveNext ==
  /\ stage = "leave"
  /\ At("main", "idle")
  /\ \E p \in leaving : /\ work' = [work EXCEPT !["main"] = p]
                        /\ leaving' = leaving \ {p}
  /\ Goto("main", "move_E")
  /\ UNCHANGED <<owner, tables, loops, stage, calls, cancelled, refused,
                 buffer>>

\* destroy_thread, once everybody is told.
DestroyThread ==
  /\ stage = "leave"
  /\ At("main", "idle")
  /\ leaving = {}
  /\ cancelled' = TRUE
  /\ stage' = "drain"
  /\ Goto("main", "send_B")
  /\ UNCHANGED <<owner, tables, work, loops, calls, leaving, refused, buffer>>

-----------------------------------------------------------------------------
(* finisher: the buffer is sent, then everything is freed *)

\* Mutant: the buffer is sent once, not until it is empty.
Drain_Once ==
  /\ stage = "drain"
  /\ At("main", "send")
  /\ IF Emptied THEN UNCHANGED <<buffer, refused>> ELSE SendOne
  /\ stage' = "free_N"
  /\ MainGives("B", "list_N")
  /\ UNCHANGED <<tables, work, loops, calls, leaving, cancelled>>

\* Mutant: a refusal does not end the loop.
Drain_Insists ==
  /\ stage = "drain"
  /\ At("main", "send")
  /\ IF Emptied THEN UNCHANGED <<buffer, refused>> ELSE SendOne
  /\ \/ /\ Emptied
        /\ stage' = "free_N"
        /\ MainGives("B", "list_N")
     \/ /\ ~Emptied
        /\ MainGives("B", "send_B")
        /\ UNCHANGED stage
  /\ UNCHANGED <<tables, work, loops, calls, leaving, cancelled>>

\* One turn of the while loop.  Only the senders can touch the buffer between
\* buffer_is_empty and send_buffer_tlv, and they never empty it: the two are
\* one critical section here.
Drain ==
  /\ stage = "drain"
  /\ At("main", "send")
  /\ IF Emptied THEN UNCHANGED <<buffer, refused>> ELSE SendOne
  /\ \/ /\ Emptied \/ refused'
        /\ stage' = "free_N"
        /\ MainGives("B", "list_N")
     \/ /\ ~Emptied /\ ~refused'
        /\ MainGives("B", "send_B")
        /\ UNCHANGED stage
  /\ UNCHANGED <<tables, work, loops, calls, leaving, cancelled>>

\* free_neighbours, one table after the other.
FreeNeighbours ==
  \/ /\ stage = "free_N"
     /\ At("main", "list")
     /\ g_neighbours' = [p \in {} |-> "stale"]
     /\ stage' = "free_E"
     /\ MainGives("N", "short_E")
     /\ UNCHANGED <<g_environs, work, loops, calls, leaving, cancelled,
                    refused, buffer>>
  \/ /\ stage = "free_E"
     /\ At("main", "short_list")
     /\ g_environs' = {}
     /\ stage' = "free_B"
     /\ MainGives("E", "send_B")
     /\ UNCHANGED <<g_neighbours, work, loops, calls, leaving, cancelled,
                    refused, buffer>>

\* free_writer, and main returns: the process ends with all its threads.
FreeWriter ==
  /\ stage = "free_B"
  /\ At("main", "send")
  /\ buffer' = [p \in IpPort |-> "nothing"]
  /\ stage' = "end"
  /\ MainGives("B", "idle")
  /\ UNCHANGED <<tables, work, loops, calls, leaving, cancelled, refused>>

-----------------------------------------------------------------------------
(* The senders *)

\* pthread_cancel takes effect in sleep, the only cancellation point of a
\* sender: the thread is gone.
Asleep(t) == cancelled /\ At(t, "sleep")

SenderGoesOn(t) ==
  /\ stage # "end"
  /\ ~Asleep(t)
  /\ \/ Lock(t) \/ Move(t) \/ Loop(t)
     \/ t = "hello_sender" /\ HelloRound
     \/ t = "neighbour_sender" /\ TellRound
  /\ Added(t, "tlvs")
  /\ UNCHANGED finisherVars

\* Mutexes that guard memory freed at this stage.
Freed == CASE stage = "free_E" -> {"N"} [] stage = "free_B" -> {"N", "E"}
           [] OTHER -> {}

\* A sender that is in a table after it was freed: the process may be killed,
\* or go on as if the table were empty.
Killed(t) ==
  /\ \E m \in Freed : owner[m] = t
  /\ stage' = "end"
  /\ UNCHANGED <<vars, calls, leaving, cancelled, refused, buffer>>

Minutes ==
  /\ stage # "end"
  /\ TimePasses
  /\ UNCHANGED <<finisherVars, buffer>>

-----------------------------------------------------------------------------
MainStep ==
  /\ stage # "end"
  /\ \/ LoopCalls \/ LoopSends \/ MainGoesOn \/ Stop
     \/ LeaveCopies \/ LeaveNext \/ DestroyThread
     \/ Drain \/ FreeNeighbours \/ FreeWriter

LifeNext ==
  \/ MainStep
  \/ \E t \in Sender : SenderGoesOn(t) \/ Killed(t)
  \/ Minutes

\* Threads run, and get a mutex they keep asking for: a mutex is held for a
\* bounded time and a sender sleeps 30 seconds or more between two rounds.
LifeSpec ==
  /\ LifeInit
  /\ [][LifeNext]_lifeVars
  /\ SF_lifeVars(MainStep)
  /\ \A t \in Sender : SF_lifeVars(SenderGoesOn(t))

-----------------------------------------------------------------------------
(* Correctness *)

\* leave_network leaves nobody in g_neighbours, whatever the senders move
\* meanwhile from under its copy.
NobodyLeft ==
  stage \notin {"loop", "copy", "leave"} => DOMAIN g_neighbours = {}

\* A GoAway leave_network queued leaves before the buffer is freed, unless
\* the socket refused a packet ("prevenir d'un depart du reseau", voisin.c:575).
GoodbyesSent ==
  stage \in {"free_N", "free_E", "free_B", "end"} /\ ~refused =>
    \A p \in IpPort : buffer[p] # "goaway"

\* Once the main loop is left the process ends: nobody keeps a mutex main
\* needs, and the buffer is not filled faster than it is sent.
StopEnds == stage # "loop" ~> stage = "end"

=============================================================================
