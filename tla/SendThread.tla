----------------------------- MODULE SendThread -----------------------------
(***************************************************************************)
(* The three threads of a Floodus node on its neighbour tables, one step   *)
(* per lock operation: the main loop (voisin.c's handlers and the calls    *)
(* inondation.c and writer.c make), hello_sender and neighbour_sender      *)
(* (send_thread.c).  A label of pc names the next thing a thread does; a   *)
(* label of Wants is a call of lock() that has not returned.               *)
(*                                                                         *)
(* A Hello's date is "recent" or "stale" (is_more_than_two); ids and the   *)
(* contents of the writer's buffer are left out.                           *)
(***************************************************************************)
EXTENDS Naturals, FiniteSets

CONSTANTS
  IpPort,  (* addresses of other nodes                                     *)
  Sender,  (* sender threads that run: both, in the program                *)
  MIN      (* long hellos per round below which potentials are tried       *)

ASSUME SendThreadAssumption ==
  /\ IpPort # {}
  /\ Sender \subseteq {"hello_sender", "neighbour_sender"}
  /\ MIN \in Nat

VARIABLES
  pc,            (* thread -> label                                        *)
  owner,         (* mutex -> thread that holds it, or "free"               *)
  g_neighbours,  (* address -> date of its last Hello                      *)
  g_environs,    (* potential neighbours                                   *)
  work,          (* thread -> address the current call is about            *)
  list,          (* sender -> its copy of g_neighbours (map_to_list)       *)
  todo,          (* sender -> addresses of the copy still to visit         *)
  rest,          (* sender -> addresses the inner loop still has to visit  *)
  count          (* long hellos sent by the current round of hello_sender  *)

vars == <<pc, owner, g_neighbours, g_environs, work, list, todo, rest, count>>
tables == <<g_neighbours, g_environs>>
loops  == <<list, todo, rest, count>>

-----------------------------------------------------------------------------
Thread == {"main"} \cup Sender

\* The locks of g_neighbours, of g_environs and of the writer's buffer.
Mutex == {"N", "E", "B"}
Date  == {"recent", "stale"}

\* The mutex a thread at this label is waiting for.
Wants ==
  [move_E |-> "E", move_N |-> "N", undo_E |-> "E", inform_B |-> "B",
   court_N |-> "N", court_E |-> "E", long_N |-> "N", long_E |-> "E",
   long_B |-> "B", nbr_N |-> "N", nbr_E |-> "E", quit_N |-> "N",
   quit_E |-> "E", list_N |-> "N", add_B |-> "B", send_B |-> "B",
   hello_N |-> "N", hello_B |-> "B", short_E |-> "E", short_B |-> "B",
   tell_N |-> "N", tell_B |-> "B"]

\* Where the thread is once it has it.
Granted ==
  [move_E |-> "move_in", move_N |-> "move_out", undo_E |-> "undo",
   inform_B |-> "inform", court_N |-> "court", court_E |-> "court_in",
   long_N |-> "long_E", long_E |-> "long", long_B |-> "long_add",
   nbr_N |-> "nbr_E", nbr_E |-> "nbr", quit_N |-> "quit_E",
   quit_E |-> "quit", list_N |-> "list", add_B |-> "add", send_B |-> "send",
   hello_N |-> "hello_list", hello_B |-> "hello_add",
   short_E |-> "short_list", short_B |-> "short_add",
   tell_N |-> "tell_list", tell_B |-> "tell_add"]

Label ==
  (DOMAIN Wants) \cup {Granted[l] : l \in DOMAIN Wants}
    \cup {"idle", "sleep", "read", "long_in", "hello_next", "short_next",
          "tell_next", "tell_send"}

\* The mutexes a thread at a label has taken and not given back.
HoldsN == {"move_out", "undo_E", "undo", "court", "court_E", "court_in",
           "long_E", "long", "long_B", "long_add", "long_in", "nbr_E", "nbr",
           "quit_E", "quit", "list", "hello_list", "tell_list"}
HoldsE == {"move_in", "undo", "court_in", "long", "long_B", "long_add",
           "long_in", "nbr", "quit", "short_list"}
HoldsB == {"inform", "long_add", "add", "send", "hello_add", "short_add",
           "tell_add"}

\* Where a thread goes on when the address it was demoting turns out not to
\* be a neighbour, and where once the neighbour has been told.
Skipped(t) == CASE t = "main" -> "idle"
                [] t = "hello_sender" -> "hello_next"
                [] OTHER -> "tell_next"
Told(t)    == CASE t = "main" -> "idle"
                [] t = "hello_sender" -> "hello_B"
                [] OTHER -> "tell_send"

-----------------------------------------------------------------------------
(* Helpers *)

At(t, label) == t \in Thread /\ pc[t] = label
Goto(t, label) == pc' = [pc EXCEPT ![t] = label]
Unlock(t, ms) == owner' = [m \in Mutex |->
                            IF m \in ms THEN "free" ELSE owner[m]]

Recorded(p) == [q \in DOMAIN g_neighbours \cup {p} |->
                  IF q = p THEN "recent" ELSE g_neighbours[q]]
Without(p)  == [q \in DOMAIN g_neighbours \ {p} |-> g_neighbours[q]]

Aged(map) == [q \in DOMAIN map |-> "stale"]

-----------------------------------------------------------------------------
Init ==
  /\ pc = [t \in Thread |-> IF t = "main" THEN "idle" ELSE "sleep"]
  /\ owner = [m \in Mutex |-> "free"]
  /\ g_neighbours = [p \in {} |-> "stale"]
  /\ g_environs = {}
  /\ work = [t \in Thread |-> CHOOSE p \in IpPort : TRUE]
  /\ list = [t \in Sender |-> [p \in {} |-> "stale"]]
  /\ todo = [t \in Sender |-> {}]
  /\ rest = [t \in Sender |-> {}]
  /\ count = 0

\* pthread_mutex_lock returns.
Lock(t) ==
  /\ pc[t] \in DOMAIN Wants
  /\ owner[Wants[pc[t]]] = "free"
  /\ owner' = [owner EXCEPT ![Wants[pc[t]]] = t]
  /\ Goto(t, Granted[pc[t]])
  /\ UNCHANGED <<tables, work, loops>>

\* Two minutes pass: the dates in the table and in the copies of it are old.
TimePasses ==
  /\ g_neighbours' = Aged(g_neighbours)
  /\ list' = [t \in Sender |-> Aged(list[t])]
  /\ UNCHANGED <<pc, owner, g_environs, work, todo, rest, count>>

-----------------------------------------------------------------------------
(* The main thread takes a TLV, a command or a flooding turn in hand.      *)

MainCalls ==
  {"court_N", "long_N", "nbr_N", "quit_N", "move_E", "read", "list_N",
   "add_B", "send_B"}

\* court_N, long_N, nbr_N, quit_N: the TLV handlers; move_E: a GoAway of
\* another code, or flood_goaway; read: is_symetric; list_N: create_message;
\* add_B: an Ack or a Data queued; send_B: send_buffer_tlv.
MainCall ==
  /\ At("main", "idle")
  /\ \E call \in MainCalls, p \in IpPort :
       /\ Goto("main", call)
       /\ work' = [work EXCEPT !["main"] = p]
  /\ UNCHANGED <<owner, tables, loops>>

\* is_symetric is done: it takes no lock.
MainRead ==
  /\ At("main", "read")
  /\ Goto("main", "idle")
  /\ UNCHANGED <<owner, tables, work, loops>>

\* create_message has its copy, add_tlv or send_buffer_tlv is done.
MainRelease ==
  /\ pc["main"] \in {"list", "add", "send"}
  /\ Unlock("main", IF At("main", "list") THEN {"N"} ELSE {"B"})
  /\ Goto("main", "idle")
  /\ UNCHANGED <<tables, work, loops>>

-----------------------------------------------------------------------------
(* apply_hello_court, apply_hello_long, apply_tlv_neighbour, and           *)
(* apply_tlv_goaway with code 1                                            *)

\* The id is not the one on record: both handlers give up.
CourtRefused ==
  /\ At("main", "court")
  /\ work["main"] \in DOMAIN g_neighbours
  /\ Unlock("main", {"N"})
  /\ Goto("main", "idle")
  /\ UNCHANGED <<tables, work, loops>>

CourtAccepted ==
  /\ At("main", "court")
  /\ Goto("main", "court_E")
  /\ UNCHANGED <<owner, tables, work, loops>>

\* Mutant: the new neighbour is not taken off the potential ones.
CourtIn_Keeps ==
  /\ At("main", "court_in")
  /\ g_neighbours' = Recorded(work["main"])
  /\ Unlock("main", {"N", "E"})
  /\ Goto("main", "add_B")
  /\ UNCHANGED <<g_environs, work, loops>>

CourtIn ==
  /\ At("main", "court_in")
  /\ g_neighbours' = Recorded(work["main"])
  /\ g_environs' = g_environs \ {work["main"]}
  /\ Unlock("main", {"N", "E"})
  /\ Goto("main", "add_B")
  /\ UNCHANGED <<work, loops>>

\* Mutant: the early return forgets the second mutex.
LongRefused_Forgets ==
  /\ At("main", "long")
  /\ work["main"] \in DOMAIN g_neighbours
  /\ Unlock("main", {"N"})
  /\ Goto("main", "idle")
  /\ UNCHANGED <<tables, work, loops>>

LongRefused ==
  /\ At("main", "long")
  /\ work["main"] \in DOMAIN g_neighbours
  /\ Unlock("main", {"N", "E"})
  /\ Goto("main", "idle")
  /\ UNCHANGED <<tables, work, loops>>

\* A new neighbour is answered with both tables locked.
LongAccepted ==
  /\ At("main", "long")
  /\ Goto("main", IF work["main"] \in DOMAIN g_neighbours
                    THEN "long_in" ELSE "long_B")
  /\ UNCHANGED <<owner, tables, work, loops>>

LongAnswered ==
  /\ At("main", "long_add")
  /\ Unlock("main", {"B"})
  /\ Goto("main", "long_in")
  /\ UNCHANGED <<tables, work, loops>>

LongIn ==
  /\ At("main", "long_in")
  /\ g_neighbours' = Recorded(work["main"])
  /\ g_environs' = g_environs \ {work["main"]}
  /\ Unlock("main", {"N", "E"})
  /\ Goto("main", "idle")
  /\ UNCHANGED <<work, loops>>

\* trust_neighbour may refuse the address.
NeighbourIn ==
  /\ At("main", "nbr")
  /\ g_environs' \in {g_environs,
                      g_environs \cup ({work["main"]} \ DOMAIN g_neighbours)}
  /\ Unlock("main", {"N", "E"})
  /\ Goto("main", "idle")
  /\ UNCHANGED <<g_neighbours, work, loops>>

Quit ==
  /\ At("main", "quit")
  /\ g_neighbours' = Without(work["main"])
  /\ g_environs' = IF work["main"] \in DOMAIN g_neighbours THEN g_environs
                   ELSE g_environs \ {work["main"]}
  /\ Unlock("main", {"N", "E"})
  /\ Goto("main", "idle")
  /\ UNCHANGED <<work, loops>>

-----------------------------------------------------------------------------
(* from_neighbours_to_env and update_neighbours, by any thread: the        *)
(* insertion and the removal are two critical sections.                    *)

MoveIn(t) ==
  /\ At(t, "move_in")
  /\ g_environs' = g_environs \cup {work[t]}
  /\ Unlock(t, {"E"})
  /\ Goto(t, "move_N")
  /\ UNCHANGED <<g_neighbours, work, loops>>

\* A GoAway handler stops there, update_neighbours tells the neighbour.
MoveOut(t) ==
  /\ At(t, "move_out")
  /\ work[t] \in DOMAIN g_neighbours
  /\ g_neighbours' = Without(work[t])
  /\ Unlock(t, {"N"})
  /\ \/ Goto(t, "inform_B")
     \/ t = "main" /\ Goto(t, "idle")
  /\ UNCHANGED <<g_environs, work, loops>>

MoveFails(t) ==
  /\ At(t, "move_out")
  /\ work[t] \notin DOMAIN g_neighbours
  /\ Goto(t, "undo_E")
  /\ UNCHANGED <<owner, tables, work, loops>>

Undo(t) ==
  /\ At(t, "undo")
  /\ g_environs' = g_environs \ {work[t]}
  /\ Unlock(t, {"N", "E"})
  /\ Goto(t, Skipped(t))
  /\ UNCHANGED <<g_neighbours, work, loops>>

Inform(t) ==
  /\ At(t, "inform")
  /\ Unlock(t, {"B"})
  /\ Goto(t, Told(t))
  /\ UNCHANGED <<tables, work, loops>>

-----------------------------------------------------------------------------
(* The loops of the sender threads *)

Copying(t) == IF t = "hello_sender" THEN "hello_list" ELSE "tell_list"
Onward(t)  == IF t = "hello_sender" THEN "hello_next" ELSE "tell_next"

Wake(t) ==
  /\ At(t, "sleep")
  /\ Goto(t, IF t = "hello_sender" THEN "hello_N" ELSE "tell_N")
  /\ UNCHANGED <<owner, tables, work, loops>>

\* Mutant: the nodes are visited on the copy of the round before.
Copy_Before(t) ==
  /\ At(t, Copying(t))
  /\ todo' = [todo EXCEPT ![t] = DOMAIN g_neighbours]
  /\ Unlock(t, {"N"})
  /\ Goto(t, Onward(t))
  /\ UNCHANGED <<tables, work, list, rest, count>>

\* map_to_list of g_neighbours.
Copy(t) ==
  /\ At(t, Copying(t))
  /\ list' = [list EXCEPT ![t] = g_neighbours]
  /\ todo' = [todo EXCEPT ![t] = DOMAIN g_neighbours]
  /\ Unlock(t, {"N"})
  /\ Goto(t, Onward(t))
  /\ UNCHANGED <<tables, work, rest, count>>

\* The next node of the copy: demoted first if its date there is old.
Visit(t) ==
  /\ At(t, Onward(t))
  /\ \E p \in todo[t] :
       /\ work' = [work EXCEPT ![t] = p]
       /\ todo' = [todo EXCEPT ![t] = @ \ {p}]
       /\ rest' = [rest EXCEPT ![t] = IF t = "hello_sender" THEN {}
                                      ELSE DOMAIN list[t] \ {p}]
       /\ Goto(t, IF list[t][p] = "stale" THEN "move_E" ELSE Told(t))
  /\ UNCHANGED <<owner, tables, list, count>>

\* The copy is freed; hello_sender goes on with the potential neighbours if
\* it sent fewer than MIN long hellos.
Visited(t) ==
  /\ At(t, Onward(t))
  /\ todo[t] = {}
  /\ list' = [list EXCEPT ![t] = [p \in {} |-> "stale"]]
  /\ rest' = [rest EXCEPT ![t] = {}]
  /\ IF t = "hello_sender" /\ count < MIN
       THEN Goto(t, "short_E") /\ UNCHANGED count
       ELSE Goto(t, "sleep") /\ count' = IF t = "hello_sender" THEN 0 ELSE count
  /\ UNCHANGED <<owner, tables, work, todo>>

HelloAdded ==
  /\ \/ At("hello_sender", "hello_add") /\ Goto("hello_sender", "hello_next")
     \/ At("hello_sender", "short_add") /\ Goto("hello_sender", "short_next")
  /\ Unlock("hello_sender", {"B"})
  /\ count' = count + 1
  /\ UNCHANGED <<tables, work, list, todo, rest>>

\* map_to_list of g_environs.
ShortCopy ==
  /\ At("hello_sender", "short_list")
  /\ rest' = [rest EXCEPT !["hello_sender"] = g_environs]
  /\ Unlock("hello_sender", {"E"})
  /\ Goto("hello_sender", "short_next")
  /\ UNCHANGED <<tables, work, list, todo, count>>

ShortNext ==
  /\ At("hello_sender", "short_next")
  /\ count < MIN
  /\ \E p \in rest["hello_sender"] :
       /\ work' = [work EXCEPT !["hello_sender"] = p]
       /\ rest' = [rest EXCEPT !["hello_sender"] = @ \ {p}]
  /\ Goto("hello_sender", "short_B")
  /\ UNCHANGED <<owner, tables, list, todo, count>>

ShortDone ==
  /\ At("hello_sender", "short_next")
  /\ count >= MIN \/ rest["hello_sender"] = {}
  /\ rest' = [rest EXCEPT !["hello_sender"] = {}]
  /\ count' = 0
  /\ Goto("hello_sender", "sleep")
  /\ UNCHANGED <<owner, tables, work, list, todo>>

\* send_neighbour: the other nodes of the copy whose date is recent.
TellNext ==
  /\ At("neighbour_sender", "tell_send")
  /\ \E p \in rest["neighbour_sender"] :
       /\ rest' = [rest EXCEPT !["neighbour_sender"] = @ \ {p}]
       /\ Goto("neighbour_sender",
               IF list["neighbour_sender"][p] = "recent" THEN "tell_B"
                                                         ELSE "tell_send")
  /\ UNCHANGED <<owner, tables, work, list, todo, count>>

TellDone ==
  /\ At("neighbour_sender", "tell_send")
  /\ rest["neighbour_sender"] = {}
  /\ Goto("neighbour_sender", "tell_next")
  /\ UNCHANGED <<owner, tables, work, loops>>

TellAdded ==
  /\ At("neighbour_sender", "tell_add")
  /\ Unlock("neighbour_sender", {"B"})
  /\ Goto("neighbour_sender", "tell_send")
  /\ UNCHANGED <<tables, work, loops>>

-----------------------------------------------------------------------------
Main ==
  \/ MainCall \/ MainRead \/ MainRelease
  \/ CourtRefused \/ CourtAccepted \/ CourtIn
  \/ LongRefused \/ LongAccepted \/ LongAnswered \/ LongIn
  \/ NeighbourIn \/ Quit

Move(t) == MoveIn(t) \/ MoveOut(t) \/ MoveFails(t) \/ Undo(t) \/ Inform(t)

Loop(t) == Wake(t) \/ Copy(t) \/ Visit(t) \/ Visited(t)

HelloRound == HelloAdded \/ ShortCopy \/ ShortNext \/ ShortDone

TellRound == TellNext \/ TellDone \/ TellAdded

Next ==
  \/ \E t \in Thread : Lock(t) \/ Move(t)
  \/ Main
  \/ \E t \in Sender : Loop(t)
  \/ HelloRound
  \/ TellRound
  \/ TimePasses

Spec == Init /\ [][Next]_vars

-----------------------------------------------------------------------------
(* Correctness *)

\* Type invariant.
TypeOK ==
  /\ pc \in [Thread -> Label]
  /\ owner \in [Mutex -> Thread \cup {"free"}]
  /\ DOMAIN g_neighbours \subseteq IpPort
  /\ g_neighbours \in [DOMAIN g_neighbours -> Date]
  /\ g_environs \subseteq IpPort
  /\ work \in [Thread -> IpPort]
  /\ DOMAIN list = Sender
  /\ \A t \in Sender : /\ DOMAIN list[t] \subseteq IpPort
                       /\ list[t] \in [DOMAIN list[t] -> Date]
                       /\ todo[t] \subseteq DOMAIN list[t]
                       /\ rest[t] \subseteq IpPort
  /\ todo \in [Sender -> SUBSET IpPort]
  /\ rest \in [Sender -> SUBSET IpPort]
  /\ count \in Nat

\* Every path through a handler gives back what it took: the mutexes a thread
\* owns are those its label says, none when it is idle or asleep.
OwnsByLabel ==
  \A t \in Thread : /\ owner["N"] = t <=> pc[t] \in HoldsN
                    /\ owner["E"] = t <=> pc[t] \in HoldsE
                    /\ owner["B"] = t <=> pc[t] \in HoldsB

WaitsFor(t, u) ==
  /\ pc[t] \in DOMAIN Wants
  /\ owner[Wants[pc[t]]] = u

\* No set of threads waits for mutexes its own members hold: the handlers
\* take g_neighbours before g_environs before the buffer, and every return
\* path gives back what it took.
NoDeadlock ==
  \A T \in SUBSET Thread :
    T # {} => \E t \in T : \A u \in T : ~WaitsFor(t, u)

Moving(p) ==
  \E t \in Thread : pc[t] \in {"move_N", "move_out", "undo_E", "undo"}
                    /\ work[t] = p

\* An address is in both tables only while some thread is between the two
\* halves of from_neighbours_to_env for it.
BothOnlyWhileMoving ==
  \A p \in DOMAIN g_neighbours \cap g_environs : Moving(p)

\* update_neighbours "fait passer un voisin de voisin a voisin potentiel"
\* (voisin.c:183-185): a step of a sender thread never leaves an address in
\* neither table.
SendersLoseNobody ==
  [][ (\E t \in Sender : Move(t)) =>
        DOMAIN g_neighbours \cup g_environs
          \subseteq DOMAIN g_neighbours' \cup g_environs' ]_vars

=============================================================================
