------------------------------- MODULE Voisin -------------------------------
(***************************************************************************)
(* The neighbour tables of one Floodus node (voisin.c, and the periodic    *)
(* work of send_thread.c on them), at the granularity of one handler per   *)
(* step of the main thread, and one node of its copy of the table per step *)
(* of a sender thread.                                                     *)
(*                                                                         *)
(* Time.  The code stores CLOCK_MONOTONIC timestamps and only ever asks    *)
(* whether one is older than Recent seconds (is_more_than_two).  A         *)
(* timestamp is therefore kept as its AGE in whole seconds, saturated at   *)
(* Recent + 1: no comparison of the code can tell two older ages apart.    *)
(* uptime is the saturated clock itself, which is the age of the all-zero  *)
(* timestamp a neighbour_t starts with.                                    *)
(*                                                                         *)
(* What happens between the lock operations of the three threads is the    *)
(* subject of SendThread; the steps are put together in Voisinage, and in  *)
(* Inondation with the flooding.                                           *)
(***************************************************************************)
EXTENDS Naturals, FiniteSets

CONSTANTS
  IpPort,   (* addresses (ip_port_t) other nodes can have                  *)
  Id,       (* node identifiers carried by the Hello TLVs                  *)
  Sender,   (* sender threads that run: both, in the program               *)
  MyId,     (* g_myid                                                      *)
  Recent,   (* seconds a Hello stays valid: 120 in the code                *)
  MIN,      (* hellos per round below which potentials are tried: 8        *)
  Boot      (* saturated values the clock may have when the program starts *)

ASSUME VoisinAssumption ==
  /\ MyId \in Id
  /\ Sender \subseteq {"hello_sender", "neighbour_sender"}
  /\ Recent \in Nat
  /\ MIN \in Nat
  /\ Boot \subseteq 0..(Recent + 1)

VARIABLES
  g_neighbours,  (* hashmap: address -> neighbour_t                        *)
  g_environs,    (* hashmap used as the set of potential neighbours        *)
  uptime,        (* CLOCK_MONOTONIC, saturated at Recent + 1               *)
  sent,          (* the TLVs the last step handed to add_tlv               *)
  awake,         (* senders in the middle of a round                       *)
  n_list,        (* sender -> its copy of g_neighbours (map_to_list)       *)
  todo,          (* sender -> nodes of the copy still to visit             *)
  hellos         (* long Hellos sent by hello_sender's round (count)       *)

rounds == <<awake, n_list, todo, hellos>>
tableVars == <<g_neighbours, g_environs, uptime, sent, rounds>>

-----------------------------------------------------------------------------
(* Types *)

Age == 0..(Recent + 1)

\* neighbour_t; hello and long_hello are ages.  A long Hello is a Hello.
Neighbour == {n \in [id: Id, hello: Age, long_hello: Age] :
                n.hello <= n.long_hello}

\* A table, and a copy of it: a function of its keys.
Table == UNION {[K -> Neighbour] : K \in SUBSET IpPort}

GoAwayCode == 0..4

HelloShortTlv == [dest: IpPort, type: {"hello_short"}]
HelloLongTlv  == [dest: IpPort, type: {"hello_long"}, id: Id]
NeighbourTlv  == [dest: IpPort, type: {"neighbour"}, addr: IpPort]
GoAwayTlv     == [dest: IpPort, type: {"go_away"}, code: GoAwayCode]

VoisinTlv == HelloShortTlv \cup HelloLongTlv \cup NeighbourTlv \cup GoAwayTlv

-----------------------------------------------------------------------------
(* Helpers *)

\* insert_map and remove_map on a table that is a function of its keys.
InsertMap(map, k, v) ==
  [q \in DOMAIN map \cup {k} |-> IF q = k THEN v ELSE map[q]]

RemoveKeys(map, ks) == [q \in DOMAIN map \ ks |-> map[q]]

IsMoreThanTwo(age) == age > Recent

Older(age) == IF age > Recent THEN age ELSE age + 1

\* A table, or a copy of it, a second later.
Aged(map) ==
  [p \in DOMAIN map |-> [id |-> map[p].id, hello |-> Older(map[p].hello),
                         long_hello |-> Older(map[p].long_hello)]]

IsSymetric(p) ==
  /\ p \in DOMAIN g_neighbours
  /\ ~IsMoreThanTwo(g_neighbours[p].long_hello)

HelloLongTo(p, id) == [dest |-> p, type |-> "hello_long", id |-> id]
GoAwayTo(p, code)  == [dest |-> p, type |-> "go_away", code |-> code]

\* Mutant: the insertion is rolled back whatever remove_map answers.
FromNeighboursToEnv_Undo(R) ==
  /\ g_neighbours' = RemoveKeys(g_neighbours, R)
  /\ g_environs' = g_environs \ R

\* from_neighbours_to_env for every address of R in turn.  The address is
\* put in g_environs first; if it then turns out not to be a neighbour the
\* insertion is rolled back, even when it was a potential neighbour before.
FromNeighboursToEnv(R) ==
  /\ g_neighbours' = RemoveKeys(g_neighbours, R)
  /\ g_environs' = (g_environs \cup R) \ (R \ DOMAIN g_neighbours)

\* Only those moved are told.
GoAways(R, code) == {GoAwayTo(p, code) : p \in R \cap DOMAIN g_neighbours}

\* update_neighbours, with this code, for every address of R.
UpdateNeighbours(R, code) ==
  /\ FromNeighboursToEnv(R)
  /\ sent' = GoAways(R, code)

-----------------------------------------------------------------------------
Init ==
  /\ g_neighbours = [p \in {} |-> {}]
  /\ g_environs = {}
  /\ uptime \in Boot
  /\ sent = {}
  /\ awake = {}
  /\ n_list = [t \in Sender |-> [p \in {} |-> {}]]
  /\ todo = [t \in Sender |-> {}]
  /\ hellos = 0

\* Dates written by a handler are in seconds: time only has to pass one
\* second at a time.
Tick ==
  /\ uptime' = Older(uptime)
  /\ g_neighbours' = Aged(g_neighbours)
  /\ n_list' = [t \in Sender |-> Aged(n_list[t])]
  /\ sent' = {}
  /\ UNCHANGED <<g_environs, awake, todo, hellos>>

-----------------------------------------------------------------------------
(* Handlers of the main thread *)

\* Mutant: a short Hello dates both fields.
ApplyHelloCourt_DatesBoth(src, id) ==
  /\ src \in DOMAIN g_neighbours => g_neighbours[src].id = id
  /\ g_neighbours' = InsertMap(g_neighbours, src,
                       [id |-> id, hello |-> 0, long_hello |-> 0])
  /\ g_environs' = g_environs \ {src}
  /\ sent' = {HelloLongTo(src, id)}
  /\ UNCHANGED <<uptime, rounds>>

\* A short Hello: a known neighbour is refreshed if the id is the one on
\* record, an unknown sender becomes a neighbour that has never sent a long
\* Hello (its long_hello is the zero timestamp).  Answered by a long Hello.
ApplyHelloCourt(src, id) ==
  /\ src \in DOMAIN g_neighbours => g_neighbours[src].id = id
  /\ g_neighbours' = InsertMap(g_neighbours, src,
       [id |-> id, hello |-> 0,
        long_hello |-> IF src \in DOMAIN g_neighbours
                         THEN g_neighbours[src].long_hello ELSE uptime])
  /\ g_environs' = g_environs \ {src}
  /\ sent' = {HelloLongTo(src, id)}
  /\ UNCHANGED <<uptime, rounds>>

\* Mutant: a long Hello does not date the hello field.
ApplyHelloLong_OneDate(src, id_src, id_dest) ==
  /\ id_dest = MyId
  /\ src \in DOMAIN g_neighbours => g_neighbours[src].id = id_src
  /\ g_neighbours' = InsertMap(g_neighbours, src,
       [id |-> id_src, long_hello |-> 0,
        hello |-> IF src \in DOMAIN g_neighbours
                    THEN g_neighbours[src].hello ELSE 0])
  /\ g_environs' = g_environs \ {src}
  /\ sent' = IF src \in DOMAIN g_neighbours THEN {}
             ELSE {HelloLongTo(src, id_src)}
  /\ UNCHANGED <<uptime, rounds>>

\* A long Hello addressed to another id is ignored; only a sender that was
\* not a neighbour is answered.
ApplyHelloLong(src, id_src, id_dest) ==
  /\ id_dest = MyId
  /\ src \in DOMAIN g_neighbours => g_neighbours[src].id = id_src
  /\ g_neighbours' = InsertMap(g_neighbours, src,
                       [id |-> id_src, hello |-> 0, long_hello |-> 0])
  /\ g_environs' = g_environs \ {src}
  /\ sent' = IF src \in DOMAIN g_neighbours THEN {}
             ELSE {HelloLongTo(src, id_src)}
  /\ UNCHANGED <<uptime, rounds>>

\* Mutant: an address that is a neighbour already is not left out.
ApplyTlvNeighbour_Known(src, p) ==
  /\ src \in DOMAIN g_neighbours
  /\ g_environs' = g_environs \cup {p}
  /\ sent' = {}
  /\ UNCHANGED <<g_neighbours, uptime, rounds>>

\* A Neighbour TLV, which only a neighbour is listened to for.
\* trust_neighbour opens a socket and connects it to the address: whether the
\* kernel accepts is not known here, so the step for an accepted address may
\* or may not happen.
ApplyTlvNeighbour(src, p) ==
  /\ src \in DOMAIN g_neighbours
  /\ p \notin DOMAIN g_neighbours
  /\ g_environs' = g_environs \cup {p}
  /\ sent' = {}
  /\ UNCHANGED <<g_neighbours, uptime, rounds>>

\* A GoAway.  Code 1 (the sender leaves the network) removes it from the
\* table it is in, codes 0, 2, 3 and 4 demote it; other codes are ignored.
ApplyTlvGoaway(src, code) ==
  /\ sent' = {}
  /\ UNCHANGED <<uptime, rounds>>
  /\ \/ /\ code \in {0, 2, 3, 4}
        /\ FromNeighboursToEnv({src})
     \/ /\ code = 1
        /\ g_neighbours' = RemoveKeys(g_neighbours, {src})
        /\ g_environs' = IF src \in DOMAIN g_neighbours THEN g_environs
                         ELSE g_environs \ {src}

\* The user's connect command, and the address given on the command line: a
\* short Hello, then the address is handled as if a Neighbour TLV announced it.
MakeDemand(p) ==
  /\ g_environs' \in {g_environs, g_environs \cup ({p} \ DOMAIN g_neighbours)}
  /\ sent' = {[dest |-> p, type |-> "hello_short"]}
  /\ UNCHANGED <<g_neighbours, uptime, rounds>>

-----------------------------------------------------------------------------
(* The sender threads *)

\* The sleep is over: the round works on a copy of the table.
Wake(t) ==
  /\ t \in Sender \ awake
  /\ awake' = awake \cup {t}
  /\ n_list' = [n_list EXCEPT ![t] = g_neighbours]
  /\ todo' = [todo EXCEPT ![t] = DOMAIN g_neighbours]
  /\ sent' = {}
  /\ UNCHANGED <<g_neighbours, g_environs, uptime, hellos>>

\* Mutants of the time-out: a second early, never.
TimedOut_Early(t, p) == n_list[t][p].hello >= Recent
TimedOut_Never(t, p) == n_list[t][p].hello > Recent + 1

\* The last Hello, of either kind, that the copy knows of.
TimedOut(t, p) == IsMoreThanTwo(n_list[t][p].hello)

\* A node whose demotion fails is skipped.
Skipped(t, p) == TimedOut(t, p) /\ p \notin DOMAIN g_neighbours

\* The next node of the copy is demoted if its date there is old, whatever
\* the table says by then, and sent tlvs unless it is skipped.
Visit(t, p, tlvs) ==
  LET late == {q \in {p} : TimedOut(t, q)} IN
  /\ t \in awake
  /\ p \in todo[t]
  /\ todo' = [todo EXCEPT ![t] = @ \ {p}]
  /\ FromNeighboursToEnv(late)
  /\ sent' = GoAways(late, 2) \cup (IF Skipped(t, p) THEN {} ELSE tlvs)
  /\ UNCHANGED <<uptime, awake, n_list>>

\* The last node has been visited: the copy is freed, the thread sleeps.
Sleep(t) ==
  /\ t \in awake
  /\ todo[t] = {}
  /\ awake' = awake \ {t}
  /\ n_list' = [n_list EXCEPT ![t] = [p \in {} |-> {}]]
  /\ UNCHANGED <<g_neighbours, g_environs, uptime, todo>>

\* send_hello_long: a node is sent a long Hello and counted, even one that
\* was just demoted.
HelloLongNode(p) ==
  /\ Visit("hello_sender", p,
           {HelloLongTo(p, n_list["hello_sender"][p].id)})
  /\ hellos' = IF Skipped("hello_sender", p) THEN hellos ELSE hellos + 1

\* send_hello_short tops the count up to MIN with potential neighbours, in
\* the order of the hash table.
HelloShort ==
  /\ Sleep("hello_sender")
  /\ LET shorts == IF hellos < MIN THEN MIN - hellos ELSE 0
     IN  \E S \in SUBSET g_environs :
           /\ Cardinality(S) <= shorts
           /\ Cardinality(S) < shorts => S = g_environs
           /\ sent' = {[dest |-> p, type |-> "hello_short"] : p \in S}
  /\ hellos' = 0

\* send_neighbour: a node is told of the others whose Hello is recent.
NeighbourNode(p) ==
  /\ Visit("neighbour_sender", p,
       LET list == n_list["neighbour_sender"]
       IN  {[dest |-> p, type |-> "neighbour", addr |-> q] :
              q \in {r \in DOMAIN list \ {p} : ~TimedOut("neighbour_sender", r)}})
  /\ UNCHANGED hellos

NeighbourDone ==
  /\ Sleep("neighbour_sender")
  /\ sent' = {}
  /\ UNCHANGED hellos

HelloSender ==
  Wake("hello_sender") \/ HelloShort \/ \E p \in IpPort : HelloLongNode(p)

NeighbourSender ==
  Wake("neighbour_sender") \/ NeighbourDone \/ \E p \in IpPort : NeighbourNode(p)

-----------------------------------------------------------------------------
HelloFrom(p) ==
  \/ \E id \in Id : ApplyHelloCourt(p, id)
  \/ \E id, to \in Id : ApplyHelloLong(p, id, to)

GoAwayFrom(p) == \E code \in GoAwayCode : ApplyTlvGoaway(p, code)

TableStep ==
  \/ \E p \in IpPort : HelloFrom(p)
  \/ \E src, p \in IpPort : ApplyTlvNeighbour(src, p)
  \/ \E p \in IpPort : GoAwayFrom(p)
  \/ \E p \in IpPort : MakeDemand(p)
  \/ HelloSender
  \/ NeighbourSender

-----------------------------------------------------------------------------
(* Correctness *)

\* The rounds of the senders: the nodes still to visit are nodes of the copy.
RoundsOK ==
  /\ awake \subseteq Sender
  /\ n_list \in [Sender -> Table]
  /\ todo \in [Sender -> SUBSET IpPort]
  /\ \A t \in Sender : todo[t] \subseteq DOMAIN n_list[t]
  /\ hellos \in Nat

\* Type invariant of the tables, the clock, the output of a step and the
\* rounds of the senders.
TypeOK ==
  /\ g_neighbours \in Table
  /\ g_environs \subseteq IpPort
  /\ uptime \in Age
  /\ sent \subseteq VoisinTlv
  /\ RoundsOK

\* No address is a neighbour and a potential neighbour at once: every handler
\* that moves an address takes it out of the table it was in (voisin.c).
TablesDisjoint == DOMAIN g_neighbours \cap g_environs = {}

=============================================================================
