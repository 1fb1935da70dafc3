----------------------------- MODULE Voisinage ------------------------------
(***************************************************************************)
(* The life of the neighbour tables while the main loop runs: the clock,   *)
(* the handlers and the senders of Voisin, and what the flooding does to   *)
(* the tables.  Of the messages being flooded only the addresses they have *)
(* still to reach are kept (Inondation has the messages themselves).       *)
(*                                                                         *)
(* leave_network empties the tables once the loop is left: see Lifecycle.  *)
(***************************************************************************)
EXTENDS Voisin

VARIABLE recipients  (* addresses some message has still to reach          *)

voisinVars == <<tableVars, recipients>>

VoisinInit == Init /\ recipients = {}

-----------------------------------------------------------------------------
(* The flooding.  sent holds what concerns the tables only: the Data TLVs of *)
(* a turn and the Acks are in Inondation.                                    *)

\* create_message chooses symmetric neighbours: those that do not have the
\* id of the message's author.
FloodStarts(author) ==
  /\ recipients' = recipients \cup
       {p \in DOMAIN g_neighbours : IsSymetric(p) /\ g_neighbours[p].id # author}
  /\ sent' = {}
  /\ UNCHANGED <<g_neighbours, g_environs, uptime, rounds>>

\* An address has acknowledged, or was struck off by a turn.
RecipientStruckOff(p) ==
  /\ p \in recipients
  /\ recipients' = recipients \ {p}
  /\ sent' = {}
  /\ UNCHANGED <<g_neighbours, g_environs, uptime, rounds>>

\* flood_goaway gives up the recipients a message has left; other messages may
\* still have them.
RecipientsGivenUp(R) ==
  /\ R \subseteq recipients
  /\ UpdateNeighbours(R, 2)
  /\ recipients' \in {recipients, recipients \ R}
  /\ UNCHANGED <<uptime, rounds>>

-----------------------------------------------------------------------------
VoisinNext ==
  \/ (Tick \/ TableStep) /\ UNCHANGED recipients
  \/ \E author \in Id : FloodStarts(author)
  \/ \E p \in IpPort : RecipientStruckOff(p)
  \/ \E R \in SUBSET IpPort : RecipientsGivenUp(R)

\* The clock runs and both sender threads go on: each loops for ever around a
\* sleep, whatever the other threads do.
VoisinFairness ==
  /\ WF_voisinVars(Tick /\ UNCHANGED recipients)
  /\ WF_voisinVars(HelloSender /\ UNCHANGED recipients)
  /\ WF_voisinVars(NeighbourSender /\ UNCHANGED recipients)

VoisinSpec == VoisinInit /\ [][VoisinNext]_voisinVars /\ VoisinFairness

-----------------------------------------------------------------------------
(* Correctness *)

\* A sender may demote a neighbour that is symmetric, as it looks at a copy of
\* the table: but only one that was not symmetric there, and whose long Hello
\* came while the round was under way (send_thread.c:103 and :210, against
\* is_symetric, which the flooding relies on).
SendersSpareSymetric ==
  [][ \A t \in Sender : \A p \in todo[t] \ todo'[t] :
        IsSymetric(p) /\ p \notin DOMAIN g_neighbours' =>
          IsMoreThanTwo(n_list[t][p].long_hello) ]_voisinVars

Known == DOMAIN g_neighbours \cup g_environs

\* An address is forgotten when it says GoAway.  Otherwise only a potential
\* neighbour is, one that left the neighbours after a sender copied it or the
\* flooding chose it as one of them (the rollback of from_neighbours_to_env): a
\* neighbour that is given up stays known.
NoPeerForgotten ==
  [][ \A p \in Known : p \notin Known' =>
        \/ GoAwayFrom(p)
        \/ /\ p \in g_environs
           /\ p \in recipients \cup UNION {todo[t] : t \in Sender} ]_voisinVars

\* A neighbour keeps the id it was recorded with for as long as it stays in
\* the table: a Hello with another id is refused (apply_hello_court, _long).
IdIsStable ==
  [][ \A p \in DOMAIN g_neighbours \cap DOMAIN g_neighbours' :
        g_neighbours'[p].id = g_neighbours[p].id ]_voisinVars

\* is_symetric becomes true of an address by a long Hello it sends to us.  The
\* one exception is a newcomer's short Hello while the machine has been up for
\* Recent seconds at most, the date of the long Hello it never sent being zero.
SymetricByLongHello ==
  [][ \A p \in IpPort : ~IsSymetric(p) /\ IsSymetric(p)' =>
        \/ \E id \in Id : ApplyHelloLong(p, id, MyId)
        \/ /\ ~IsMoreThanTwo(uptime)
           /\ p \notin DOMAIN g_neighbours
           /\ \E id \in Id : ApplyHelloCourt(p, id) ]_voisinVars

\* A peer that falls silent does not stay a neighbour: hello_sender or
\* neighbour_sender demotes it after the time-out.
SilentPeerLeaves ==
  \A p \in IpPort :
    <>[][~HelloFrom(p)]_voisinVars => <>[](p \notin DOMAIN g_neighbours)

=============================================================================
