----------------------------- MODULE Inondation -----------------------------
(***************************************************************************)
(* Reliable flooding as one Floodus node does it (inondation.c): the list  *)
(* g_floods of messages being flooded, kept in the order of their          *)
(* send_time, on top of the neighbour tables of Voisin.                    *)
(*                                                                         *)
(* The other nodes are the environment: any Data or Ack TLV can arrive     *)
(* from any address at any time, twice, late or never.                     *)
(*                                                                         *)
(* send_time is kept relative to the clock: the seconds left before the    *)
(* message is due, 0 when it is overdue.  Two overdue messages keep their  *)
(* order in the list, and a message is only ever inserted with a send_time *)
(* in the future, so nothing the code compares is lost.                    *)
(***************************************************************************)
EXTENDS Voisin, Sequences

CONSTANTS
  COUNT_INOND,  (* a message is dropped when its count exceeds this: 5     *)
  MaxNonce,     (* bound of the model: nonces in use                       *)
  MaxMine       (* bound of the model: messages the user writes            *)

ASSUME InondationAssumption ==
  /\ COUNT_INOND \in Nat
  /\ MaxNonce \in Nat
  /\ MaxMine \in 0..MaxNonce

\* pow(2, count), which the provers have no theory for.
ASSUME PowerAssumption ==
  /\ 2^0 = 1
  /\ \A n \in 0..(COUNT_INOND + 2) : 2^(n + 1) = 2 * 2^n

VARIABLES
  g_floods,   (* list of message_t                                         *)
  g_nonce,    (* nonce of the last message written by the user             *)
  shown,      (* messages the last step displayed (traitment_data)         *)
  lastShown   (* history: seconds since each message was last displayed,   *)
              (* saturated at Window, which also stands for never          *)

floodVars == <<g_floods, g_nonce, shown, lastShown>>
vars == <<tableVars, floodVars>>

-----------------------------------------------------------------------------
(* Types *)

Nonce == 1..MaxNonce
Key   == [id: Id, nonce: Nonce]

\* The longest delay flood_message can draw, and the least time an entry
\* spends in the list: 1 second, then at least 2, 4, ... 2^(COUNT_INOND+1).
MaxDelay == 2^(COUNT_INOND + 2) - 1
Window   == 2^(COUNT_INOND + 2) - 1

\* message_t.  recipient maps every address still to be flooded to the number
\* of Data TLVs already queued for it; the code keeps the addresses only.
Sends   == 0..(COUNT_INOND + 1)
Message == [key: Key, count: Sends, send_time: 0..MaxDelay,
            recipient: UNION {[R -> Sends] : R \in SUBSET IpPort}]

DataTlv == [dest: IpPort, type: {"data"}, key: Key]
AckTlv  == [dest: IpPort, type: {"ack"}, key: Key]

-----------------------------------------------------------------------------
(* The list *)

\* Mutant: only the first message of the list is compared.
ContainsMessage_HeadOnly(key) == g_floods # <<>> /\ Head(g_floods).key = key

ContainsMessage(key) == \E i \in DOMAIN g_floods : g_floods[i].key = key

\* The position contains_message stops at.
FirstOf(key) ==
  CHOOSE i \in DOMAIN g_floods :
    /\ g_floods[i].key = key
    /\ \A j \in 1..(i - 1) : g_floods[j].key # key

\* Mutant: the message is always put at the head.
Before_Head(list, msg) == 0

\* insert_message walks past the messages that are due before msg.
Before(list, msg) ==
  CHOOSE n \in 0..Len(list) :
    /\ \A i \in 1..n : list[i].send_time < msg.send_time
    /\ n < Len(list) => list[n + 1].send_time >= msg.send_time

InsertMessage(list, msg) ==
  LET n == Before(list, msg)
  IN  [i \in 1..(Len(list) + 1) |->
         IF i <= n THEN list[i] ELSE IF i = n + 1 THEN msg ELSE list[i - 1]]

\* create_message: every symmetric neighbour but the originator's.  The
\* sender of the Data is not left out: the memcmp that should exclude it
\* compares its address with the data_t that holds the neighbour's.
CreateMessage(key) ==
  [key |-> key, count |-> 0, send_time |-> 1,
   recipient |-> [p \in {q \in DOMAIN g_neighbours :
                           IsSymetric(q) /\ g_neighbours[q].id # key.id} |-> 0]]

StruckOff(msg, src) == [msg EXCEPT !.recipient = RemoveKeys(@, {src})]

RemoveSender(src, key) ==
  [g_floods EXCEPT ![FirstOf(key)] = StruckOff(@, src)]

-----------------------------------------------------------------------------
InondationInit ==
  /\ Init
  /\ g_floods = <<>>
  /\ g_nonce = 0
  /\ shown = {}
  /\ lastShown = [k \in Key |-> Window]

\* A Data TLV from a symmetric neighbour is acknowledged whether or not the
\* message is in the list; from anybody else it is skipped.
ApplyTlvData(src, key) ==
  /\ IsSymetric(src)
  /\ sent' = {[dest |-> src, type |-> "ack", key |-> key]}
  /\ \/ /\ ~ContainsMessage(key)
        /\ g_floods' = InsertMessage(g_floods, CreateMessage(key))
        /\ shown' = {key}
        /\ lastShown' = [lastShown EXCEPT ![key] = 0]
     \/ /\ ContainsMessage(key)
        /\ g_floods' = RemoveSender(src, key)
        /\ shown' = {}
        /\ UNCHANGED lastShown
  /\ UNCHANGED <<g_neighbours, g_environs, uptime, rounds, g_nonce>>

\* An Ack counts whoever it comes from.
ApplyTlvAck(src, key) ==
  /\ ContainsMessage(key)
  /\ g_floods' = RemoveSender(src, key)
  /\ sent' = {}
  /\ shown' = {}
  /\ UNCHANGED <<g_neighbours, g_environs, uptime, rounds, g_nonce, lastShown>>

\* Mutant: the incremented nonce is not stored.
AddMyMessage_Ahead ==
  /\ g_nonce < MaxMine
  /\ g_floods' = InsertMessage(g_floods,
                   CreateMessage([id |-> MyId, nonce |-> g_nonce + 1]))
  /\ sent' = {}
  /\ shown' = {}
  /\ UNCHANGED <<g_neighbours, g_environs, uptime, rounds, g_nonce, lastShown>>

\* The user sends a line: the nonce is incremented first, the list is not
\* searched.
AddMyMessage ==
  /\ g_nonce < MaxMine
  /\ g_nonce' = g_nonce + 1
  /\ g_floods' = InsertMessage(g_floods,
                   CreateMessage([id |-> MyId, nonce |-> g_nonce + 1]))
  /\ sent' = {}
  /\ shown' = {}
  /\ UNCHANGED <<g_neighbours, g_environs, uptime, rounds, lastShown>>

-----------------------------------------------------------------------------
(* One turn of launch_flood's loop: the head of the list, when it is due.  *)
(* Messages due in the same second can be a fraction of it apart, so the   *)
(* main loop may read a datagram between two of them.                      *)

Due == g_floods # <<>> /\ Head(g_floods).send_time = 0

\* Mutants of the bound: one turn too few, one turn too many.
Exhausted_Early(msg) == msg.count >= COUNT_INOND
Exhausted_Late(msg)  == msg.count > COUNT_INOND + 1

Exhausted(msg) == msg.count > COUNT_INOND

\* Mutant: the recipients are taken from the neighbour table again.
Flooded_Again(msg, delay) ==
  [key |-> msg.key, count |-> msg.count + 1, send_time |-> delay,
   recipient |-> [p \in {q \in DOMAIN g_neighbours : IsSymetric(q)} |->
                    msg.count + 1]]

\* Recipients that are no longer symmetric are struck off for good.
Flooded(msg, delay) ==
  [key |-> msg.key, count |-> msg.count + 1, send_time |-> delay,
   recipient |-> [p \in {q \in DOMAIN msg.recipient : IsSymetric(q)} |->
                    msg.recipient[p] + 1]]

FloodData ==
  /\ Due
  /\ LET msg == Head(g_floods)
         add_time == 2^(msg.count + 1) .. 2^(msg.count + 2) - 1
     IN  /\ ~Exhausted(msg)
         /\ \E delay \in add_time :
              g_floods' = InsertMessage(Tail(g_floods), Flooded(msg, delay))
         /\ sent' = {[dest |-> p, type |-> "data", key |-> msg.key] :
                       p \in {q \in DOMAIN msg.recipient : IsSymetric(q)}}
  /\ shown' = {}
  /\ UNCHANGED <<g_neighbours, g_environs, uptime, rounds, g_nonce, lastShown>>

\* flood_goaway: the recipients that never answered are demoted, the message
\* is forgotten.
FloodGoAway ==
  /\ Due
  /\ Exhausted(Head(g_floods))
  /\ UpdateNeighbours(DOMAIN Head(g_floods).recipient, 2)
  /\ g_floods' = Tail(g_floods)
  /\ shown' = {}
  /\ UNCHANGED <<uptime, rounds, g_nonce, lastShown>>

LaunchFlood == FloodData \/ FloodGoAway

-----------------------------------------------------------------------------
Sooner(msg) == [msg EXCEPT !.send_time = IF @ = 0 THEN 0 ELSE @ - 1]

\* A second passes for the tables and for the list.
Second ==
  /\ Tick
  /\ g_floods' = [i \in DOMAIN g_floods |-> Sooner(g_floods[i])]
  /\ shown' = {}
  /\ lastShown' = [k \in Key |->
       IF lastShown[k] < Window THEN lastShown[k] + 1 ELSE Window]
  /\ UNCHANGED g_nonce

\* The other handlers and the sender threads leave the list alone.
Tables ==
  /\ TableStep
  /\ shown' = {}
  /\ UNCHANGED <<g_floods, g_nonce, lastShown>>

\* Keys a Data TLV can carry: this node's own messages only come back to it
\* once they have been sent.
KeysAbroad == {k \in Key : k.id = MyId => k.nonce <= g_nonce}

InondationNext ==
  \/ Second
  \/ Tables
  \/ \E src \in IpPort, key \in KeysAbroad : ApplyTlvData(src, key)
  \/ \E src \in IpPort, key \in Key : ApplyTlvAck(src, key)
  \/ AddMyMessage
  \/ LaunchFlood

\* launch_program calls launch_flood whenever the head of the list is due
\* (get_nexttime), and the clock runs.
InondationSpec ==
  /\ InondationInit
  /\ [][InondationNext]_vars
  /\ WF_vars(Second)
  /\ WF_vars(LaunchFlood)

-----------------------------------------------------------------------------
(* Correctness *)

\* Type invariant of the list and of the histories.
FloodTypeOK ==
  /\ g_floods \in Seq(Message)
  /\ g_nonce \in 0..MaxMine
  /\ shown \subseteq Key
  /\ lastShown \in [Key -> 0..Window]
  /\ g_neighbours \in Table
  /\ g_environs \subseteq IpPort
  /\ uptime \in Age
  /\ RoundsOK
  /\ sent \subseteq VoisinTlv \cup DataTlv \cup AckTlv

\* launch_flood stops at the first message that is not due: nothing behind
\* the head may be due before it (insert_message).
Sorted ==
  \A i, j \in DOMAIN g_floods :
    i < j => g_floods[i].send_time <= g_floods[j].send_time

\* A message is flooded once: contains_message, which stops at the first
\* match, stands for the whole list.
OneEntryPerMessage ==
  \A i, j \in DOMAIN g_floods :
    g_floods[i].key = g_floods[j].key => i = j

\* Whoever is still a recipient was sent the message at every turn so far.
SendsMatchCount ==
  \A i \in DOMAIN g_floods : \A p \in DOMAIN g_floods[i].recipient :
    g_floods[i].recipient[p] = g_floods[i].count

\* This node's messages in the list are ones the user has written: the next
\* nonce is free, and add_message need not search the list for it.
OwnNoncesInUse ==
  \A i \in DOMAIN g_floods :
    g_floods[i].key.id = MyId => g_floods[i].key.nonce <= g_nonce

\* The turns a message has had account for the time since it was displayed:
\* 1 + 2 + ... + 2^count seconds by its next turn, all of Window once it has
\* left the list.
TurnsTakeTime ==
  /\ \A i \in DOMAIN g_floods :
       LET msg == g_floods[i]
       IN  \/ lastShown[msg.key] = Window
           \/ 2^(msg.count + 1) <= lastShown[msg.key] + msg.send_time + 1
  /\ \A key \in Key : ~ContainsMessage(key) => lastShown[key] = Window

\* Flooding demotes a neighbour only after sending it the message
\* COUNT_INOND + 1 times without an answer (flood_message, flood_goaway).
DemotedAfterAllSends ==
  [][ \A p \in DOMAIN g_neighbours :
        LaunchFlood /\ p \notin DOMAIN g_neighbours' =>
          Head(g_floods).recipient[p] = COUNT_INOND + 1 ]_vars

Recipients(list, key) ==
  UNION {DOMAIN list[i].recipient : i \in {j \in DOMAIN list : list[j].key = key}}

\* While a message is in the list its recipients only dwindle: whoever
\* acknowledged it, or was struck off, is never sent it again.
RecipientsDwindle ==
  [][ \A key \in Key :
        ContainsMessage(key) =>
          Recipients(g_floods', key) \subseteq Recipients(g_floods, key) ]_vars

\* A message displayed is not displayed again before the list has had it for
\* Window seconds: a copy that comes back meanwhile is recognised.
NotShownTwiceWithin ==
  [][ \A key \in shown' : lastShown[key] = Window ]_vars

\* What the list promises (see Diffusion): the messages in it, and for each
\* the addresses still to be flooded.
Owing == [key \in {g_floods[i].key : i \in DOMAIN g_floods} |->
            DOMAIN g_floods[FirstOf(key)].recipient]

Diffusion == INSTANCE Diffusion WITH remembered <- Owing

\* The list implements the abstract memory of messages: no step of the
\* tables, of the clock or of the flooding shows through as anything else.
ImplementsDiffusion == Diffusion!Spec

\* A Data TLV is an acknowledgement: its sender is taken off the recipients
\* (the comment of contains_message, inondation.c:162, and the report's "sauf
\* la source du TLV data", rapport/projectemplate.tex:210).
SenderIsStruckOff ==
  [][ \A src \in IpPort, key \in KeysAbroad :
        ApplyTlvData(src, key) => src \notin Recipients(g_floods', key) ]_vars

=============================================================================
