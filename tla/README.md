# A formal model of Floodus

Floodus (`src/`) is a peer-to-peer chat written in C. Every node keeps two
tables of other nodes, floods the messages of its user and of the others to its
neighbours over UDP/IPv6, and repeats each one until it is acknowledged. A node
is three threads: a main loop (`controller.c`) that reads datagrams, commands
and a clock, and two periodic threads (`send_thread.c`). The repository has no
tests; its report is `src/rapport/projectemplate.tex`.

This directory holds TLA+ modules for the node's own logic, TLC configurations
that check them on small instances, and TLAPS proofs for every value of the
constants.

    tlc -config Voisin_tables.cfg MCVoisin      one run
    tlapm InondationProofs.tla                  one proof module

## 1. The system

| part | state | operations | talks to |
|---|---|---|---|
| neighbour tables, `voisin.c` | `g_neighbours` (address -> id, date of the last Hello, date of the last long Hello), `g_environs` (potential neighbours), one lock each | handlers of Hello, Neighbour, GoAway; demotion `update_neighbours`; `is_symetric`; `leave_network` | hash table, write buffer; called by the reader, the flooding and both senders |
| periodic senders, `send_thread.c`, `pthread_var.c` | a private copy of a table per round | every 30 s long Hellos to the neighbours, short ones to potentials; every 60 s Neighbour TLVs; both demote what timed out | tables (under their locks), write buffer |
| reliable flooding, `inondation.c` | `g_floods`, list of messages by `send_time`, each with its recipients and a count | `apply_tlv_data`, `apply_tlv_ack`, `add_message`, `launch_flood` | tables, write buffer, long messages |
| long messages, `data.c` | `g_nonce`, `g_big_data_map` of messages being put together | `add_my_message`, `send_big_data`, `traitment_data`, `clear_big_data` | flooding, view |
| write buffer, `writer.c` | `g_write_buf`, list of TLVs per destination, one lock | `add_tlv` by any thread, `send_buffer_tlv` by the main loop | socket |
| reader, `reader.c` | `g_ancillary` (address the node was reached at) | `read_msg`, one function per TLV type | handlers above |
| main loop, `controller.c` | `run`, retry count, `errno` | `pselect`, then input, read, write, flood | all of the above |
| requests, `make_demand.c` | none | short Hello to an address, then as a Neighbour TLV | write buffer, tables |
| start and stop, `Main.c` | none | start threads, create tables; on exit GoAway to all, cancel, free | all |
| hash table, `hashmap.c` | 4096 chains | get, insert, remove, copy as a list | everyone |
| `TLV.c`, `iovec.c`, `view.c`, `debug.c` | windows, log file | build TLVs, byte buffers, ncurses, logs | - |

What makes each of them correct, and what is hard about it:

* **Tables.** An address is in one table at most; only a long Hello addressed to
  us makes a neighbour symmetric; a silent peer is demoted in the end, and a
  neighbour that is given up stays known as a potential one; a sender demotes
  nobody its copy says is symmetric. Hard: a move between tables is two critical
  sections; the senders and the flooding give up whom they chose earlier, and
  giving up an address twice erases it; there are two dates with one time-out.
* **Locks.** Order `g_neighbours`, `g_environs`, buffer; every return gives
  back what was taken. Hard: early returns, and one path that takes
  `g_environs` twice around `g_neighbours`.
* **Flooding.** The list is ordered; a message has one entry and is displayed
  once while it lasts; recipients only dwindle; a neighbour is demoted after
  six unanswered sends, no sooner; every entry leaves. Hard: duplicates, Acks
  at any time, tables that change between turns, time.
* **Long messages.** Nonces never clash; fragments rebuild the message whatever
  their order; what is displayed is complete. Hard: copies, time-outs looked at
  only when a Data arrives, the last fragment.
* **Write buffer.** Nothing is dropped; order per destination. Hard: first fit, the second packet, a half-sent node.
* **Reader.** Every TLV of a datagram is treated, or skipped as a whole, and the
  walk ends. Hard: each of the eight TLV functions has its own early returns, and
  a TLV changes how the next ones of its datagram are taken.
* **Main loop.** A network that is down gets five rounds in a row; messages are
  flooded when their time comes. Hard: every decision is taken from `errno`,
  which successful calls leave alone.
* **Stop.** Every neighbour is told, the buffer is sent, the process ends. Hard:
  the senders are cancelled, not joined, and go on until they sleep.
* **Hash table.** It is the function everyone takes it for, whatever collides.
* **Several nodes.** A message reaches whoever a chain of links leads to, once,
  and nobody is given up for less faults than the flooding has retries. Hard:
  losses, delays and copies on one side, a memory that forgets on the other.

`PROJECT.json` lists these hazards at their lines with the properties that
watch them.

## 2. The modules

| module | models |
|---|---|
| `Voisin` | the two tables: a handler per step, and a sender's round as a copy, then a step per node of it |
| `Voisinage` | extends `Voisin` with what the flooding does to the tables: their specification and its properties |
| `Inondation` | extends `Voisin` with the list of messages, one turn of `launch_flood` per step |
| `Diffusion` | what flooding promises in one node, abstractly: a memory of messages and of the addresses that still owe an Ack |
| `Reseau` | the flooding of one message in several nodes, over a network that loses, delays and repeats |
| `Propagation` | what `Reseau` promises, abstractly: a message that spreads over the links in use |
| `SendThread` | the three threads on the three locks, one lock operation per step |
| `Lifecycle` | extends `SendThread` with the buffer's contents and the stop of the process |
| `Writer` | the write buffer |
| `BigData` | cutting and reassembly of long messages, several writers and one reader |
| `Reader` | the walk of `read_tlv` over the bytes of a datagram |
| `Controller` | extends `Reader` with the main loop around it |
| `Hashmap` | the array of chains |
| `*Proofs` | theorems about the module they are named after, and about those it extends |
| `Arithmetic` | lemmas of the proofs: least number, induction over a set, powers |
| `MC*` | values of the constants for TLC |

### Voisin and Voisinage

`g_neighbours` is a function from addresses to `neighbour_t` records,
`g_environs` a set. Dates are ages in seconds, saturated just after the time-out,
since `is_more_than_two` is the only question the code asks of them. `uptime` is
the age of the all-zero date a neighbour has before its first long Hello.
`sent` is what the step handed to `add_tlv`. Handlers: `ApplyHelloCourt`,
`ApplyHelloLong`, `ApplyTlvNeighbour`, `ApplyTlvGoaway`, `MakeDemand`. One that
returns early without changing anything is a stutter and has no action. `trust_neighbour` asks the
kernel whether it can connect: both answers are possible. Failures of `malloc`
and of `clock_gettime` are not modelled.

A sender copies the table and gives the lock back before it looks at anyone
(`send_thread.c:143-147`, `273-277`). `Wake` takes the copy into `n_list`;
`HelloLongNode` and `NeighbourNode` each treat one node of `todo`, as its dates in
the copy say, by `update_neighbours` on the table as it is by then; `HelloShort`
and `NeighbourDone` end the round. Handlers, seconds and the other sender come
between. The ages in a copy go on growing: the dates in it do not change, the
clock does.

`Voisinage` adds the flooding as the tables see it: `recipients` is the set of
addresses some message has still to reach, chosen while symmetric
(`FloodStarts`), struck off one by one, and given up by `flood_goaway` whatever
table they are in by then (`RecipientsGivenUp`). When they are given up is for
`Inondation` to say. `leave_network` empties the tables when the main loop is
over, and is in `Lifecycle`.

### SendThread

`pc` names the next thing each thread does, `owner` who holds each lock. The two
halves of `from_neighbours_to_env` (`MoveIn`, `MoveOut`, or `MoveFails` and
`Undo`) are separate steps. Copies (`list`), the addresses left in the outer and
inner loops (`todo`, `rest`) are per thread. Dates are only recent or stale. The
two unlocks at the end of a handler are one step: between them the thread waits
for nothing and changes nothing. The main thread may take any handler for any
address, which includes what flooding does (`flood_goaway`).

### Inondation and Diffusion

`send_time` is the number of seconds left. `recipient` carries a ghost count of
the sends, the code keeps the addresses only. `lastShown` is a history variable.
Any Data or Ack may arrive from any address at any time, as often as it likes:
loss, duplication, delay and reordering of datagrams are all behaviours of the
model. Only a Data carrying a message of this node that was never written is
ruled out. A user message is of type 0 here; the fragments of a long one are as
many calls of `add_message` with nonces that `BigData` studies.
`Diffusion` is the abstract memory: accept a message, strike addresses off,
forget a message, display at most on acceptance.

### Writer

A TLV is its length and a tag. `AddTlv` is first fit as in `add_tlv`;
`SendNode`, `SendHalf` and `SendFails` are the three ways out of
`send_buffer_tlv`. The path MTU is any member of `Pmtu` at each send. All of it
runs under one lock, so a function is a step.

### BigData

Several writers number their TLVs from their own `g_nonce`; the network delivers
each TLV up to `Copies` times, two copies at least `Again` seconds apart, the
time the flooding list recognises one (`NotShownTwiceWithin` proves it). A byte
is the rank of the message it belongs to, so that mixing two messages or
displaying a hole shows.

### Reader

`datagram` is a sequence of bytes with, as a history, where its writer began its
TLVs; `head` is `head_reader`, from 0 as in the code. One action per TLV function
of `tlv_function_call`, with `TlvOverflows` (the length test they share) and
`TlvFromStranger` (the test of Neighbour and Data) apart. What a handler does to
the tables is in `Voisin` and `Inondation`: here only the standing of the source,
which decides later refusals in the same datagram. `ReadMsg` is `read_msg`, with
the check of the local address; a header that does not match is `IgnoreMsg`.

### Controller

One action per stage of a round of `launch_program`; `pc` names the stage. `errno`
has the four values the code distinguishes. Calls that succeed leave it alone;
`get_pmtu` clears it; the trial connection of a Neighbour TLV, the resolver, an
`EAGAIN` that was tried again leave theirs; the first connection (`Main.c:159`)
may leave any before the loop begins. `Meanwhile` is what the senders and
the clock do between two stages, `SigInt` the signal.

### Lifecycle

The labels and steps are those of `SendThread`; `buffer` adds what the write
buffer holds for each address (nothing, TLVs, or a GoAway among them), since
`SendThread` only knows its lock. The stages `copy`, `leave`, `drain`, `free_*`
are `leave_network`, `destroy_thread`, the sending loop and the frees of
`finisher`. `pthread_cancel` acts in `sleep`, the only cancellation point of a
sender's loop. A sender that takes the lock of a freed table finds it empty, or
the process is killed (`Killed`): what the C program does there is undefined.

### Reseau and Propagation

`Reseau` has the flooding of one message in every node: the entry, its count and
its time, the recipients, the symmetric neighbours. A TLV on its way is delivered,
delivered and kept (a copy), lost, or late. Loss and lateness (a second passes
while it is on its way) are faults, and each link may have so many. `Propagation`
has the set of nodes reached and the links both ends still use. Its fairness says
that a message which can still go over a link in use does.

### Hashmap

A table is an array of sequences of nodes, `hash` any function into the array.
`AsFunction` is what the other modules take a table for, `WellBuilt` its
invariant.

## 3. The runs

| run | instance | states | shows |
|---|---|---|---|
| `Voisin_tables` | 2 addresses, 2 ids, time-out 0 s, `hello_sender`, a machine just started or long up | 193,648 | every table rule above, and that a silent peer leaves; its assumption `ChainsAreFunctions` compares `Hashmap` with functions after every sequence of five calls on three keys of which two collide |
| `Inondation_flood` | 1 address, 2 writers with 1 message each, 2 turns | 322,088 | order, one entry, own nonces, time of the turns, demotion only after all of them, recipients dwindle, no repeat within the window |
| `Inondation_expiry` | 1 address, received messages only, 3 turns, `neighbour_sender` | 144,202 | `Diffusion` is implemented, with its fairness: in particular every message leaves the list |
| `Reseau_line` | 3 nodes in a line, 2 turns, 1 and 2 faults | 84,937 | the message reaches whom it can, once; nobody is demoted for less faults than retries |
| `SendThread_locks` | 2 addresses; both senders with 1, neighbour sender with 2 | 160,930 | locks are given back, no deadlock, both tables only inside a move |
| `Lifecycle_stop` | 2 addresses, neighbour sender, 3 calls | 217,214 | everybody is told, what was queued is sent, the process ends |
| `Controller_loop` | 40 datagrams of up to 3 TLVs, 2 local addresses, 2 retries | 368,917 | every TLV is treated, outages do not add up, a due message is flooded |
| `Writer_buffer` | 2 destinations, 4 TLVs of 1 to 3 bytes, nodes of 5 | 6,459 | grouping, overtaking only by shorter, nothing dropped, all leaves |
| `BigData_once` | 2 messages of 1, 3, 4 or 5 bytes, fragments of 2 | 25,686 | nonces, reassembly in any order, display once and whole, or a time-out |

Each property has a mutant, a plausible bug in a mapped definition, that breaks
it in the same run.

Three runs end in a violation, each of something a comment or the report says:

* `Inondation_sender`: the neighbour a new message came from stays a recipient,
  because `create_message` (`inondation.c:92`) compares an address with the
  `data_t` that holds one.
* `SendThread_lost`: `update_neighbours` on a stale copy erases from both tables
  an address another thread has demoted already (`voisin.c:146`).
* `BigData_copies`: a copy of a fragment counts again towards the length, and a
  message with a hole is displayed (`data.c:182`).

### Bounds

* Two addresses in the tables: no rule relates three. One address in
  `Inondation`: entries and their recipients do not interact except through the
  tables, and the proofs cover any number.
* `SendThread_locks`: two addresses with both senders is over ten million states.
  Its constraint `MCNarrow` explores both senders with one address, where they
  meet on the same one, and neighbour sender and main with two, for the inner loop
  of `send_neighbours`. The proofs cover the rest.
* `Recent` 0 for 120 s: an age is valid or timed out, which is all the code asks
  of it, and a second is enough to time out while a round is under way.
* `Sender`: `Voisin_tables` has two addresses and `hello_sender`, `Inondation_expiry`
  one and `neighbour_sender`. The two differ in what they send, not in whom they
  demote. What the second adds to the tables are more demotions from an older
  copy, which the flooding makes as well (`RecipientsGivenUp`). Both senders with
  one address (9,368 states) pass too. `Inondation_flood` has none: whatever a
  sender does to the tables, the GoAways with codes 0, 2, 3 and 4 do at any
  moment. The proofs cover both, with any addresses.
* `COUNT_INOND` 1 or 2 for 5, so two or three turns before the GoAway.
* `MIN` 1 or 2 for 8, so that the short Hellos are sometimes sent, and sometimes
  cut short.
* `Boot`: `Voisin_tables` starts on a machine just up, where the all-zero date is
  recent (observation below), and on one up for longer than the time-out. The
  flooding runs have the second only.
* `Reseau_line`: the author at one end, so that the middle node passes the
  message on and the far end gets it from a node that is not its author. The
  second link may fail at both turns and then be given up, the first at one only.
  A ring of three nodes with one fault per link (377,408 states) and the same
  line with `COUNT_INOND` 2 and 2 and 3 faults (1.6 million) were checked as
  well; they are too long to be runs. The proofs cover any network.
* `Lifecycle_stop`: three calls fill the tables and leave an address in each.
  `neighbour_sender` takes the same locks as `hello_sender`, and adds TLVs in a
  nested loop.
* `Controller_loop`: every TLV type comes with a value, without the one it needs,
  and cut short, from every standing of the source; three TLVs in a row let the first change the
  standing for the second. Hellos of 1 and 2 bytes stand for those of 8 and 16.
  Two retries for five.
* `MaxNonce`, `MaxMine`, `MaxTlv`, `MaxMsg`, `MaxCalls` bound what the environment
  does.
* The deadlock check is off where the system may stop: when the `MaxTlv` TLVs of
  `Writer` are sent, when the loop of `Controller` is left, when the process of
  `Lifecycle` has ended, when `Reseau` has forgotten its one message.
* Writer's lengths 1 to 3 against a node of 5 and paths of 3 or 5: a node may
  hold one TLV or five, and be sent in one packet or two. The code's TLVs (257
  bytes at most) are always shorter than the path MTU, as assumed.

### Fairness

* `Voisinage`: the clock, and the next step of each sender. Both threads loop for
  ever around a `sleep`, and the locks they need are always given back
  (`SendThread`). Nothing is assumed of the flooding.
* `Inondation`: the clock, and `LaunchFlood` when the head is due. This is what
  `DueIsFlooded` of `Controller` shows of the main loop.
* `Controller`: the main thread goes on; nothing is assumed of the network, the
  user or the peers.
* `Lifecycle`: strong fairness of each thread. A thread waiting for a mutex gets
  it if the mutex is free again and again; each is held for a bounded time, and a
  sender sleeps 30 s or more between two rounds.
* `Reseau`: seconds pass, a node takes its turns within the second they are due,
  and a TLV that is neither lost nor late for ever arrives.
* `Writer`: some attempt at the head node succeeds. The main loop asks for a
  writable socket while the buffer is not empty; a network that refuses for ever
  ends the program.
* `BigData`: every TLV is delivered in the end, which is what the flooding is
  for. `EveryMessageSettled` is relative to it.
* `SendThread` and `Reader` state safety only.

## 4. The proofs

Every invariant of the passing runs, and every action property, is a theorem.
The assumptions are the named ASSUMEs of the modules, types of the constants for
the most part; `PowerAssumption` of `Inondation` and of `Reseau` is the rule that
defines powers of two, which the provers have no theory for and TLC evaluates.
The theorems about the reader of `BigData` have a hypothesis of their own, said
below.

Induction is over a set of naturals (`NatSetInduction`, from `LeastNatural`, in
`Arithmetic`): the library's theorems take an operator, which the provers cannot
instantiate. The sums of `Writer`, the chains of `Hashmap` and the powers of two
go through it.

* `InondationProofs`, the tables first. Types, of the tables and of the senders'
  copies, and `TablesDisjoint` are inductive together. The strengthening is in the
  type `Neighbour`: a last long Hello is never more recent than the last Hello, in
  a table or in a copy, without which `SendersSpareSymetric` does not follow. That
  property is about the copy: a sender may demote a neighbour that is symmetric,
  but only one whose long Hello came after the copy was taken. `NoPeerForgotten`
  follows action by action: a neighbour is forgotten by its own GoAway only, and a
  potential neighbour also while a round or a message still takes it for a
  neighbour. So does `IdIsStable` (a neighbour keeps its id). `SymetricByLongHello`
  has its exception in the statement: a newcomer's short Hello on a machine that
  has been up for the time-out or less.
* `InondationProofs`, the list: the invariant is the conjunction of the list
  properties and the types. `OneEntryPerMessage` is inductive only with
  `OwnNoncesInUse`, because `add_message` does not search the list for the
  user's messages. `NotShownTwiceWithin` is not inductive alone: `TurnsTakeTime`
  says that an entry at count c has used at least 2^(c+1) - 1 seconds, hence
  that one that has left has used the whole window. With the code's six sends,
  127 s. Lemmas on `InsertMessage` (it keeps order and adds one entry) carry the
  list reasoning. `SendsMatchCount` (a recipient has been sent its message as
  often as the count says) carries `DemotedAfterAllSends`. Then
  `RecipientsDwindle`, and that every step of the list is a step of `Diffusion`
  or a stutter under `Owing`.
* `HashmapProofs`: insertion and removal keep a table well built, and are the
  update and the restriction of the function it stands for (`InsertIsUpdate`,
  `RemoveIsRestriction`), for any hash. `MapToListIsComplete`: the copy the loops
  work on has every key once, with its value, and as many elements as `size`
  says. This is what lets every other module use functions.
* `ReseauProofs`, demotions: `DemotedForFaults` needs `FaultInv`.
  `TurnsAreChances` says that a recipient that still owes an Ack after c turns has
  cost its link c faults, or c - 1 while the datagrams of the last turn are within
  their second; a GoAway on its way, and a neighbour missing from a table, each
  prove a link that had more than `COUNT_INOND` faults.
  `ImplementsPropagationSafety` then needs only that whoever sends the message has
  displayed it (`Spread`).
* `ReseauProofs`, `ShownOnce`: the argument compares what a node has left to keep
  the message with what its neighbours have left to send it. `MinLeft` is the
  first, by the shortest delays of the turns that remain; `Reach(i, k)` is the
  time from turn i to turn i + k by the longest; `Tries(p, n)` is how many turns
  of p may still go unanswered by n with the faults their link has left. `Outlived`
  says a recipient that has displayed the message keeps it for longer than
  `Reach(count, Tries)` after the sender's next turn, `InTime` the same of a Data
  on its way, `Owed` that whoever displayed the message still keeps it for every
  peer that has not. A loss or a second of delay costs a try and a second at most,
  a turn moves `Reach` by its longest delay, a node that takes the message has
  more to wait than any neighbour that gave it (`NewcomerOutlives`), and the
  neighbour that waited for it has too (`ElderOutlives`): both hold because
  2^(COUNT_INOND + 2) exceeds what the longest delays of the turns left add up
  to. With `FaultInv`, `Spread` and `LinkInv` (recipients and TLVs follow links,
  none back to the author) these are inductive while no link is broken.
* `LifecycleProofs`, the threads: `OwnsByLabel` is inductive; `NoDeadlock` follows
  from it and the order of the locks; types and `BothOnlyWhileMoving` (with
  `Moving` threads tracked through the rollback) follow action by action.
* `LifecycleProofs`, the stop: `NobodyLeft` with `StillToTell`, that during
  `leave_network` a neighbour is still to be told or is the one being moved:
  senders take neighbours away but make none. `GoodbyesSent` is inductive alone.
* `ControllerProofs`: the loop implements `Reader` (`LoopImplementsReader`), so
  what is proved of the reader holds in it. `EveryTlvTreated` needs `InStep`, that
  the head stands where the writer began the TLV that comes next;
  `HeadOnlyAdvances` says the walk ends. `FailuresInARow` needs `count = failures`.
* `WriterProofs`: the five parts of `BufferInv` are inductive together. `TagsInUse`
  (nothing waits before it was added) is the strengthening, without which a TLV
  that is added could be one already sent. `SplitForWantOfRoom` and
  `OvertakenByShorter` follow from where first fit puts a TLV: lemmas on
  `TotalLen` (a sum grows by the TLV appended, is split by the two packets of a
  node) carry them, for any destinations, lengths and path MTU.
* `BigDataProofs`, the writers: `SentInv` says how the TLVs on their way were cut
  (`WellCut`) and that two of them differ in nonce, and in the bytes they carry
  when they are of one message (`Apart`). `NoncesDiffer` follows, for any number
  of copies.
* `BigDataProofs`, the reader: `ReadInv` says that an entry of `g_big_data_map` is
  what has been read of one message, that `read_nb` counts its bytes once, and
  that nothing of a displayed message is still on its way. It supposes
  `Copies <= 1`, what the flooding is for: with copies that outlive its memory
  `DisplayedWhole` fails, as the run `BigData_copies` shows. `DisplayedWhole`,
  `DisplayedOnce` and the reader's types follow from it.

Only model-checked: liveness (`SilentPeerLeaves`, `EveryTlvLeaves`,
`EveryMessageSettled`, `DueIsFlooded`, `StopEnds`, the fairness halves of
`ImplementsDiffusion` and `ImplementsPropagation`), which is out of the prover's
reach.

## 5. Observations outside the runs

Tables and senders:

* A neighbour that never sent a long Hello has date zero, which counts as recent
  in the first two minutes after boot (`voisin.c:613`).
* The comment at `voisin.c:258` says an unknown sender of a short Hello joins the
  potential neighbours; the code makes it a neighbour.
* Neighbour TLVs go to every neighbour with a recent Hello, symmetric or not
  (`send_thread.c:92`); the report (lines 142 and 180) says symmetric ones.
* After demoting a neighbour the senders still send it, in the same round, a
  long Hello or Neighbour TLVs.
* A long Hello that comes while a round is under way does not save a neighbour
  whose copied date is old: it is demoted, and told so, although it is symmetric
  by then (`SendersSpareSymetric` says this is the only case).
* `flood_goaway` on a recipient demoted meanwhile, by a sender, a GoAway or another
  message, erases it from the potential neighbours, like a sender on a stale copy;
  the main thread alone is enough. `leave_network`, on a neighbour a sender has
  demoted after the copy was taken, does the same. `NoPeerForgotten` names these
  as the ways a potential neighbour is forgotten; none is forbidden.

Buffer and long messages:

* The second packet of a node repeats the last TLV of the first: `tlvs + ind - 1`
  (`writer.c:463`) under the comment "envoie du reste des tlvs" (`writer.c:460`).
  It is not compared with the path MTU. `Writer` has both; `NothingDropped` only
  says that no TLV is lost.
* An incomplete long message past its five minutes stays until the next Data, and
  may still complete.

Reader:

* A TLV of unknown type is skipped one byte short: its length is added from the
  length byte itself (`reader.c:358`). The last byte of the value is read as a
  type, which may swallow the TLVs after it. The report counts on unknown types
  being ignored "sans gêner le fonctionnement global" (line 307).
* The same for a Neighbour or Data from an address that is not a neighbour
  (`reader.c:134`, `reader.c:172`). `EveryTlvTreated` leaves both out.
* The local address of the first datagram of a peer is kept for ever; datagrams
  that come through another are dropped (`reader.c:471`).

Main loop and stop:

* "nous testons la connexion pendant 5 secondes avant de quitter" (report, line
  252) holds of consecutive failures (`FailuresInARow`). But `errno` may come from
  elsewhere: a Neighbour TLV whose trial connection fails is five rounds without
  flooding at most, or the end of the program if its error is not a network one;
  so is a system call tried again after `EAGAIN`, or `ENOENT` noted after a read
  (`controller.c:141-159`). The model has all of these; `FailuresInARow` counts
  rounds by what `errno` says, and does not tell a stale value from a fresh one.
  Any signal during `pselect` ends the program.
* "Detruit les threads d'envoi" (`send_thread.c:298`): a sender in the middle of
  a round goes on until it sleeps, may send a Hello after the GoAway, and may use
  the tables after `free_neighbours`.
* `clear_map` leaves `size` as it was (`hashmap.c:401`); it is only called before
  the table itself is freed.

Several nodes:

* With more than `COUNT_INOND` faults on a link, a copy can arrive after its
  receiver has forgotten the message, which it then displays and floods again.

## 6. Not modelled, and the plan

Not modelled: `debug.c`, `iovec.c` and the drawing and line editing of `view.c`
(logging, equality of bytes, I/O), name resolution, failures of `malloc` and of
the clock, a socket that stays busy, failures during the start (they end the
process at once), the undefined result of `is_symetric` reading a table without
its lock.

What could be added, in this order:

1. Several messages in `Reseau`, with the Hellos and time-outs of `Voisin`.
2. A refinement of a node of `Reseau` by `Inondation`: the two model the same
   functions, one for a message in several nodes, one for several in a node.
