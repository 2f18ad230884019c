# Verification of hpsOS (lithium data acquisition)

TLA+ models of the data acquisition system in `src/`: the python user interface
(`server/dataServer.py`), the server (`server/cServer.c`) and the program on the
acquisition boards (`client/HPSmain.c`, `client/client_funcs.h`). TLC checks small
instances; TLAPS proves the safety of every component for all boards, record
lengths, packet sizes, dimensions, connections and faults.

## 1. The system

```
 script + dataServer.py --- unix socket, 116-byte commands --->  cServer.c  --- TCP 3400: 16-byte messages ---> HPS board 1..n
                        <-- 4-byte numbers (told, board no.) --             <-- TCP 3401..3464: record bytes ---  (one FPGA each)
```

One thread each: python blocks in `ipcWait`; the server is one epoll loop; a board is
one select loop whose handler busy-waits, with a timeout, for its FPGA. Nothing is
framed or acknowledged: the server knows that a pulse is complete because it has
counted as many bytes as all records have.

| Component | State | Operations | Interacts by | Correct when |
|---|---|---|---|---|
| Acquisition of a pulse | `recvCount`, `recvIndividually`, `p_idx` per data socket; a board's `enetmsg`, the FPGA's `transReady` | `queryData`, `ipcWait`, `CASE_QUERY_DATA` (server, board), data received, next packet ordered, completion, board timeout, FPGA reset | messages on the comm socket, bytes on the data sockets, a notification | the script is told exactly when every byte of every board has arrived, at its own place; nothing but a board's timeout keeps it waiting |
| Retries of the script | the same, and what an abandoned query left under way | `ipcWait(to)` returning 0, next `queryData` | the same | an abandoned pulse has no effect on the next |
| Socket table of a board | chain of `ENETsock`, descriptors, `masterfds`, `g_maxfd` | add, connect, disconnect, `setDataAddrPointers`, server closes a connection | kernel descriptors | each port in use has a connection of its own, the comm socket stays heard |
| Socket list and tables of the server | list of `POLLsock`, `g_enetCommFd`, `g_numBoards`, `g_enetBoardIdx` | accept, delete, identify, `updateBoardGlobals`, `sendENETmsg`, `broadcastENETmsg` | boards connecting, leaving, returning; reuse of descriptors | messages reach the board they are for; boards counted are boards queried |
| Data array | lengths, indices, allocation, `g_maxDataIdx`, `data_addr` | size, allocate, declare, reset, completion, save, share | the script's order of commands | every record inside the array, at the place its indices name |
| Settings | python's fields, `g_recLen` and others on the server, the same on boards | the `set...` calls and `resetVars` | messages that are checked again at every tier | the tiers agree once everything is handled |
| IPC session | `g_ipcCommFd`, the words under way, the shared memory segment | connect, disconnect, `queryBoardInfo`, `readData`, `ipcWait`, accept, delete, the answers, shutdown, relaunch | one unix socket, 4-byte words of four kinds | an answer is taken for what it is, the server outlives its scripts |
| Faults during a pulse | which programs run, which connections and table entries are left of the others | a board ends, the server ends, `closeFPGA`, `shutdown`, restart, update | connections that close, SIGPIPE | nothing is confirmed that has not come; the next pulse starts clean |
| FPGA registers, serial driver (`fpgaClass.py`), generated headers, scripts | none that the above depends on beyond `transReady` and `stateReset` | I/O | - | - |

What is hard here: bytes counted over all boards while packets of different boards
interleave; orders for packets that arrive after the packet they are for; timeouts on
both sides (board, script) that nobody is told about; descriptors reused while tables
still hold them; tables updated while boards are still introducing themselves; commands
that change sizes without moving the pointers that depend on them; programs that end while
the others go on sending to them; scripts that leave while the server owes them an answer. `PROJECT.json`
(`hazards`) lists each at its line.

## 2. The modules

| Module | Models | Used by |
|---|---|---|
| `RecordLayout` | the cutting of a record into packets, by the board's arithmetic and by the server's | `Acquisition` |
| `Acquisition` | one pulse after another: script, server, boards, wires | below |
| `PulseService` | what a pulse promises the script: each byte once, then one notification | `Acquisition` implements it |
| `AcquisitionInvariant` | `IInv`, the inductive invariant, and `RInv` on top of it | runs and proofs |
| `AcquisitionRetry` | `Acquisition` with a script that gives up and asks again | |
| `AcquisitionFaults` | `Acquisition` with boards and servers that end, and the restart | |
| `HPSSockets` | a board's chain of sockets and their descriptors | |
| `BoardRegistry` | the server's socket list and board tables, boards that come and go | |
| `DataArray` | dimensions, allocation and pointers of the data array, per data port | instantiates `RecordLayout` |
| `Settings` | the settings of python, server and boards, and the messages between | |
| `IpcSession` | scripts that come and go on the unix socket, and what the server answers | |
| `AcquisitionProofs`, `AcquisitionRecordProofs`, `AcquisitionFaultsProofs`, `HPSSocketsProofs`, `BoardRegistryProofs`, `DataArrayProofs`, `SettingsProofs`, `IpcSessionProofs` | theorems | |
| `MC...` | instances for TLC | |

`RecordLayout` is the seam of the composition: `Acquisition` assumes a legal record and
packet length, the same on both sides; `Settings` checks that the tiers come to that
(`LayoutIsLegal`, `LensAgree`); `AcquisitionProofs` shows that the same numbers give the
same packets. `Acquisition` assumes connected boards that the server has counted:
`BoardRegistry` says when that holds (`QueriedBoardsAreCounted`, `DataSocketsKnowTheirBoard`),
`HPSSockets` when each port has its connection. `DataArray` takes a whole pulse as one step
and places the segments; it holds the layout of the server beside that of each board
(`Layout(r)` is an instance of `RecordLayout` for the record `r`), and sockets that connect
and disconnect while the script goes on (`LengthsFit`). `AcquisitionFaults` extends
`Acquisition` where that assumes that everybody stays; `IpcSession` opens up the one
connection between script and server that all the others take for granted.

### State and actions against the code

*Acquisition.* `ipcIn` and `ipcOut` are the unix socket, `comm[b]` the messages on a
board's comm socket, `wire[b][p]` the number of bytes on a data socket (its order is its
place). `ServerData(b, p)` is one pass of the data branch of the epoll loop with any number
of bytes `recv` may return: it adds to `p_idx`, orders the next packet, adds to
`recvCount`, and completes the pulse, in the code's order. A board's `CASE_QUERY_DATA` is
split at its waits: `BoardTake` (message read), `BoardReady` or `BoardTimeout` (the
polling loop's end), `BoardSend` (one `send`), `BoardReset` (the state reset that also
follows a timeout, as `portNum` is then 0). `taken` remembers which ports were sent of
the record the FPGA holds; the code has no such variable. `Capture` is the trigger.
`main` does not initialise `recvCount`: it starts with any of `Counts`, the numbers up to the
total and those of `StartCounts`, negative ones and ones beyond the total in the run. Sends of a board do not
fail or stop half way: its sockets are blocking and the server does not close them.

*HPSSockets.* `table` is the chain with the head `*ENET`; `owner` is the kernel's view of
each descriptor. `setDataAddrPointers` is one action: the surplus ports are disconnected, the
idle ones connected from the first on (each takes the least free descriptor, so their order
matters), the surplus ones disconnected again. `Disconnect` closes a set of ports at once,
since no disconnection changes what another one does. A lost chain is the null pointer the code follows.

*BoardRegistry.* `socks` is the list at `psock`, newest first; its entries carry the
connection's other end (`from`, `alive`) beside the server's fields. `num` may be anything
of `Garbage`, a set of any integers, until the board has answered; used as an index outside the table
it leaves the table as it is, and what else that write may overwrite is not modelled. `trusted` remembers that an update has found
everybody identified and that nobody has left, or connected during a query, since. Messages are `"info"` and `"setup"`; one that
reaches a data socket is `"illegal"` and ends the board's program. A send to a connection
whose board is gone has no effect.

*DataArray.* `stored` is the content: for each declared index, board and port the place and
length of the segment. `hps`, `active` and `due` are the boards' side: the record each has,
whether it has been told to connect ports, and whether a record length is still under way
to it; `Dial` and `Hangup` are the server's accept and delete. `ready` and `declared` are
what the script has done: an array allocated for the lengths in use when all boards were
counted and exactly their ports connected, and an index declared since. A command of
python and its handling by the server are one step: the script's commands are handled in
their order, and `Pulse` is enabled between any two of them. What the documentation asks of a
script is to allocate before acquiring (dataServer.py:68) and to declare an index before each
pulse (dataServer.py:100); that the boards are counted and connected before the allocation is a
condition of the model's own, which the code needs (cServer.c:659-663) and no document states.

*AcquisitionFaults.* `socks` are the connections the server holds, port 0 for the comm socket,
`counted` the boards in its tables, `reset` those whose end has answered a message with a
reset, so that the next one raises SIGPIPE. A board's program ends by itself (`BoardDies`,
with any part of its bytes lost), told to (`BoardCloses`), or because the server has closed
the comm socket (`BoardEof`, which handles the last message once more, then `BoardEnds`). The
server notices when it reads (`ServerDrops`, `ServerDropsComm`); `ServerDrops` goes on with the
freed structure: the test for completion on an unchanged count, and in one-at-a-time mode, if the
packet was whole, another order to whatever the freed `boardNum` names: the board's own entry (a
lost message, then a reset), zero, which is every board, or something outside the table, with no effect or
the end of the server. Once the server has ended, `recv` returns an empty string and `ipcWait` hands it
to the script like a notification (`UIEndOfFile`); what the script sends after that raises an
exception in it. After `closeFPGA` a person starts the programs again, which is no code (`StartAgain`);
they connect (`Restart`), and the script has them counted (`Update`).

*IpcSession.* `Connect` to `TimeOut` are the script's calls, split where they wait; `Accept` to
`Relaunch` are the server. A query for numbers goes to every board and every board answers each,
so `asked` counts the numbers still to come, and `pulses` the completions: what abandoned
queries have left adds up, and `MaxOwed` bounds when another may be made. `commFd` is `g_ipcCommFd` as a connection, `reused` says that its
descriptor has become a board's. `SendWord` is what a send to it does: deliver, end the server
with SIGPIPE, fail (checked or not), or go astray to a board. `seg` is the kernel's segment, which
survives the server. `size` stands for the number of bytes, `DataSize` for the int it is put in.

*Settings.* Each `set...` of python is an action that checks, stores and sends; the
server's and the boards' handlers are functions (`ServerApply`, `ServerSends`,
`HpsApply`) applied to the head of a queue. `lensBy` remembers which command set the
record length last, `badWait` that the last interleave command had a `packetWait` that python
corrects in its own field only, `groupsReset` that a reset has come after it. The server's reaction to
an illegal record length is in the model, but python never sends one.

## 3. The runs

Every run is a module and a `.cfg` listed in `PROJECT.json`; every property of a passing
run has a mutant, a plausible bug in a mapped definition, that violates it.

| Run | Question | Bounds, and why they suffice |
|---|---|---|
| `acquisition_patient` | Do bytes, packets, orders and notifications stay right in every interleaving, and when a script that knows that nothing is under way gives up and asks again? Does the system implement `PulseService`, and does every query end? Also checks `IInv`. | 2 boards; 5 units in packets of 2, so 3 ports with a short last one, and partial receives of 1 and 2 units; 1 give-up; with fairness. All of a board's rules concern a port and its neighbours, and the completion all boards, which for the safety properties the theorems have for any number. Unbounded otherwise: queues are bounded by the protocol (`OrdersDoNotPileUp`). |
| `retry_harmless` (violated) | May it ask again after any timeout? | 2 boards, 1 port, 1 give-up. |
| `faults` | What is left of the promises when boards or the server end, and is the system whole again after a restart? | 2 boards, 2 ports, 1 board that ends by itself, 1 restart by the script, any number of programs closed: one fault against one that goes on is what all of the code's tests distinguish. |
| `sockets_any` | Is the board heard, are descriptors open, do ports keep their connections? | 5 ports, so that shrinking by several and growing past the old end both occur. |
| `sockets_own` (violated) | Does every active port own its socket after any sequence of lengths? | 3 ports. |
| `registry_update` | Do tables, list and boards agree, and does an update repair them after boards have left? | 2 boards with numbers 1 and 2 of 3, 1 data port, garbage that is another board's number or outside the table, 1 departure: enough for a descriptor to go from a comm socket to another board's comm or data socket. |
| `array_orderly` | Is every segment inside the array, where its indices say, and as long as the board makes it? | 2 boards; records of 2 whole packets, of a whole and a short one, and the default of 1; two shapes of 2 events with different long dimensions, all indices 0 and 1. |
| `array_incrementing` (violated) | Does the server stop at the end of the array by itself? | the same records, 1 shape |
| `settings_agree` | Are layouts legal at all times, and do the tiers agree at rest? | any 3 commands, the code's real limits, legal and illegal values, 2 boards |
| `settings_valid` (violated) | Is every length python calls valid used by the boards? | 1 command |
| `settings_reset` (violated) | Does a reset restore the boards' interleave settings? | 2 commands |
| `ipc_session` | Does each answer reach the script that waits for it, and does the server stay? | 2 scripts, 2 boards, lists of 2 words, 1 request ahead, a new query only while at most 1 answer is owed (`MaxOwed`), so that the numbers of two queries mix; 3 sizes, the largest above `IntMax`. |

`CHECK_DEADLOCK FALSE` where the system may stop: a script in `ipcWait` whose boards have
all timed out and hold nothing; a system whose programs have ended and are not started
again (`AcquisitionFaults`); a board's program that has ended (`HPSSockets`); a script
that has given its last command (`Settings`); scripts that have used up their connections
(`IpcSession`).

### What the violated runs show

- `retry_harmless`: `CASE_QUERY_DATA` clears `recvCount`, not `p_idx` (cServer.c:815, 894).
  After a timeout of the script the late packet and the new one are written behind each
  other, past the segment. `acquisition_patient` shows what is safe: ask again only when every
  board has timed out with nothing sent, which a script cannot know; `faults` shows what is
  safe without that knowledge: close the boards' programs and start them again.
- `sockets_own`: a record with fewer ports closes descriptor 0, since surplus sockets are
  disconnected twice (client_funcs.h:237-243, 261-264). The next socket is descriptor 0
  and is closed the same way while its port is active.
- `array_incrementing`: the test at cServer.c:895 looks at the pointer before advancing
  it, so the record after the last goes past the end.
- `settings_valid`: 8192 is valid for python and server and not for the boards, which
  fall back to 2048: the server then waits for bytes nobody has.
- `settings_reset`: `resetVars` "restores the variables in the cServer and SoCs to their default
  values" (dataServer.py:118), "resets all variables to their defaults" (cServer.c:717), but
  `resetFPGAdataAcqParams` (cServer.c:427-442) sends no interleave message: the boards stay in the groups
  the script made, and delay their data by them. The query timeout it does send is the server's default,
  a tenth of the polls the boards start with (HPSmain.c:114).

### Conditions

Properties of passing runs that hold only under a condition have it in a history variable,
so that the runs also go through the states in which it fails:

- `shrunk` (`GrowingKeepsSockets`): a record has needed fewer ports than the one before. After
  3, 1, 2 and 4 ports the chain of sockets is lost.
- `trusted` (`BoardRegistry`): see above. Without it a message may reach another board, which has
  got the descriptor of one that left, until the next update (`UpdateRestores`).
  `MessagesForAllReachAll` also needs board numbers below `MaxFpgas`, as in the instance.
- `ready` and `declared` (`DataArray`, in the script's steps and in `ReadsFindRecords` and
  `LengthsFit`). Without them an array allocated before boards are counted is too small,
  indices valid in python are outside the server's dimensions after a reset, and a port that
  connects after the allocation has no place and the wrong last port its short length.
- `misled` (`AcquisitionFaults`): the script has been notified before the server had read, or the
  script even made, its query; or the `boardNum` in a freed structure was zero, and every board
  has been ordered to send a packet that it was not to send (cServer.c:337-344, 877-880). As to the first: only a query or a completion clears `recvCount`; when an update counts fewer boards
  than an abandoned pulse was for, the count may be their total already, and a closed data
  socket is taken for the last byte (cServer.c:885). A notification that comes even before the query
  is made counts too, since it then answers that query while its bytes are still coming: the proof needed this. TLC
  overruns a segment without it in an instance of three boards (`RecLen = 1`, the other bounds those of `faults`): one that
  was not delivered, one that ends, and one that goes on. With it that instance, 612 557 states under symmetry, is clean.
  The run keeps two boards and liveness; the theorems cover three.
- `careless` (`IpcSession`): a script has left, or timed out, while an answer was owed, or asks for
  an array whose bytes an int cannot count. Then words are taken for others, the server ends
  by SIGPIPE or a failed send, or a later reader gets a segment of another size.
- `badWait` (`GroupsAgree`): the boards then are in one group while python keeps its own depth.
  `groupsReset` (`GroupsAgree`, `ResetRestoresGroups`): the last command on groups was a reset.
- `NotifyOnlyWhenComplete` and `AnswersAreFresh` fail with any give-up instead of `PatientGiveUp`.

### Fairness

`FairSpec` of `Acquisition`, and with it `PatientFairSpec`, assumes weak fairness of `UIResume` (a blocking `recv` returns
when there are bytes), `ServerQuery` and each `ServerData(b, p)` (level-triggered epoll
reports a readable socket in every round, and up to all sockets per round), and of each
board's program as a whole, `BoardStep(b)`: its loop reads the message and the handler
ends, its wait being bounded. Nothing is assumed of the FPGA (`Capture`) or of the script
(`UIQuery`).

`FaultFairness` is the same with the servers' messages as a whole and with `recv`'s empty string for a
server that has ended, and nothing of those who
start programs, of the script's giving up and of when a lost connection is noticed: a
property that needs one of these would not hold of a site where nobody looks. `IpcSession`
assumes that the epoll loop accepts and serves every connection, that boards answer for their
numbers, and that a script that waits reads what comes; not that a pulse completes.

## 4. The proofs

Checked by `tlapm` for every value of the constants that the named assumptions of the
modules allow:

- `RecordLayout`, `Acquisition`: any `RecLen`, `PacketSize \in 1..RecLen`, any finite non-empty set of boards,
  any integers in `recvCount` at the start.
- `HPSSockets`: any number of ports but 0.
- `BoardRegistry`: boards with any of the numbers 1 to `MaxFpgas`, any ports, any integers as garbage, any departures.
- `DataArray`: any positive record lengths with packets no longer than they are, any shapes,
  indices and up to `MaxBoards` boards.
- `Settings`: any values of any command, the code's limits, any non-empty set of boards.
- `AcquisitionFaults`: the same, any number of boards that end and of restarts.
- `IpcSession`: any lengths, sizes, `IntMax` and numbers of boards, scripts and requests.

The bounds of the models (`MaxGiveUps`, `MaxFaults`, `MaxRounds`, `MaxCommands`, `MaxLeaves`, `MaxInbox`, `MaxConns`, `MaxQueue`, `MaxOwed`) are
parameters of the theorems: they hold for each value. Two theorems have a hypothesis of their own: `TiersAgreeOnLens`
that nobody asks for 8192, `AllAreReached` that no board has the number `MaxFpgas`. `settings_valid`
shows why the first is needed.

| Module | Theorems |
|---|---|
| `AcquisitionProofs` | the layout: board and server cut alike (`LengthsAgree`); offsets stay in the record and never coincide (`OffsetInRecord`, `OffsetInjective`); the board sends samples of its record only (`SourcesInRecord`), whole packets from where the server stores them (`WholePacketsInPlace`), but a short packet after the first never with the record's last sample (`LastSampleNotSent`, client_funcs.h:253). The acquisition: `[]TypeOK`, `[]IInv`, `[]StaysInSegment`, `[]OneAtATime`, `NotifyOnlyWhenComplete`, the refinement of `PulseService` |
| `AcquisitionRecordProofs` | the same invariants, `AnswersAreFresh` and the refinement of `PulseService` for `PatientSpec`, with any number of give-ups; `[]OrdersDoNotPileUp`, `[]RecordFromOneCapture`, `NeverGivesUpMidRecord` for both scripts |
| `AcquisitionFaultsProofs` | `[]FaultIInv`, `[]SegmentsKept`, `ToldWhenComplete` |
| `HPSSocketsProofs` | `[]TypeOK`, `[]CommSocketHeard`, `[]WatchedAreOpen`, `[]GrowingKeepsSockets` |
| `BoardRegistryProofs` | `[]TypeOK`, `[]MessagesReachTheirBoard`, `[]DataSocketsKnowTheirBoard`, `[]QueriedBoardsAreCounted`, `UpdateRestores`, `MessagesForAllReachAll` |
| `DataArrayProofs` | `[]TypeOK`, `[]RecordsInArray`, `[]RecordsApart`, `[]ReadsFindRecords`, `[]LengthsFit` of `OrderlySpec` |
| `SettingsProofs` | `[]TypeOK`, `[]LayoutIsLegal`, `[]LensAgree`, `[]GroupsAgree`; boards that have handled their messages have the server's layout or the default (`BoardsTakeTheServersLens`, for 8192 too) |
| `IpcSessionProofs` | `[]TypeOK`, `[]AnswersMatch`, `[]SegmentFits`, `ServerStays` |

A proof module starts with its inductive invariant and the lemmas on numbers, sets and queues it
needs, then has one lemma for each action and one that collects them. The induction is
always the same: `Init => Inv`, `Inv /\ [Next]_vars => Inv'`, and the properties follow from `Inv`.

**Acquisition.** `recvCount` is a number, while the properties are about which bytes have
come. `IInv` makes it the cardinality of `Delivered`, a subset of the `Total` bytes of
all records, so equality with `Total` means that all are there, and the count cannot pass
it. For that, no byte may be sent twice or belong to an earlier query: packets go out whole
(`WholePackets`), in port order (`InPortOrder`), at most one order per board asks for data
(`QueuedOrdersFit`, `HeldOrderFits`), the order, queued or held, names exactly the ports
already delivered (`OrderFits`), a sending board is at its first unsent port
(`SendingFits`), and between queries nothing is under way (`QuietBetweenQueries`), so that
only trailing orders survive a pulse. `TypeOK` is proved together with `IInv`: that
`recvCount` stays in `Counts` needs it. Each action has a lemma; `NextInv` collects them.
For the refinement, a receive is `Collect` with the set of new bytes, or, when the set
becomes full, the step to "told"; every other step is `Ask`, `Resume` or a stutter.

`IInv` says nothing of trailing orders and of the FPGA's record, so the last group of
theorems needs a second invariant, `RInv`, inductive together with it. A board that takes
a trailing order waits for a record and, if there is none, resets its FPGA: harmless before
a record is begun, fatal in the middle of one. `RInv` says that this cannot happen: a board has
at most one trailing order about (`OneTrailing`) and none while a record is sent but its last
port not yet arrived (`NoTrailingMidRecord`); what the board has sent of the FPGA's
record is what it has sent of the query, until the last port is sent and the FPGA reset
(`TakenIsSent`); and a begun record is still in the FPGA (`RecordIsHeld`). The step that needs
`IInv` is the completion: all sockets are rewound at once, which is sound only because every
board has by then sent its last port and has nothing but trailing orders left
(`NothingLeftToDo`).

Retries: when a script gives up in a state in which every board has timed out without sending, the
same invariant is kept, since nothing is under way and nothing is delivered; for the pulse service
the query is then withdrawn (`Withdraw`).

**Faults.** While the server runs and the script is not `misled`, `FaultInv` splits the boards. One that
runs has `RunInv`, which is what `IInv` says of a board, with one change: a message to close may stand
behind an order, and messages behind that are never handled, so only the orders before a close are counted (`Comes`,
`OrdersFit`). One that has ended does nothing more (`EndedInv`), and its wires carry no more than still fits in its
segments. `recvCount` is the cardinality of the bytes delivered by the *counted* boards (`RightCount`), or none of these
takes part in a pulse (`Rest`): the second half is what an abandoned pulse leaves after an update, when the count means
nothing until a query clears it. `LinkInv` ties wires to connections: bytes are only on connections the
server holds, and these are of counted boards, so what a departed board has left is dropped with its
connection. A board that has been started again is `Still`, for its sockets are new; hence `Rest` after `Update`, which is
where a pulse starts clean. `ScriptInv` bounds what the script can have asked: one query, and one message to close behind
it. `ToldMeansComplete` is then a counting argument as before: as many bytes of the counted boards as they have leave none
out, whether the last step was a receive or the end of a connection.

**Record layout.** The server's remainder rule and the board's running remainder meet in one lemma
on division (`Division`). The board's addresses have the length for their stride.

**Sockets of a board.** Any record lengths close descriptors other ports or the console have, so
little can be said of descriptor 0. `SocketInv` says it of all others (`Sound`): each is owned by the
port whose entry names it, only owned ones are watched, and `g_maxfd` is not below them. The comm
socket is connected first, when 0 is the console's, and is never surplus (`Heard`). As long as no record
has needed fewer ports, 0 stays the console's (`Proper`), so `ActiveOwns` covers every port, and the
head of the chain is its last entry, so that it can grow. A port that connects finds a
descriptor: there are more than ports, each owned by an active port or the console
(pigeonhole). `SetDataAddrPointers` walks the ports by a recursive function; that it
is what its equation says is proved from a least counterexample (`Turns`).

**Tables of the server.** Connections first, whatever the tables hold (`Connections`): descriptors are
distinct, a board holds one connection per port, those who hold one run, numbers come from
answers on comm sockets, and the connections left behind are bounded, which is why there is always a descriptor
for the next accept. `Tables` relates both while `trusted`: an entry is the descriptor of the comm socket of
the board with that number, every identified comm socket is in its entry, and a
board that has not been identified has been sent nothing but the question (`New`), so that it cannot
have connected data sockets. `Counted` is what `updateBoardGlobals` leaves: indices below `numBoards` and
different ones. `UpdateRestores` needs only `Connections` of the state before, since the update makes the tables anew.

**Data array.** An order of commands is all that keeps the pointers in the array. `Packed` is kept by every
step: the segments stored are those of an array of *some* number of boards, dimensions
and record, which fits in the size allocated; so a reset or a new length never moves what is stored. `Prepared`
holds once `ready`: those are the present ones, and the sockets of the boards counted are exactly the ports
of the record, with its lengths. `Aimed` holds once an index is `declared`, and is what a pulse, which rewinds or
advances all pointers, has to keep. The arithmetic: `PulseIdx` orders the events of three dimensions without gaps
(`IdxAscends`, `IdxOnto`), so the place of an event is the number of events before it, which is where a
reader looks (`RankIs`, from a bijection and no induction); two segments are apart by three nested
products (event, board, port: `PlacesApart`).

**Settings.** What a tier will have once its queue is empty is decided by the last message of a kind in the
queue, so the invariants speak of that one. `BoardsFollow`: it carries the server's lengths, or there is none and the board
has them (or, for a length it refuses, the default). `ServerFollows` says the same of server and script for the last length or reset,
`GroupsFollow` of the interleave command through both queues at once. `NoLongest` is the hypothesis on 8192.
That `LayoutIsLegal` holds at every moment, not only at rest, is since each handler checks or clips before it stores.

**IPC session.** As long as no script has been `careless`, at most one of request, pending work and answer is under way
(`Talk`), the answer is of the kind the script waits for, and requests that nobody
answers may precede it but not follow it. Earlier connections hold nothing but an order to shut down (`NothingLeft`). The
words of the list come together. `InOrder` (connections are accepted as they were made) is what makes the server's
`commFd` the connection of the script that waits, since every later one is still in the backlog.

Only model-checked: liveness (`EveryQueryEnds`, `ReadyBoardsAnswer`, `OnlyLossHoldsUp`, `BoardsEnd`,
`Answered`), which is beyond the prover. The violated properties are refuted by TLC.

## 5. Not modelled

- The query timeout as a time: a board's timeout is a choice. `tmp` is not cleared before
  the later packets of a record, which only makes timeouts earlier.
- The interleave timer and `packetWait` delay sends; any delay is in the models already.
- The bytes themselves: models tell them apart by their place.
- Failing `malloc`, `connect` that fails for ten minutes, illegal messages from other programs,
  two scripts at the same time (the server accepts up to `MAX_IPC`, the last gets all words but
  the list).
- A board's freed chain of sockets, `/dev/mem` and the register addresses, the file that
  `saveData` writes.
- The headers `hps_0h.h`, `hps_0l.h` and `hps_0TxRx.h`: 1182 lines of constants generated from the
  FPGA design, without behaviour. The serial driver `fpgaClass.py` encodes single commands
  for a port it never reads. The scripts configure networks and compile.

## 6. Plan

Done: `RecordLayout`, `Acquisition`, `PulseService`, its invariant and proofs;
`AcquisitionRetry` and its proofs, `AcquisitionFaults`, `HPSSockets`, `BoardRegistry`, `DataArray`
composed with `RecordLayout`, `Settings`, `IpcSession`.

Proved since: the safety of `HPSSockets`, `BoardRegistry`, `DataArray`, `Settings`, `IpcSession` and
`AcquisitionFaults`. Every safety property of a passing run now has its theorem.

Worth doing next: an abstract service for the pulse with faults, as `PulseService` is for the
pulse without, and a theorem that the two meet while nothing fails.
