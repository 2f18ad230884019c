---------------------------- MODULE Acquisition -----------------------------
(***************************************************************************)
(* One pulse after another, from the user interface (dataServer.py)        *)
(* through the server (cServer.c) to the boards (HPSmain.c,                *)
(* client_funcs.h) and back.                                               *)
(*                                                                         *)
(* The user interface sends CASE_QUERY_DATA and blocks in ipcWait.  The    *)
(* server forwards the query to every board.  A board waits, with a        *)
(* timeout, for its FPGA to hold a record, and sends it: all the ports in  *)
(* a row, or, when the query says so, one port per order, the server       *)
(* ordering the next one each time it has a whole packet.  When the server *)
(* has counted every byte of every board it notifies the user interface.   *)
(*                                                                         *)
(* The boards are connected and configured: the server knows them all,     *)
(* both sides have set their data lengths (RecordLayout), and none of them *)
(* leaves.                                                                 *)
(***************************************************************************)
EXTENDS RecordLayout, Integers, Sequences, FiniteSets

CONSTANTS Boards,
          StartCounts   \* bound: what recvCount may be before it is ever set

ASSUME BoardsAssumption == Boards # {} /\ IsFiniteSet(Boards)
ASSUME StartCountsAssumption == StartCounts \subseteq Int

VARIABLES
  ui,                \* the script: "ready" to query or "waiting" in ipcWait
  ipcIn,             \* queries written to the IPC socket, not yet read
  ipcOut,            \* 4-byte notifications written to it, not yet read
  recvIndividually,  \* server: ask for the ports one at a time
  recvCount,         \* server: bytes received since the last query
  pidx,              \* server: ps->p_idx of each data socket
  comm,              \* messages under way to each board's comm socket
  wire,              \* bytes under way on each data socket
  hps,               \* where a board's program is
  order,             \* a board's enetmsg: the message it handles
  port,              \* the data port a sending board is at
  transReady,        \* a board's FPGA holds a record
  taken              \* the ports a board has sent of the record it holds

uiVars     == <<ui, ipcIn, ipcOut>>
serverVars == <<recvIndividually, recvCount, pidx>>
netVars    == <<comm, wire>>
boardVars  == <<hps, order, port, transReady, taken>>
vars == <<uiVars, serverVars, netVars, boardVars>>


(* A server that forgets to multiply by the number of boards.              *)
MutantTotalOfOneBoard == RecLen

(* What cServer.c:885 compares recvCount with.                             *)
Total == RecLen * Cardinality(Boards)

(* main does not initialise recvCount: any number may be left there.       *)
Counts == 0..Total \cup StartCounts

(* A CASE_QUERY_DATA message: msg[1] selects the mode, msg[2] the port     *)
(* that has just been received (0 for the user interface's query).         *)
Query == [each : {0, 1}, idx : 0..NumPorts]

(* The server also orders "the next packet" after the last one.            *)
Trailing(m) == m.each = 1 /\ m.idx = NumPorts

Init == /\ ui = "ready"
        /\ ipcIn = <<>>
        /\ ipcOut = 0
        /\ recvIndividually = 0
        /\ recvCount \in Counts
        /\ pidx = [b \in Boards |-> [p \in Ports |-> 0]]
        /\ comm = [b \in Boards |-> <<>>]
        /\ wire = [b \in Boards |-> [p \in Ports |-> 0]]
        /\ hps = [b \in Boards |-> "idle"]
        /\ order = [b \in Boards |-> [each |-> 0, idx |-> 0]]
        /\ port = [b \in Boards |-> 0]
        /\ transReady = [b \in Boards |-> FALSE]
        /\ taken = [b \in Boards |-> {}]

-----------------------------------------------------------------------------
(* The user interface *)

(* queryData(each) followed by ipcWait().                                  *)
UIQuery(each) == /\ ui = "ready"
                 /\ ui' = "waiting"
                 /\ ipcIn' = Append(ipcIn, each)
                 /\ UNCHANGED <<ipcOut, serverVars, netVars, boardVars>>

(* ipcWait reads a notification and the script goes on.                    *)
UIResume == /\ ui = "waiting"
            /\ ipcOut > 0
            /\ ui' = "ready"
            /\ ipcOut' = ipcOut - 1
            /\ UNCHANGED <<ipcIn, serverVars, netVars, boardVars>>

-----------------------------------------------------------------------------
(* The server *)

(* A server that goes on counting from where it is.                        *)
MutantQueryKeepsCount ==
  /\ ipcIn # <<>>
  /\ ipcIn' = Tail(ipcIn)
  /\ recvIndividually' = Head(ipcIn)
  /\ comm' = [b \in Boards |->
                Append(comm[b], [each |-> Head(ipcIn), idx |-> 0])]
  /\ UNCHANGED <<ui, ipcOut, recvCount, pidx, wire, boardVars>>

(* CASE_QUERY_DATA: forward the query to every board and count from zero.  *)
ServerQuery ==
  /\ ipcIn # <<>>
  /\ ipcIn' = Tail(ipcIn)
  /\ recvIndividually' = Head(ipcIn)
  /\ recvCount' = 0
  /\ comm' = [b \in Boards |->
                Append(comm[b], [each |-> Head(ipcIn), idx |-> 0])]
  /\ UNCHANGED <<ui, ipcOut, pidx, wire, boardVars>>

(* Servers that order the next packet at the first bytes of this one, that *)
(* order it in the other mode too, that never do, and that skip one.       *)
MutantOrderEarly(b, p, filled) ==
  comm' = IF recvIndividually = 1
            THEN [comm EXCEPT ![b] = Append(@, [each |-> 1, idx |-> p])]
            ELSE comm
MutantOrderInBothModes(b, p, filled) ==
  comm' = IF filled[b][p] = ServerLen(p)
            THEN [comm EXCEPT ![b] = Append(@, [each |-> 1, idx |-> p])]
            ELSE comm
MutantOrderNothing(b, p, filled) == comm' = comm
MutantOrderSkips(b, p, filled) ==
  comm' = IF recvIndividually = 1 /\ filled[b][p] = ServerLen(p) /\ p < NumPorts
            THEN [comm EXCEPT ![b] = Append(@, [each |-> 1, idx |-> p + 1])]
            ELSE comm

(* A whole packet has come in one-at-a-time mode: order the next one.      *)
OrderNextPacket(b, p, filled) ==
  comm' = IF recvIndividually = 1 /\ filled[b][p] = ServerLen(p)
            THEN [comm EXCEPT ![b] = Append(@, [each |-> 1, idx |-> p])]
            ELSE comm

(* A server that does not rewind the sockets after a pulse.                *)
MutantNoRewind(k, filled) ==
  /\ pidx' = filled
  /\ \/ /\ recvCount + k = Total
        /\ ipcOut' = ipcOut + 1
        /\ recvCount' = 0
     \/ /\ recvCount + k # Total
        /\ ipcOut' = ipcOut
        /\ recvCount' = recvCount + k

(* Count the k bytes.  The recv that makes the count complete notifies the *)
(* user interface and rewinds every data socket.                           *)
CountReceived(k, filled) ==
  \/ /\ recvCount + k = Total
     /\ ipcOut' = ipcOut + 1
     /\ pidx' = [b \in Boards |-> [p \in Ports |-> 0]]
     /\ recvCount' = 0
  \/ /\ recvCount + k # Total
     /\ ipcOut' = ipcOut
     /\ pidx' = filled
     /\ recvCount' = recvCount + k

(* recv on the data socket of port p of board b: it asks for at most a     *)
(* whole packet and gets part of what is on the wire.                      *)
ServerData(b, p) ==
  \E k \in {n \in 1..ServerLen(p) : n <= wire[b][p]} :
    LET filled == [pidx EXCEPT ![b][p] = @ + k]
    IN  /\ wire' = [wire EXCEPT ![b][p] = @ - k]
        /\ OrderNextPacket(b, p, filled)
        /\ CountReceived(k, filled)
        /\ UNCHANGED <<ui, ipcIn, recvIndividually, boardVars>>

-----------------------------------------------------------------------------
(* A board *)

(* select finds the comm socket readable; one message is read.             *)
BoardTake(b) == /\ hps[b] = "idle"
                /\ comm[b] # <<>>
                /\ order' = [order EXCEPT ![b] = Head(comm[b])]
                /\ comm' = [comm EXCEPT ![b] = Tail(@)]
                /\ hps' = [hps EXCEPT ![b] = "waiting"]
                /\ UNCHANGED <<uiVars, serverVars, wire, port, transReady,
                               taken>>

(* The FPGA holds a record.  All ports are sent from the first, or the one *)
(* after the port the order names; there is none after the last.           *)
BoardReady(b) ==
  /\ hps[b] = "waiting"
  /\ transReady[b]
  /\ \/ /\ Trailing(order[b])
        /\ hps' = [hps EXCEPT ![b] = "idle"]
        /\ UNCHANGED port
     \/ /\ ~Trailing(order[b])
        /\ hps' = [hps EXCEPT ![b] = "sending"]
        /\ port' = [port EXCEPT ![b] =
                      IF order[b].each = 1 THEN order[b].idx + 1 ELSE 1]
  /\ UNCHANGED <<uiVars, serverVars, netVars, order, transReady, taken>>

(* g_queryTimeout polls have found no record.  Nobody is told; portNum is  *)
(* still 0, so the FPGA is reset as if the record had been sent.           *)
BoardTimeout(b) == /\ hps[b] = "waiting"
                   /\ ~transReady[b]
                   /\ hps' = [hps EXCEPT ![b] = "resetting"]
                   /\ UNCHANGED <<uiVars, serverVars, netVars, order, port,
                                  transReady, taken>>

(* A board that resets its FPGA after every packet.                        *)
MutantSendThenReset(b) ==
  /\ hps[b] = "sending"
  /\ wire' = [wire EXCEPT ![b][port[b]] = @ + ClientLen(port[b])]
  /\ taken' = [taken EXCEPT ![b] = @ \cup {port[b]}]
  /\ \/ /\ port[b] = NumPorts \/ order[b].each = 1
        /\ hps' = [hps EXCEPT ![b] = "resetting"]
        /\ UNCHANGED port
     \/ /\ port[b] # NumPorts
        /\ order[b].each = 0
        /\ port' = [port EXCEPT ![b] = @ + 1]
        /\ UNCHANGED hps
  /\ UNCHANGED <<uiVars, serverVars, comm, order, transReady>>

(* send on the data socket of the port.                                    *)
BoardSend(b) ==
  /\ hps[b] = "sending"
  /\ wire' = [wire EXCEPT ![b][port[b]] = @ + ClientLen(port[b])]
  /\ taken' = [taken EXCEPT ![b] = @ \cup {port[b]}]
  /\ \/ /\ port[b] = NumPorts
        /\ hps' = [hps EXCEPT ![b] = "resetting"]
        /\ UNCHANGED port
     \/ /\ port[b] # NumPorts
        /\ order[b].each = 1
        /\ hps' = [hps EXCEPT ![b] = "idle"]
        /\ UNCHANGED port
     \/ /\ port[b] # NumPorts
        /\ order[b].each = 0
        /\ port' = [port EXCEPT ![b] = @ + 1]
        /\ UNCHANGED hps
  /\ UNCHANGED <<uiVars, serverVars, comm, order, transReady>>

(* The FPGA's state machine is reset: it gives up the record it holds and  *)
(* waits for the next trigger.                                             *)
BoardReset(b) == /\ hps[b] = "resetting"
                 /\ hps' = [hps EXCEPT ![b] = "idle"]
                 /\ transReady' = [transReady EXCEPT ![b] = FALSE]
                 /\ taken' = [taken EXCEPT ![b] = {}]
                 /\ UNCHANGED <<uiVars, serverVars, netVars, order, port>>

BoardStep(b) == \/ BoardTake(b)
                \/ BoardReady(b)
                \/ BoardTimeout(b)
                \/ BoardSend(b)
                \/ BoardReset(b)

(* A trigger: the FPGA records and raises transReady, at any moment.       *)
Capture(b) == /\ ~transReady[b]
              /\ transReady' = [transReady EXCEPT ![b] = TRUE]
              /\ UNCHANGED <<uiVars, serverVars, netVars, hps, order, port,
                             taken>>

-----------------------------------------------------------------------------
Next == \/ \E each \in {0, 1} : UIQuery(each)
        \/ UIResume
        \/ ServerQuery
        \/ \E b \in Boards, p \in Ports : ServerData(b, p)
        \/ \E b \in Boards : BoardStep(b)
        \/ \E b \in Boards : Capture(b)

Spec == Init /\ [][Next]_vars

(* The three programs keep running: python's blocking recv returns, the    *)
(* epoll loop serves every readable socket, a board's select loop reads    *)
(* its message and the handler runs to its end (its wait for the FPGA is   *)
(* bounded).  Nothing is assumed of the FPGA or of the script.             *)
Fairness == /\ WF_vars(UIResume)
            /\ WF_vars(ServerQuery)
            /\ \A b \in Boards : WF_vars(BoardStep(b))
            /\ \A b \in Boards, p \in Ports : WF_vars(ServerData(b, p))

FairSpec == Spec /\ Fairness

-----------------------------------------------------------------------------
(* Properties *)

TypeOK == /\ ui \in {"ready", "waiting"}
          /\ ipcIn \in Seq({0, 1})
          /\ ipcOut \in Nat
          /\ recvIndividually \in {0, 1}
          /\ recvCount \in Counts
          /\ pidx \in [Boards -> [Ports -> Nat]]
          /\ comm \in [Boards -> Seq(Query)]
          /\ wire \in [Boards -> [Ports -> Nat]]
          /\ hps \in [Boards -> {"idle", "waiting", "sending", "resetting"}]
          /\ order \in [Boards -> Query]
          /\ port \in [Boards -> 0..NumPorts]
          /\ transReady \in [Boards -> BOOLEAN]
          /\ taken \in [Boards -> SUBSET Ports]

(* A message that orders data, as against the trailing one.                *)
Orders(m) == ~Trailing(m)

HoldsOrder(b) == hps[b] = "waiting" /\ Orders(order[b])
QueuedOrder(b) == \E i \in 1..Len(comm[b]) : Orders(comm[b][i])

(* The server has taken the query the user interface waits for and has not *)
(* answered it.                                                            *)
Active == ui = "waiting" /\ ipcIn = <<>> /\ ipcOut = 0

(* What port p of board b has been given to send since the query.          *)
Sent(b, p) == pidx[b][p] + wire[b][p]

(* The board has timed out on the current query: it has nothing to do for  *)
(* it and has done nothing for it.                                         *)
GaveUp(b) == /\ Active
             /\ hps[b] # "sending"
             /\ ~HoldsOrder(b)
             /\ ~QueuedOrder(b)
             /\ \A p \in Ports : Sent(b, p) = 0

(* What arrives on a data socket stays in the segment of the data array    *)
(* that belongs to it: p_idx never passes dataLen, counting what is still  *)
(* under way (cServer.c:865 writes at data_addr + p_idx unchecked).        *)
StaysInSegment == \A b \in Boards, p \in Ports : Sent(b, p) <= ServerLen(p)

(* "packet[0] must finish sending before FPGA sends packet[1]": in         *)
(* one-at-a-time mode the server has all of every earlier packet of a      *)
(* board before anything of a later one is on the wire (cServer.c:806).    *)
OneAtATime ==
  recvIndividually = 1 =>
    \A b \in Boards, p, q \in Ports :
      q < p /\ Sent(b, p) > 0 => pidx[b][q] = ServerLen(q)

(* The messages under way to a board never pile up: a trailing order and   *)
(* the next query are the most its comm socket holds, and of the orders    *)
(* that ask for data there is one at most.                                 *)
OrdersDoNotPileUp ==
  \A b \in Boards :
    /\ Len(comm[b]) <= 2
    /\ \A i \in 1..Len(comm[b]) :
         Orders(comm[b][i]) => i = Len(comm[b]) /\ ~HoldsOrder(b)
                                                /\ hps[b] # "sending"

(* A board that has begun a record sends all of it from the same capture:  *)
(* it goes on to port p only when it has sent all the ports before p since *)
(* the last reset of its FPGA, so no late trailing order resets the FPGA   *)
(* in the middle of a record (client_funcs.h:404-411).                     *)
RecordFromOneCapture ==
  \A b \in Boards : hps[b] = "sending" => /\ taken[b] = 1..(port[b] - 1)
                                          /\ transReady[b]

(* A query is answered whole or not at all: a board gives up only before   *)
(* its first packet, never with part of a record delivered.                *)
NeverGivesUpMidRecord ==
  [][\A b \in Boards :
       BoardTimeout(b) /\ HoldsOrder(b) =>
         \A p \in Ports : Sent(b, p) = 0]_vars

(* "confirmation from the cServer that all data has been received"         *)
(* (dataServer.py:202): the server notifies the user interface only with   *)
(* the byte that completes the last packet of every board.                 *)
NotifyOnlyWhenComplete ==
  [][ipcOut' > ipcOut =>
       \A b \in Boards, p \in Ports :
         pidx[b][p] + (wire[b][p] - wire'[b][p]) = ServerLen(p)]_vars

(* The bytes received since the query, by their place in the records.      *)
Units == Boards \X (0..(RecLen - 1))
DeliveredBy(f) == {<<t[1], RecordOffset(t[2], t[3])>> :
                     t \in {u \in Boards \X Ports \X (0..(PacketSize - 1)) :
                              u[3] < f[u[1]][u[2]]}}
Delivered == DeliveredBy(pidx)
Phase == IF ui = "ready" THEN "rest"
         ELSE IF ipcOut > 0 THEN "told" ELSE "asked"

(* The acquisition implements the pulse service: whatever boards, ports,   *)
(* packets and timeouts do, the user interface sees each byte of each      *)
(* record arrive once, at its own place, and then one notification.        *)
Service == INSTANCE PulseService WITH phase <- Phase, got <- Delivered
ImplementsPulseService == Service!PulseSpec

(* Nothing but a board's timeout keeps a query from being answered: no     *)
(* lost order, no miscounted byte, no two parties waiting for each other.  *)
EveryQueryEnds == ui = "waiting" ~> ui = "ready" \/ \E b \in Boards : GaveUp(b)

(* When every board already holds a record and has nothing left to do as   *)
(* the query is made, the user interface gets its answer.                  *)
AllReady == \A b \in Boards : /\ transReady[b]
                             /\ hps[b] = "idle"
                             /\ comm[b] = <<>>
ReadyBoardsAnswer == ipcIn # <<>> /\ AllReady ~> ui = "ready"
=============================================================================
