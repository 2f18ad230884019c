--------------------------- MODULE AcquisitionFaults ---------------------------
(***************************************************************************)
(* The acquisition when boards or the server end in the middle of it, and  *)
(* the way back: the script gives the pulse up, closes the boards' pro-    *)
(* grams, has them started again, and has the server count and configure   *)
(* them anew.  No message sets p_idx of a socket to zero, so it is the new *)
(* connections of the new programs that make the next pulse start clean.   *)
(*                                                                         *)
(* A program's end closes its connections.  The server finds that out when *)
(* it reads them; until then, and as long as its tables name the board, it *)
(* goes on sending to it.                                                  *)
(***************************************************************************)
EXTENDS Acquisition

CONSTANTS MaxFaults,   \* bound: boards that end by themselves
          MaxRounds    \* bound: how often the script starts all over

ASSUME FaultsAssumption == MaxFaults \in Nat /\ MaxRounds \in Nat

VARIABLES
  up,       \* the server runs
  socks,    \* its connections: board and port, 0 for the comm socket
  counted,  \* the boards in g_enetCommFd, g_numBoards of them
  reset,    \* ended boards that have answered a message with a reset
  alive,    \* the boards whose program runs
  ending,   \* those of them that have found the comm socket closed
  stage,    \* script: "normal", "closing", "starting" or "over"
  misled,   \* it has been told, or a board has been ordered, by mistake (history)
  faults, rounds

serverState == <<up, socks, counted, reset>>
scriptState == <<stage, misled, faults, rounds>>
faultVars == <<vars, serverState, alive, ending, scriptState>>

CommPort == 0
CloseProgram == 2      \* closeFPGA, among the queries in ipcIn
ShutdownServer == 3    \* shutdown
Close == [each |-> CloseProgram, idx |-> 0]

FaultInit == /\ Init /\ recvCount = 0      \* a pulse has been completed before
             /\ up = TRUE
             /\ socks = Boards \X (0..NumPorts)
             /\ counted = Boards
             /\ reset = {}
             /\ alive = Boards /\ ending = {}
             /\ stage = "normal" /\ misled = FALSE
             /\ faults = 0 /\ rounds = 0

-----------------------------------------------------------------------------
(* The server sends *)

(* A message to the boards B.  One that has ended loses it, and answers    *)
(* with a reset if the server still has the connection.                    *)
SendTo(B, m, queues) ==
  /\ comm' = [b \in Boards |-> IF b \in B \cap alive THEN Append(queues[b], m)
                                                     ELSE queues[b]]
  /\ reset' = reset \cup {b \in B \ alive : <<b, CommPort>> \in socks}

(* A second message on such a connection raises SIGPIPE, which nothing     *)
(* catches: send is called without MSG_NOSIGNAL.                           *)
BrokenPipe(B) == \E b \in B \cap reset : <<b, CommPort>> \in socks

ServerEnds == /\ up' = FALSE
              /\ UNCHANGED <<vars, socks, counted, reset, alive, ending,
                             scriptState>>

-----------------------------------------------------------------------------
(* The script *)

(* With no server to read it, what the script sends raises an exception,   *)
(* which ends it: it does not query or close the boards any more.          *)
FaultUIQuery(each) == /\ stage = "normal" /\ up
                      /\ UIQuery(each)
                      /\ UNCHANGED <<serverState, alive, ending, scriptState>>

FaultUIResume == /\ stage = "normal"
                 /\ UIResume
                 /\ UNCHANGED <<serverState, alive, ending, scriptState>>

(* The server has ended and all it wrote has been read: recv returns '' at *)
(* once, which ipcWait hands on as it does a notification, so that the     *)
(* script goes on as if the data were there.                               *)
UIEndOfFile == /\ stage = "normal"
               /\ ui = "waiting"
               /\ ~up /\ ipcOut = 0
               /\ ui' = "ready"
               /\ UNCHANGED <<ipcIn, ipcOut, serverVars, netVars, boardVars,
                              serverState, alive, ending, scriptState>>

(* closeFPGA, perhaps after ipcWait has timed out; shutdown for good.      *)
UIClose == /\ stage = "normal" /\ up
           /\ \/ /\ rounds < MaxRounds
                 /\ ipcIn' = Append(ipcIn, CloseProgram)
                 /\ stage' = "closing" /\ rounds' = rounds + 1
              \/ /\ ipcIn' = Append(ipcIn, ShutdownServer)
                 /\ stage' = "over" /\ UNCHANGED rounds
           /\ ui' = "ready"
           /\ UNCHANGED <<ipcOut, serverVars, netVars, boardVars, serverState,
                          alive, ending, misled, faults>>

(* No code: a person starts the boards' programs once all have ended,      *)
(* which takes a board a second after its last message (HPSmain.c:189).    *)
StartAgain == /\ stage = "closing"
              /\ up /\ ipcIn = <<>>
              /\ alive = {} /\ socks = {}
              /\ stage' = "starting"
              /\ UNCHANGED <<vars, serverState, alive, ending, misled, faults,
                             rounds>>

(* An accept that does not set p_idx.                                      *)
MutantRestart(b) ==
  /\ stage = "starting" /\ up
  /\ b \notin alive
  /\ \A p \in 0..NumPorts : <<b, p>> \notin socks
  /\ alive' = alive \cup {b}
  /\ socks' = socks \cup {<<b, CommPort>>}
  /\ UNCHANGED <<uiVars, serverVars, netVars, boardVars, up, counted, reset,
                 ending, scriptState>>

(* A board's program starts and connects.  The sockets the server accepts  *)
(* have p_idx 0.                                                           *)
Restart(b) ==
  /\ stage = "starting" /\ up
  /\ b \notin alive
  /\ \A p \in 0..NumPorts : <<b, p>> \notin socks
  /\ alive' = alive \cup {b}
  /\ socks' = socks \cup {<<b, CommPort>>}
  /\ pidx' = [pidx EXCEPT ![b] = [p \in Ports |-> 0]]
  /\ UNCHANGED <<uiVars, recvIndividually, recvCount, netVars, boardVars, up,
                 counted, reset, ending, scriptState>>

(* queryBoardInfo reads every word the server has left in the socket for a *)
(* board's number and has the boards counted, all those that have been     *)
(* started again or fewer; setRecLen has them connect their ports.         *)
Update == /\ stage = "starting"
          /\ up
          /\ alive # {} /\ socks = alive \X {CommPort}
          /\ ipcOut' = 0
          /\ counted' = alive
          /\ socks' = alive \X (0..NumPorts)
          /\ stage' = "normal"
          /\ UNCHANGED <<ui, ipcIn, serverVars, netVars, boardVars, up, reset,
                         alive, ending, misled, faults, rounds>>

-----------------------------------------------------------------------------
(* The server *)

(* A server that goes on waiting for all the boards it has ever counted.   *)
MutantCountedTotal == RecLen * Cardinality(Boards)

(* What cServer.c:885 compares recvCount with, g_numBoards being those     *)
(* counted last.                                                           *)
CountedTotal == RecLen * Cardinality(counted)

(* CASE_QUERY_DATA.                                                        *)
FaultServerQuery ==
  /\ up /\ ipcIn # <<>>
  /\ Head(ipcIn) \in {0, 1}
  /\ ipcIn' = Tail(ipcIn)
  /\ recvIndividually' = Head(ipcIn)
  /\ recvCount' = 0
  /\ SendTo(counted, [each |-> Head(ipcIn), idx |-> 0], comm)
  /\ UNCHANGED <<ui, ipcOut, pidx, wire, boardVars, up, socks, counted, alive,
                 ending, scriptState>>

(* CASE_CLOSE_PROGRAM, CASE_SHUTDOWN_SERVER and any message it does not    *)
(* know close the boards' programs; the second ends the server as well.    *)
ServerClose ==
  /\ up /\ ipcIn # <<>>
  /\ Head(ipcIn) \in {CloseProgram, ShutdownServer}
  /\ ipcIn' = Tail(ipcIn)
  /\ SendTo(counted, Close, comm)
  /\ up' = (Head(ipcIn) # ShutdownServer)
  /\ UNCHANGED <<ui, ipcOut, serverVars, wire, boardVars, socks, counted,
                 alive, ending, scriptState>>

ServerBreaks == up /\ ipcIn # <<>> /\ BrokenPipe(counted) /\ ServerEnds

(* A notification now comes before the script's query has been read, or    *)
(* even made.                                                              *)
Early == stage = "normal" /\ ~Active

(* Compares the count with one record.                                     *)
MutantComplete(n, filled, astray) ==
  \/ /\ n = RecLen
     /\ ipcOut' = ipcOut + 1
     /\ misled' = (misled \/ astray \/ Early)
     /\ pidx' = [b \in Boards |-> [p \in Ports |-> 0]]
     /\ recvCount' = 0
  \/ /\ n # RecLen
     /\ ipcOut' = ipcOut
     /\ misled' = (misled \/ astray)
     /\ pidx' = filled
     /\ recvCount' = n

(* The test for completion, with n bytes counted, follows every recv, the  *)
(* one that finds a connection closed as well.  An order may just have     *)
(* gone astray.                                                            *)
Complete(n, filled, astray) ==
  \/ /\ n = CountedTotal
     /\ ipcOut' = ipcOut + 1
     /\ misled' = (misled \/ astray \/ Early)
     /\ pidx' = [b \in Boards |-> [p \in Ports |-> 0]]
     /\ recvCount' = 0
  \/ /\ n # CountedTotal
     /\ ipcOut' = ipcOut
     /\ misled' = (misled \/ astray)
     /\ pidx' = filled
     /\ recvCount' = n

(* A data socket delivers bytes, of a board that runs or has ended since;  *)
(* a whole packet makes the server order the next one.                     *)
FaultServerData(b, p) ==
  \E k \in {n \in 1..ServerLen(p) : n <= wire[b][p]} :
    LET filled == [pidx EXCEPT ![b][p] = @ + k]
        whole  == recvIndividually = 1 /\ filled[b][p] = ServerLen(p)
    IN  /\ up /\ <<b, p>> \in socks
        /\ \/ /\ wire' = [wire EXCEPT ![b][p] = @ - k]
              /\ SendTo(IF whole THEN {b} ELSE {}, [each |-> 1, idx |-> p], comm)
              /\ Complete(recvCount + k, filled, FALSE)
              /\ UNCHANGED <<ui, ipcIn, recvIndividually, boardVars, up, socks,
                             counted, alive, ending, stage, faults, rounds>>
           \/ whole /\ BrokenPipe({b}) /\ ServerEnds

(* recv returns 0 on the data socket of a board that has ended: it is      *)
(* deleted, and the handler goes on with the structure it has freed.  In   *)
(* one-at-a-time mode, if the packet was whole, another order is sent, by  *)
(* the boardNum the allocator has left there: the board's own; zero, which *)
(* means all; or one beyond the table, where there is no open descriptor   *)
(* or no memory at all.                                                    *)
ServerDrops(b, p) ==
  LET whole == recvIndividually = 1 /\ pidx[b][p] = ServerLen(p)
  IN  /\ up /\ <<b, p>> \in socks
      /\ b \notin alive /\ wire[b][p] = 0
      /\ \/ /\ socks' = socks \ {<<b, p>>}
            /\ \E B \in IF whole THEN {{}, {b}, counted} ELSE {{}} :
                 /\ SendTo(B, [each |-> 1, idx |-> p], comm)
                 /\ Complete(recvCount, pidx, B \notin {{}, {b}})
            /\ UNCHANGED <<ui, ipcIn, recvIndividually, wire, boardVars, up,
                           counted, alive, ending, stage, faults, rounds>>
         \/ whole /\ ServerEnds

(* The same on the comm socket.  The tables stay as they are.              *)
ServerDropsComm(b) ==
  /\ up /\ <<b, CommPort>> \in socks
  /\ b \notin alive
  /\ socks' = socks \ {<<b, CommPort>>}
  /\ reset' = reset \ {b}
  /\ UNCHANGED <<vars, up, counted, alive, ending, scriptState>>

-----------------------------------------------------------------------------
(* The boards *)

(* The program ends: messages to it are lost, what it has sent is not.     *)
(* The state it leaves is that of its next start, which resets its FPGA    *)
(* before anything reads it.                                               *)
Gone(b) == /\ alive' = alive \ {b}
           /\ ending' = ending \ {b}
           /\ comm' = [comm EXCEPT ![b] = <<>>]
           /\ hps' = [hps EXCEPT ![b] = "idle"]
           /\ order' = [order EXCEPT ![b] = [each |-> 0, idx |-> 0]]
           /\ port' = [port EXCEPT ![b] = 0]
           /\ transReady' = [transReady EXCEPT ![b] = FALSE]
           /\ taken' = [taken EXCEPT ![b] = {}]

(* It ends at any moment by itself; part of what is under way is lost.     *)
BoardDies(b) ==
  /\ b \in alive
  /\ faults < MaxFaults
  /\ faults' = faults + 1
  /\ Gone(b)
  /\ \E left \in [Ports -> 0..PacketSize] :
       /\ \A p \in Ports : left[p] <= wire[b][p]
       /\ wire' = [wire EXCEPT ![b] = left]
  /\ UNCHANGED <<uiVars, serverVars, serverState, stage, misled, rounds>>

Closing(b) == comm[b] # <<>> /\ Head(comm[b]) = Close

(* CASE_CLOSE_PROGRAM.                                                     *)
BoardCloses(b) ==
  /\ b \in alive
  /\ hps[b] = "idle" /\ Closing(b)
  /\ Gone(b)
  /\ UNCHANGED <<uiVars, serverVars, wire, serverState, scriptState>>

(* A board that does not stop on an empty read.                            *)
MutantBoardEof(b) ==
  /\ b \in alive \ ending
  /\ ~up /\ hps[b] = "idle" /\ comm[b] = <<>>
  /\ hps' = [hps EXCEPT ![b] = "waiting"]
  /\ UNCHANGED <<uiVars, serverVars, netVars, order, port, transReady,
                 taken, alive, ending, serverState, scriptState>>

(* recv returns 0 on the comm socket: the last message is still in enetmsg *)
(* and is handled once more, a query perhaps, before the program ends.     *)
BoardEof(b) ==
  /\ b \in alive \ ending
  /\ ~up /\ hps[b] = "idle" /\ comm[b] = <<>>
  /\ \/ /\ ending' = ending \cup {b}
        /\ hps' = [hps EXCEPT ![b] = "waiting"]
        /\ UNCHANGED <<alive, comm, order, port, transReady, taken>>
     \/ Gone(b)
  /\ UNCHANGED <<uiVars, serverVars, wire, serverState, scriptState>>

BoardEnds(b) ==
  /\ b \in ending
  /\ hps[b] = "idle"
  /\ Gone(b)
  /\ UNCHANGED <<uiVars, serverVars, wire, serverState, scriptState>>

(* A board's program in all its steps.                                     *)
FaultBoard(b) ==
  \/ /\ b \in alive /\ ~(hps[b] = "idle" /\ Closing(b))
     /\ BoardStep(b)
     /\ UNCHANGED <<serverState, alive, ending, scriptState>>
  \/ BoardCloses(b) \/ BoardEof(b) \/ BoardEnds(b)

FaultCapture(b) == /\ b \in alive
                   /\ Capture(b)
                   /\ UNCHANGED <<serverState, alive, ending, scriptState>>

-----------------------------------------------------------------------------
ServerMessage == FaultServerQuery \/ ServerClose \/ ServerBreaks

ServerSocket(b, p) == FaultServerData(b, p) \/ ServerDrops(b, p)

FaultNext ==
  \/ \E each \in {0, 1} : FaultUIQuery(each)
  \/ FaultUIResume \/ UIEndOfFile \/ UIClose \/ StartAgain \/ Update
  \/ \E b \in Boards : Restart(b)
  \/ ServerMessage
  \/ \E b \in Boards, p \in Ports : ServerSocket(b, p)
  \/ \E b \in Boards : ServerDropsComm(b)
  \/ \E b \in Boards : FaultBoard(b) \/ BoardDies(b) \/ FaultCapture(b)

(* As in Acquisition; nothing is assumed of the script's giving up, of     *)
(* those who start programs, and of when a lost connection is noticed.     *)
FaultFairness ==
  /\ WF_faultVars(FaultUIResume \/ UIEndOfFile)
  /\ WF_faultVars(ServerMessage)
  /\ \A b \in Boards : WF_faultVars(FaultBoard(b))
  /\ \A b \in Boards, p \in Ports : WF_faultVars(FaultServerData(b, p))

FaultSpec == FaultInit /\ [][FaultNext]_faultVars /\ FaultFairness

-----------------------------------------------------------------------------
(* However boards and pulses end, the pulse after a restart starts clean:  *)
(* no byte of an earlier one is left to be written past a segment          *)
(* (cServer.c:302, 865).  The script must not have been told of a pulse    *)
(* before the server had read, or the script even made, its query: an      *)
(* update that counts fewer boards leaves recvCount, which may be their    *)
(* total already, and the end of one of them is then taken for the last    *)
(* byte (cServer.c:885).  Nor must the number in a freed structure have    *)
(* had every board send a packet it was not to send (cServer.c:877-880).   *)
SegmentsKept == up /\ ~misled => StaysInSegment

(* "confirmation from the cServer that all data has been received"         *)
(* (dataServer.py:202), with connections closed in the middle of a pulse:  *)
(* while it collects, the server notifies the script only when every board *)
(* it counts has delivered every packet, not when one has gone.            *)
ToldWhenComplete ==
  [][Active /\ ~misled /\ ipcOut' > ipcOut =>
       \A b \in counted, p \in Ports :
         pidx[b][p] + (wire[b][p] - wire'[b][p]) = ServerLen(p)]_faultVars

(* A board that has ended, or has timed out, is all that keeps a script    *)
(* from going on, after a restart as much as before it: an end of the      *)
(* server does not (dataServer.py:208, 214).                               *)
OnlyLossHoldsUp ==
  ui = "waiting" ~> \/ ui = "ready"
                    \/ \E b \in counted : b \notin alive \/ GaveUp(b)

(* "This shuts down the SoCs and cServer" (cServer.c:820): told to close,  *)
(* or left by the server in whatever they are doing, the boards' programs  *)
(* all end.                                                                *)
BoardsEnd == stage = "closing" \/ ~up ~> alive = {}
=============================================================================
