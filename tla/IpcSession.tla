------------------------------- MODULE IpcSession -------------------------------
(***************************************************************************)
(* The IPC socket between the script (dataServer.py) and the server        *)
(* (cServer.c): scripts that connect, ask, wait with or without a timeout, *)
(* leave and come back, and a server that answers with bare 4-byte words.  *)
(* Which word is which is only a matter of order: a completed pulse, the   *)
(* number of a board, the key of the shared memory and the words of the    *)
(* list of boards look alike, and all but the list go to the connection    *)
(* the server has accepted last, whoever asked for them.                   *)
(*                                                                         *)
(* What the boards do is Acquisition's and BoardRegistry's business: here  *)
(* they complete a pulse, or answer for their number, at some time.        *)
(***************************************************************************)
EXTENDS Integers, Sequences

CONSTANTS ListLen,    \* words in the list of boards, MAX_FPGAS
          NumBoards,  \* boards that answer the query for their numbers
          Sizes,      \* sizes the script gives the data array
          IntMax,     \* the largest int: sendDataShm counts bytes in one
          MaxConns,   \* bound: connections of all the scripts
          MaxQueue,   \* bound: requests the server has not read
          MaxOwed     \* bound: pulses and numbers owed when a script asks

ASSUME IpcAssumption ==
  /\ ListLen \in Nat \ {0} /\ NumBoards \in Nat
  /\ Sizes \subseteq Nat \ {0} /\ IntMax \in Nat \ {0}
  /\ MaxConns \in Nat \ {0} /\ MaxQueue \in Nat \ {0} /\ MaxOwed \in Nat

VARIABLES
  up,         \* the server runs
  backlog,    \* connections it has not accepted yet
  held,       \* the connections it holds
  commFd,     \* g_ipcCommFd: the connection accepted last, 0 for none
  reused,     \* a board's connection has been given that descriptor
  stray,      \* a word has been sent to a board (history)
  pulses,     \* queries whose pulse may still be completed
  asked,      \* numbers that boards have still to send
  size,       \* bytes of the data array
  seg,        \* bytes of the shared memory segment, 0 for none
  toServer,   \* requests under way on each connection
  toScript,   \* words under way on each connection
  py,         \* the script: "off", "free" or the word it waits for
  conns,      \* connections made so far; the last is the script's
  careless    \* it has left an answer it had asked for, or has asked for
              \* more memory than an int can count (history)

serverVars == <<up, backlog, held, commFd, reused, stray, pulses, asked, size,
                seg>>
netVars    == <<toServer, toScript>>
scriptVars == <<py, conns, careless>>
ipcVars == <<serverVars, netVars, scriptVars>>

Conns == 1..MaxConns
NoConn == 0

(* The connection whose other end a script holds.                          *)
Open(c) == py # "off" /\ c = conns

Init == /\ up = TRUE
        /\ backlog = <<>> /\ held = {}
        /\ commFd = NoConn /\ reused = FALSE /\ stray = FALSE
        /\ pulses = 0 /\ asked = 0
        /\ size \in {n \in Sizes : n <= IntMax} /\ seg = 0
        /\ toServer = [c \in Conns |-> <<>>]
        /\ toScript = [c \in Conns |-> <<>>]
        /\ py = "off" /\ conns = 0
        /\ careless = FALSE

-----------------------------------------------------------------------------
(* The script *)

Ask(op, n) ==
  /\ Len(toServer[conns]) < MaxQueue
  /\ toServer' = [toServer EXCEPT ![conns] = Append(@, [op |-> op, n |-> n])]

Words == toScript[conns]
Take(k) == toScript' = [toScript EXCEPT ![conns] = SubSeq(@, k + 1, Len(@))]

(* Something the script has asked for has not come to its end.             *)
Owed == \/ py # "free" \/ Words # <<>>
        \/ toServer[conns] # <<>>
        \/ pulses > 0 \/ asked > 0

(* connect; the server accepts when it gets to it.                         *)
Connect == /\ up
           /\ py = "off" /\ conns < MaxConns
           /\ conns' = conns + 1
           /\ backlog' = Append(backlog, conns + 1)
           /\ py' = "free"
           /\ UNCHANGED <<up, held, commFd, reused, stray, pulses, asked, size,
                          seg, netVars, careless>>

(* disconnect, or the end of the script.  Words it has not read are lost,  *)
(* its requests are not.                                                   *)
Disconnect == /\ py # "off"
              /\ py' = "off"
              /\ careless' = (careless \/ Owed)
              /\ toScript' = [toScript EXCEPT ![conns] = <<>>]
              /\ UNCHANGED <<serverVars, toServer, conns>>

(* shutdown sends its message and closes.                                  *)
Shutdown == /\ py = "free"
            /\ Ask("shutdown", 0)
            /\ py' = "off"
            /\ careless' = (careless \/ Owed)
            /\ toScript' = [toScript EXCEPT ![conns] = <<>>]
            /\ UNCHANGED <<serverVars, conns>>

(* setRecLen, setDataArraySize and allocateDataArrayMemory: no answer.     *)
Resize(n) == /\ py = "free"
             /\ Ask("resize", n)
             /\ careless' = (careless \/ n > IntMax)
             /\ UNCHANGED <<serverVars, toScript, py, conns>>

(* queryData, queryBoardInfo and readData ask, and wait for ...            *)
AskAndWait(op, word) == /\ py = "free"
                        /\ pulses + asked <= MaxOwed
                        /\ Ask(op, 0)
                        /\ py' = word
                        /\ UNCHANGED <<serverVars, toScript, conns, careless>>

(* ... the completion, ...                                                 *)
ReadPulse == /\ py = "pulse" /\ Words # <<>>
             /\ Take(1)
             /\ py' = "free"
             /\ UNCHANGED <<serverVars, toServer, conns, careless>>

(* ... board numbers until none has come for half a second, and then the   *)
(* list, for which there is no timeout, or ...                             *)
ReadBoard == /\ py = "board" /\ Words # <<>>
             /\ Take(1)
             /\ UNCHANGED <<serverVars, toServer, scriptVars>>

NoMoreBoards == /\ py = "board" /\ Words = <<>>
                /\ careless' = (careless \/ asked > 0 \/ toServer[conns] # <<>>)
                /\ Ask("list", 0)
                /\ py' = "list"
                /\ UNCHANGED <<serverVars, toScript, conns>>

ReadList == /\ py = "list" /\ Len(Words) >= ListLen
            /\ Take(ListLen)
            /\ py' = "free"
            /\ UNCHANGED <<serverVars, toServer, conns, careless>>

(* ... the key, to read the segment and have it released.                  *)
ReadShm == /\ py = "shm" /\ Words # <<>>
           /\ Take(1)
           /\ Ask("release", 0)
           /\ py' = "free"
           /\ UNCHANGED <<serverVars, conns, careless>>

(* ipcWait times out.  After readData nobody asks for the release: it      *)
(* raises an exception, having no memory to return (dataServer.py:145),    *)
(* which ends the script (Disconnect) or leaves it free where it is caught.*)
TimeOut == /\ py \in {"pulse", "shm"} /\ Words = <<>>
           /\ py' = "free"
           /\ careless' = TRUE
           /\ UNCHANGED <<serverVars, netVars, conns>>

-----------------------------------------------------------------------------
(* The server *)

Ends == /\ up' = FALSE
        /\ UNCHANGED <<toScript, stray>>

(* A 4-byte word for the script, to g_ipcCommFd.  At the other end's close *)
(* the connection breaks with SIGPIPE; on a closed descriptor send fails,  *)
(* which ends the server if the handler checks it; a descriptor that has   *)
(* been reused is a board's connection.                                    *)
SendWord(word, checked) ==
  \/ /\ commFd \in held /\ Open(commFd)
     /\ toScript' = [toScript EXCEPT ![commFd] = Append(@, word)]
     /\ UNCHANGED <<up, stray>>
  \/ /\ commFd \in held /\ ~Open(commFd)
     /\ Ends
  \/ /\ commFd \notin held /\ reused
     /\ stray' = TRUE
     /\ UNCHANGED <<up, toScript>>
  \/ /\ commFd \notin held /\ ~reused
     /\ \/ checked /\ Ends
        \/ ~checked /\ UNCHANGED <<up, toScript, stray>>

(* A server that stays with the first script.                              *)
MutantAccept(c) == /\ up
                   /\ backlog # <<>> /\ c = Head(backlog)
                   /\ backlog' = Tail(backlog)
                   /\ held' = held \cup {c}
                   /\ commFd' = (IF commFd = NoConn THEN c ELSE commFd)
                   /\ reused' = (IF commFd = NoConn THEN FALSE ELSE reused)
                   /\ UNCHANGED <<up, stray, pulses, asked, size, seg, netVars,
                                  scriptVars>>

(* acceptIPCconnection.                                                    *)
Accept(c) == /\ up
             /\ backlog # <<>> /\ c = Head(backlog)
             /\ backlog' = Tail(backlog)
             /\ held' = held \cup {c}
             /\ commFd' = c
             /\ reused' = FALSE
             /\ UNCHANGED <<up, stray, pulses, asked, size, seg, netVars,
                            scriptVars>>

(* recv returns 0: deletePollSock; g_ipcCommFd stays what it is.           *)
Drop(c) == /\ up
           /\ c \in held /\ ~Open(c) /\ toServer[c] = <<>>
           /\ held' = held \ {c}
           /\ UNCHANGED <<up, backlog, commFd, reused, stray, pulses, asked,
                          size, seg, netVars, scriptVars>>

(* The lowest free descriptor goes to the next connection of a board.      *)
BoardConnects == /\ up
                 /\ commFd # NoConn /\ commFd \notin held
                 /\ ~reused
                 /\ reused' = TRUE
                 /\ UNCHANGED <<up, backlog, held, commFd, stray, pulses, asked,
                                size, seg, netVars, scriptVars>>

Request(c, op) == /\ up
                  /\ c \in held /\ toServer[c] # <<>>
                  /\ Head(toServer[c]).op = op
                  /\ toServer' = [toServer EXCEPT ![c] = Tail(@)]
                  /\ UNCHANGED <<backlog, held, commFd, reused, scriptVars>>

(* CASE_QUERY_DATA; queries that overlap may each be completed.            *)
HandleQuery(c) == /\ Request(c, "query")
                  /\ pulses' = pulses + 1
                  /\ UNCHANGED <<up, stray, asked, size, seg, toScript>>

(* CASE_QUERY_BOARD_INFO: every board will answer it, besides what it has  *)
(* still to answer.                                                        *)
HandleInfo(c) == /\ Request(c, "info")
                 /\ asked' = asked + NumBoards
                 /\ UNCHANGED <<up, stray, pulses, size, seg, toScript>>

(* Lists of all of g_connectedBoards, which has MAX_FPGAS + 1 entries, and *)
(* of the boards that are connected.                                       *)
MutantListOfAll == [i \in 1..(ListLen + 1) |-> "list"]
MutantListOfConnected == [i \in 1..(ListLen - 1) |-> "list"]
List == [i \in 1..ListLen |-> "list"]

(* CASE_GET_BOARD_INFO_IPC answers on the connection it was asked on.      *)
HandleList(c) ==
  /\ Request(c, "list")
  /\ \/ /\ Open(c)
        /\ toScript' = [toScript EXCEPT ![c] = @ \o List]
        /\ UNCHANGED <<up, stray>>
     \/ ~Open(c) /\ Ends
  /\ UNCHANGED <<pulses, asked, size, seg>>

(* The messages that set the dimensions and allocate the array.            *)
HandleResize(c) == /\ Request(c, "resize")
                   /\ size' = Head(toServer[c]).n
                   /\ UNCHANGED <<up, stray, pulses, asked, seg, toScript>>

(* data_size is an int: what is left of the size is its low bits, with the *)
(* highest of them for the sign.                                           *)
DataSize == ((size + IntMax + 1) % (2 * (IntMax + 1))) - (IntMax + 1)

(* shmget makes a segment, or finds the one that is there if it is as      *)
(* large; a negative size is taken for a huge one.                         *)
Gets(n) == IF seg = 0 THEN n >= 1 ELSE n \in 0..seg

(* A server that does not look at what shmget returns.                     *)
MutantHandleShare(c) ==
  /\ Request(c, "share")
  /\ seg' = IF seg = 0 THEN DataSize ELSE seg
  /\ SendWord("shm", TRUE)
  /\ UNCHANGED <<pulses, asked, size>>

(* CASE_SEND_CSERVER_DATA_IPC with msg[1] = 1.                             *)
HandleShare(c) ==
  /\ Request(c, "share")
  /\ \/ /\ Gets(DataSize)
        /\ seg' = IF seg = 0 THEN DataSize ELSE seg
        /\ SendWord("shm", TRUE)
     \/ ~Gets(DataSize) /\ Ends /\ UNCHANGED seg
  /\ UNCHANGED <<pulses, asked, size>>

(* A release that detaches the segment without removing it.                *)
MutantHandleRelease(c) ==
  /\ Request(c, "release")
  /\ UNCHANGED <<up, stray, pulses, asked, size, seg, toScript>>

(* With msg[1] = 0.                                                        *)
HandleRelease(c) == /\ Request(c, "release")
                    /\ seg' = 0
                    /\ UNCHANGED <<up, stray, pulses, asked, size, toScript>>

(* CASE_SHUTDOWN_SERVER.                                                   *)
HandleShutdown(c) == /\ Request(c, "shutdown")
                     /\ Ends
                     /\ UNCHANGED <<pulses, asked, size, seg>>

Handle(c) == \/ HandleQuery(c) \/ HandleInfo(c) \/ HandleList(c)
             \/ HandleResize(c) \/ HandleShare(c) \/ HandleRelease(c)
             \/ HandleShutdown(c)

(* A board sends its number; the result of send is not looked at.          *)
BoardAnswers == /\ up
                /\ asked > 0
                /\ asked' = asked - 1
                /\ SendWord("board", FALSE)
                /\ UNCHANGED <<backlog, held, commFd, reused, pulses, size, seg,
                               toServer, scriptVars>>

(* The last byte of the pulse arrives; if send fails, the server exits.    *)
PulseCompletes == /\ up
                  /\ pulses > 0
                  /\ pulses' = pulses - 1
                  /\ SendWord("pulse", TRUE)
                  /\ UNCHANGED <<backlog, held, commFd, reused, asked, size,
                                 seg, toServer, scriptVars>>

(* Someone starts the server again: its state is new, the kernel's shared  *)
(* memory is not.  The script's connection is lost with the old server.    *)
Relaunch == /\ ~up
            /\ up' = TRUE
            /\ backlog' = <<>> /\ held' = {}
            /\ commFd' = NoConn /\ reused' = FALSE
            /\ pulses' = 0 /\ asked' = 0
            /\ toServer' = [c \in Conns |-> <<>>]
            /\ toScript' = [c \in Conns |-> <<>>]
            /\ py' = "off"
            /\ careless' = (careless \/ py # "off")
            /\ UNCHANGED <<stray, size, seg, conns>>

-----------------------------------------------------------------------------
ScriptReads == ReadPulse \/ ReadBoard \/ NoMoreBoards \/ ReadList \/ ReadShm

Next == \/ Connect \/ Disconnect \/ Shutdown
        \/ \E n \in Sizes : Resize(n)
        \/ AskAndWait("query", "pulse")
        \/ AskAndWait("info", "board")
        \/ AskAndWait("share", "shm")
        \/ ScriptReads \/ TimeOut
        \/ \E c \in Conns : Accept(c) \/ Drop(c) \/ Handle(c)
        \/ BoardAnswers \/ PulseCompletes
        \/ BoardConnects \/ Relaunch

(* The epoll loop serves every socket, boards answer for their numbers,    *)
(* and a script that waits reads what comes; that a pulse completes, or    *)
(* that a script gives up, is not assumed.                                 *)
Fairness == /\ \A c \in Conns : WF_ipcVars(Accept(c)) /\ WF_ipcVars(Handle(c))
            /\ WF_ipcVars(BoardAnswers)
            /\ WF_ipcVars(ScriptReads)

Spec == Init /\ [][Next]_ipcVars /\ Fairness

-----------------------------------------------------------------------------
Ops == {"query", "info", "list", "share", "release", "resize", "shutdown"}
Requests == {r \in [op : Ops, n : Nat] : r.op = "resize" => r.n \in Sizes}
WordKinds == {"pulse", "board", "list", "shm"}

TypeOK ==
  /\ up \in BOOLEAN /\ backlog \in Seq(Conns) /\ held \subseteq Conns
  /\ commFd \in Conns \cup {NoConn}
  /\ reused \in BOOLEAN /\ stray \in BOOLEAN
  /\ pulses \in Nat /\ asked \in Nat
  /\ size \in Sizes /\ seg \in 0..IntMax
  /\ toServer \in [Conns -> Seq(Requests)]
  /\ toScript \in [Conns -> Seq(WordKinds)]
  /\ py \in WordKinds \cup {"off", "free"}
  /\ conns \in Conns \cup {NoConn} /\ (py # "off" => conns \in Conns)
  /\ careless \in BOOLEAN

(* "tells python to wait for confirmation from the cServer that all data   *)
(* has been received" (dataServer.py:202), and not for any other word: a   *)
(* script that has left no answer behind, in this session or an earlier    *)
(* one, only ever finds words of the kind it waits for.                    *)
AnswersMatch ==
  ~careless /\ py # "off" => \A i \in 1..Len(Words) : Words[i] = py

(* "disconnect python from the C server but leave it running in the        *)
(* background so you can reconnect to it later" (dataServer.py:190): such  *)
(* scripts may come and go, the server stays, without them and for the     *)
(* next, until it is told to shut down.                                    *)
ServerStays == [][~careless /\ up /\ ~up' =>
                    \E c \in Conns : HandleShutdown(c)]_ipcVars

(* What such a script reads is a segment of the array's size, not one that *)
(* an earlier session has left (cServer.c:456).                            *)
SegmentFits == ~careless /\ py = "shm" /\ Words # <<>> => seg = size

(* queryBoardInfo and readData get their answers, in whatever state the    *)
(* scripts before them have left the socket: recv of the list has no       *)
(* timeout (dataServer.py:162).                                            *)
Answered == py \in {"list", "shm"} ~> py \in {"free", "off"} \/ ~up
=============================================================================
