----------------------------- MODULE BoardRegistry -----------------------------
(***************************************************************************)
(* The server's list of sockets and what it derives from it: which board   *)
(* is behind which comm socket, how many boards there are, and where each  *)
(* of them stores its data (cServer.c: accept, delete, update, send).      *)
(*                                                                         *)
(* A board connects its comm socket and stays anonymous until it has       *)
(* answered CASE_QUERY_BOARD_INFO; it connects its data ports when a       *)
(* message that needs them reaches it.  Boards come, go and come back at   *)
(* any time.  Descriptors are the kernel's: the lowest free one is given   *)
(* to the next connection.                                                 *)
(***************************************************************************)
EXTENDS Integers, FiniteSets, SequencesExt

CONSTANTS Boards,      \* the numbers in the boards' boardData files
          MaxFpgas,    \* MAX_FPGAS: the tables have entries 0..MaxFpgas
          DataPorts,   \* the data ports of a record
          Garbage,     \* what boardNum may hold before it is written
          MaxLeaves,   \* bound: how often a board leaves
          MaxInbox     \* bound: messages under way to or from one board

ASSUME RegistryAssumption ==
  /\ MaxFpgas \in Nat \ {0} /\ Boards \subseteq 1..MaxFpgas
  /\ Garbage \subseteq Int
  /\ DataPorts \in Nat \ {0} /\ MaxLeaves \in Nat /\ MaxInbox \in Nat \ {0}

VARIABLES
  socks,      \* the list at psock, without the listeners, newest first
  commFd,     \* g_enetCommFd
  numBoards,  \* g_numBoards
  boardIdx,   \* g_enetBoardIdx
  asking,     \* python is between the two messages of queryBoardInfo
  on,         \* the boards whose program runs
  inbox,      \* messages under way to a board
  dialing,    \* the data ports a board still has to connect
  leaves,     \* how often boards have left
  trusted     \* nothing disorderly has happened since the last update made
              \* when every connection was there and identified (history)

tableVars == <<commFd, numBoards, boardIdx>>
hpsVars   == <<on, inbox, dialing, leaves>>
regVars   == <<socks, tableVars, asking, hpsVars, trusted>>

Numbers == 0..MaxFpgas
Fds == 1..((DataPorts + 1) * (Cardinality(Boards) + MaxLeaves))
NoFd == 0

(* from and alive are the connection's other end: the board, and whether   *)
(* it still holds it.  known tells whether num was ever written.           *)
Sock == [fd : Fds, from : Boards, port : 0..DataPorts, num : Int,
         known : BOOLEAN, alive : BOOLEAN, answers : 0..MaxInbox]

Comm(s) == s.port = 0
Held(b, p) == \E i \in DOMAIN socks :
                socks[i].from = b /\ socks[i].port = p /\ socks[i].alive
NewFd == Min({f \in Fds : \A i \in DOMAIN socks : socks[i].fd # f})

Init == /\ socks = <<>>
        /\ commFd = [k \in Numbers |-> NoFd]
        /\ numBoards = 0
        /\ boardIdx = [k \in Numbers |-> 0]
        /\ asking = FALSE
        /\ on = {}
        /\ inbox = [b \in Boards |-> <<>>]
        /\ dialing = [b \in Boards |-> {}]
        /\ leaves = 0
        /\ trusted = TRUE

-----------------------------------------------------------------------------
(* Messages *)

(* What reaches board b of a message sent to the descriptors F.  Anything  *)
(* that reaches a data port ends the board's program (HPSmain.c:171).      *)
Reaches(b, F, m) ==
  LET hit == {i \in DOMAIN socks :
                socks[i].alive /\ socks[i].from = b /\ socks[i].fd \in F}
  IN  IF hit = {} THEN <<>>
      ELSE IF \A i \in hit : Comm(socks[i]) THEN <<m>> ELSE <<"illegal">>

Deliver(F, m) ==
  /\ inbox' = [b \in Boards |-> inbox[b] \o Reaches(b, F, m)]
  /\ \A b \in Boards : Len(inbox'[b]) <= MaxInbox

(* broadcastENETmsg: to every comm socket in the list.                     *)
Broadcast(m) ==
  Deliver({socks[i].fd : i \in {j \in DOMAIN socks : Comm(socks[j])}}, m)

(* A server that takes the numbers for places in the list of boards.       *)
MutantSendToAll(m) == Deliver({commFd[k] : k \in 0..(numBoards - 1)} \ {NoFd}, m)

(* sendENETmsg with boardNum 0: to g_enetCommFd[0..MAX_FPGAS-1].           *)
SendToAll(m) == Deliver({commFd[k] : k \in 0..(MaxFpgas - 1)} \ {NoFd}, m)

-----------------------------------------------------------------------------
(* The boards, and what the server does as they connect and disconnect *)

(* A server that leaves the number of a data socket as it is.              *)
MutantAccept(b, p, num, known) ==
  /\ socks' = <<[fd |-> NewFd, from |-> b, port |-> p,
                 num |-> IF p = 0 THEN num ELSE 0,
                 known |-> known, alive |-> TRUE, answers |-> 0]>> \o socks
  /\ UNCHANGED <<tableVars, asking>>

(* acceptENETconnection puts the connection at the head of the list.       *)
Accept(b, p, num, known) ==
  /\ socks' = <<[fd |-> NewFd, from |-> b, port |-> p, num |-> num,
                 known |-> known, alive |-> TRUE, answers |-> 0]>> \o socks
  /\ UNCHANGED <<tableVars, asking>>

(* The program starts: on the comm port the server knows nothing of the    *)
(* board, and boardNum is what malloc left there.                          *)
Join(b) == /\ b \notin on
           /\ on' = on \cup {b}
           /\ \E garbage \in Garbage : Accept(b, 0, garbage, FALSE)
           /\ UNCHANGED <<inbox, dialing, leaves>>

(* CASE_QUERY_BOARD_INFO: the board sends its number.                      *)
Answer(b) ==
  /\ dialing[b] = {}
  /\ inbox[b] # <<>>
  /\ Head(inbox[b]) = "info"
  /\ \A i \in DOMAIN socks : socks[i].from = b => socks[i].answers < MaxInbox
  /\ inbox' = [inbox EXCEPT ![b] = Tail(@)]
  /\ socks' = [i \in DOMAIN socks |->
                 IF socks[i].from = b /\ Comm(socks[i]) /\ socks[i].alive
                   THEN [socks[i] EXCEPT !.answers = @ + 1] ELSE socks[i]]
  /\ UNCHANGED <<tableVars, asking, on, dialing, leaves>>

(* A board that connects one port too many.                                *)
MutantSetup(b) ==
  /\ dialing[b] = {}
  /\ inbox[b] # <<>>
  /\ Head(inbox[b]) = "setup"
  /\ inbox' = [inbox EXCEPT ![b] = Tail(@)]
  /\ dialing' = [dialing EXCEPT ![b] = {p \in 1..(DataPorts + 1) : ~Held(b, p)}]
  /\ UNCHANGED <<socks, tableVars, asking, on, leaves>>

(* CASE_RECLEN or CASE_DATAGO: the board is to connect its missing ports.  *)
Setup(b) ==
  /\ dialing[b] = {}
  /\ inbox[b] # <<>>
  /\ Head(inbox[b]) = "setup"
  /\ inbox' = [inbox EXCEPT ![b] = Tail(@)]
  /\ dialing' = [dialing EXCEPT ![b] = {p \in 1..DataPorts : ~Held(b, p)}]
  /\ UNCHANGED <<socks, tableVars, asking, on, leaves>>

(* One data port connects.  updatePsockField_boardNum copies the number of *)
(* the newest comm socket from the same address.                           *)
Dial(b) ==
  LET same == {i \in DOMAIN socks : Comm(socks[i]) /\ socks[i].from = b}
      comm == socks[Min(same)]
  IN  /\ dialing[b] # {}
      /\ dialing' = [dialing EXCEPT ![b] = @ \ {Min(@)}]
      /\ Accept(b, Min(dialing[b]), comm.num, comm.known)
      /\ UNCHANGED <<on, inbox, leaves>>

(* The board's program ends, by itself or on an illegal message; what was  *)
(* under way to it is lost, what it has sent is not.                       *)
Leave(b) ==
  /\ b \in on
  /\ leaves < MaxLeaves
  /\ leaves' = leaves + 1
  /\ on' = on \ {b}
  /\ inbox' = [inbox EXCEPT ![b] = <<>>]
  /\ dialing' = [dialing EXCEPT ![b] = {}]
  /\ socks' = [i \in DOMAIN socks |->
                 IF socks[i].from = b THEN [socks[i] EXCEPT !.alive = FALSE]
                                      ELSE socks[i]]
  /\ UNCHANGED <<tableVars, asking>>

(* A server that enters the socket in its table before it has stored the   *)
(* number.                                                                 *)
MutantIdentify(i) ==
  /\ socks[i].answers > 0
  /\ socks' = [socks EXCEPT ![i].answers = @ - 1,
                            ![i].num = socks[i].from,
                            ![i].known = TRUE]
  /\ commFd' = [commFd EXCEPT ![socks[i].num] = socks[i].fd]
  /\ UNCHANGED <<numBoards, boardIdx, asking, hpsVars>>

(* recv on a comm socket yields the board's number.                        *)
Identify(i) ==
  /\ socks[i].answers > 0
  /\ socks' = [socks EXCEPT ![i].answers = @ - 1,
                            ![i].num = socks[i].from,
                            ![i].known = TRUE]
  /\ commFd' = [commFd EXCEPT ![socks[i].from] = socks[i].fd]
  /\ UNCHANGED <<numBoards, boardIdx, asking, hpsVars>>

(* recv finds the connection closed: deletePollSock.  The tables stay.     *)
Drop(i) == /\ ~socks[i].alive
           /\ socks[i].answers = 0
           /\ socks' = RemoveAt(socks, i)
           /\ UNCHANGED <<tableVars, asking, hpsVars>>

-----------------------------------------------------------------------------
(* The messages of the user interface *)

(* queryBoardInfo asks every board for its number ...                      *)
QueryBoardInfo == /\ ~asking
                  /\ asking' = TRUE
                  /\ Broadcast("info")
                  /\ UNCHANGED <<socks, tableVars, on, dialing, leaves>>

(* updateBoardGlobals: the oldest comm socket with a number has its entry, *)
(* every comm socket counts, and the boards are ranked by their numbers.   *)
(* A number outside the table is an index outside enetCommFd               *)
(* (cServer.c:406): the descriptor is written over something else on the   *)
(* stack, and no entry gets it; if that ends the server, nothing follows.  *)
NewCommFd == [k \in Numbers |->
                LET same == {i \in DOMAIN socks : Comm(socks[i]) /\ socks[i].num = k}
                IN  IF same = {} THEN NoFd ELSE socks[Max(same)].fd]

(* Ranks taken after l++ instead of before.                                *)
MutantNewBoardIdx == [k \in Numbers |->
                  IF NewCommFd[k] = NoFd THEN boardIdx[k]
                  ELSE Cardinality({j \in 0..k : NewCommFd[j] # NoFd})]
NewBoardIdx == [k \in Numbers |->
                  IF NewCommFd[k] = NoFd THEN boardIdx[k]
                  ELSE Cardinality({j \in 0..(k - 1) : NewCommFd[j] # NoFd})]

(* An update that does not start from g_numBoards = 0.                     *)
MutantUpdateKeepsCount == /\ commFd' = NewCommFd
                          /\ boardIdx' = NewBoardIdx
                          /\ numBoards' = numBoards + Cardinality(
                               {i \in DOMAIN socks : Comm(socks[i])})
UpdateBoardGlobals == /\ commFd' = NewCommFd
                      /\ boardIdx' = NewBoardIdx
                      /\ numBoards' = Cardinality(
                           {i \in DOMAIN socks : Comm(socks[i])})

(* ... and, when it has heard nothing for half a second, has the server    *)
(* update its tables (CASE_GET_BOARD_INFO_IPC).                            *)
GetBoardInfo == /\ asking
                /\ asking' = FALSE
                /\ UpdateBoardGlobals
                /\ UNCHANGED <<socks, hpsVars>>

(* CASE_ALLOCATE_CSERVER_DATA_ARRAY_MEM updates them, too.                 *)
Allocate == /\ ~asking
            /\ UpdateBoardGlobals
            /\ UNCHANGED <<socks, asking, hpsVars>>

(* setRecLen, toggleDataAcq: a message for all the boards.                 *)
Configure == /\ ~asking
             /\ SendToAll("setup")
             /\ UNCHANGED <<socks, tableVars, asking, on, dialing, leaves>>

-----------------------------------------------------------------------------
(* Every connection is there, identified.                                  *)
Settled == \A i \in DOMAIN socks : socks[i].alive /\ socks[i].known

(* What leaves the tables as true as they are: boards that connect outside *)
(* of queryBoardInfo, their numbers and ports, and messages for all.       *)
OrderlyStep == \/ \E b \in Boards : ~asking /\ Join(b)
               \/ \E b \in Boards : Answer(b) \/ Setup(b) \/ Dial(b)
               \/ \E i \in DOMAIN socks : Identify(i)
               \/ QueryBoardInfo \/ Configure

(* What does not: boards that leave, or connect in the middle of it.       *)
DisorderlyStep == \/ \E b \in Boards : Leave(b) \/ (asking /\ Join(b))
                  \/ \E i \in DOMAIN socks : Drop(i)

Update == GetBoardInfo \/ Allocate

(* Tables are trusted after an update that finds everybody identified,     *)
(* whatever has happened before, until something disorderly happens or an  *)
(* update comes before a board has answered.                               *)
Next == \/ OrderlyStep /\ UNCHANGED trusted
        \/ DisorderlyStep /\ trusted' = FALSE
        \/ Update /\ trusted' = Settled

Spec == Init /\ [][Next]_regVars

-----------------------------------------------------------------------------
TypeOK == /\ socks \in Seq(Sock)
          /\ commFd \in [Numbers -> Fds \cup {NoFd}]
          /\ numBoards \in Nat
          /\ boardIdx \in [Numbers -> Nat]
          /\ asking \in BOOLEAN
          /\ on \subseteq Boards
          /\ inbox \in [Boards -> Seq({"info", "setup", "illegal"})]
          /\ dialing \in [Boards -> SUBSET (1..DataPorts)]
          /\ leaves \in 0..MaxLeaves
          /\ trusted \in BOOLEAN

(* "sends msg to board number boardNum" (cServer.c:333): what the server   *)
(* sends to the entry of a board in trusted tables reaches that board or   *)
(* nobody, while others connect and get their numbers.                     *)
MessagesReachTheirBoard ==
  trusted => \A k \in Boards, i \in DOMAIN socks :
    socks[i].alive /\ socks[i].fd = commFd[k] => Comm(socks[i]) /\ socks[i].from = k

(* A message for all boards (sendENETmsg with boardNum 0; "boardNum start  *)
(* at 1", cServer.c:337) reaches every board that is in the table.         *)
MessagesForAllReachAll ==
  [][trusted /\ Configure =>
       \A b \in on : commFd[b] # NoFd => inbox'[b] # inbox[b]]_regVars

(* Data is stored under the number of the board it comes from, though a    *)
(* data socket only copies it, once, from a comm socket, which holds       *)
(* garbage before the board has answered.                                  *)
DataSocketsKnowTheirBoard ==
  trusted => \A i \in DOMAIN socks : ~Comm(socks[i]) => socks[i].num = socks[i].from

(* Outside queryBoardInfo the boards that are sent queries are those whose *)
(* bytes the server waits for: recvCount is compared with g_numBoards      *)
(* records, queries go to the entries of g_enetCommFd.  And each of them   *)
(* has a segment of the data array of its own, of the first g_numBoards.   *)
QueriedBoardsAreCounted ==
  trusted /\ ~asking =>
    LET K == {k \in Numbers : commFd[k] # NoFd}
    IN  /\ numBoards = Cardinality(K)
        /\ \A j, k \in K : boardIdx[j] = boardIdx[k] => j = k
        /\ \A k \in K : boardIdx[k] < numBoards

(* However boards have come and gone: an update made while all connections *)
(* are there and identified leaves exactly the connected boards in the     *)
(* table, each with its own socket.                                        *)
UpdateRestores ==
  [][Update /\ Settled =>
       /\ numBoards' = Cardinality(on)
       /\ \A k \in Numbers : commFd'[k] # NoFd <=> k \in on
       /\ \A i \in DOMAIN socks : Comm(socks[i]) =>
            commFd'[socks[i].from] = socks[i].fd]_regVars
=============================================================================
