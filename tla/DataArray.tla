------------------------------ MODULE DataArray ------------------------------
(***************************************************************************)
(* The server's data array (cServer.c): its dimensions, its allocation and *)
(* what setDataAddrPointers gives each data socket: the place at which the *)
(* next segment is stored, and the length the server takes it to have.     *)
(*                                                                         *)
(* Setting the dimensions or the record length neither allocates memory    *)
(* nor moves a pointer; each of the other messages does some of it.  What  *)
(* keeps the records inside the array, and apart from each other, is the   *)
(* order in which the script sends the messages, and that the sockets are  *)
(* there when it does: the boards connect and disconnect them after the    *)
(* record length has reached them, and the server learns the number of     *)
(* ports from the sockets it happens to hold (g_portMax).                  *)
(*                                                                         *)
(* The unit of memory is the sample (8 bytes).  Boards are named by the    *)
(* ranks g_enetBoardIdx gives them, sockets by board and port.             *)
(***************************************************************************)
EXTENDS Naturals, FiniteSets, FiniteSetsExt

CONSTANTS MaxFpgas,       \* MAX_FPGAS
          DefaultRecLen,  \* g_recLen and g_packetsize after a reset
          RecLens,        \* pairs the script passes to setRecLen
          Lens,           \* triples it passes to setDataArraySize
          Indices,        \* triples it passes to declareDataAcqIdx
          MaxBoards       \* bound: the boards that ever connect

Record(rl, pk) == [len |-> rl, packet |-> pk]
DefaultRecord == Record(DefaultRecLen, DefaultRecLen)
Records == {DefaultRecord} \cup {Record(r[1], r[2]) : r \in RecLens}

ASSUME ArrayAssumption ==
  /\ MaxFpgas \in Nat \ {0} /\ MaxBoards \in 1..MaxFpgas
  /\ DefaultRecLen \in Nat \ {0}
  /\ \A r \in RecLens : r[1] \in Nat \ {0} /\ r[2] \in 1..r[1]
  /\ Lens \subseteq Nat \X Nat \X Nat
  /\ Indices \subseteq Nat \X Nat \X Nat

VARIABLES
  pyLens,     \* python: l1, l2, l3
  lens,       \* g_idx1len, g_idx2len, g_idx3len
  ids,        \* g_id1, g_id2, g_id3
  record,     \* g_recLen and g_packetsize
  numBoards,  \* g_numBoards
  portMax,    \* g_portMax, with data ports numbered from 1
  size,       \* what data has been allocated
  maxIdx,     \* g_maxDataIdx
  joined,     \* the boards connected and identified
  due,        \* boards with a record length under way
  hps,        \* the record length and packet size each board has
  active,     \* boards that have been told to have their ports connected
  wired,      \* the data sockets the server holds
  pointed,    \* those of them whose data_addr has been set
  addr,       \* data_addr of each, less data
  dataLen,    \* dataLen of each
  stored,     \* the segments that are in the array, and where
  ready,      \* the array has been allocated for what is asked for, with
              \* everybody counted and connected (history)
  declared    \* an index has been declared since then and since the last
              \* pulse (history)

dimVars == <<pyLens, lens, ids, record>>
countVars == <<numBoards, portMax>>
memVars == <<size, maxIdx, stored>>
hpsVars == <<joined, due, hps, active, wired>>
ptrVars == <<pointed, addr, dataLen>>
arrayVars == <<dimVars, countVars, memVars, hpsVars, ptrVars, ready, declared>>

Layout(r) == INSTANCE RecordLayout WITH RecLen <- r.len, PacketSize <- r.packet

Ranks == 0..(MaxBoards - 1)
Joined == 0..(joined - 1)
Sockets == Ranks \X UNION {1..Layout(r)!NumPorts : r \in Records}

Events(l) == l[1] * l[2] * l[3]

Init == /\ pyLens = <<1, 1, 1>> /\ lens = <<1, 1, 1>> /\ ids = <<0, 0, 0>>
        /\ record = DefaultRecord
        /\ numBoards = 0 /\ portMax = 0
        /\ size = MaxFpgas * DefaultRecLen
        /\ maxIdx = MaxFpgas * DefaultRecLen
        /\ joined = 0 /\ due = {} /\ active = {}
        /\ hps = [r \in Ranks |-> DefaultRecord]
        /\ wired = {} /\ pointed = {}
        /\ addr = [s \in Sockets |-> 0] /\ dataLen = [s \in Sockets |-> 0]
        /\ stored = {}
        /\ ready = FALSE /\ declared = FALSE

-----------------------------------------------------------------------------
(* The boards *)

(* The data sockets board r is to have: its ports, or none before the      *)
(* first message that makes it connect them.                               *)
Needed(r) == IF r \in active THEN {r} \X (1..Layout(hps[r])!NumPorts) ELSE {}
Connected == due = {} /\ wired = UNION {Needed(r) : r \in Joined}

(* A board answers the query for its number.                               *)
BoardJoins == /\ joined < MaxBoards
              /\ joined' = joined + 1
              /\ UNCHANGED <<dimVars, countVars, memVars, ptrVars, due, hps,
                             active, wired, ready, declared>>

(* CASE_RECLEN reaches board r.                                            *)
Obey(r) == /\ r \in due
           /\ due' = due \ {r}
           /\ hps' = [hps EXCEPT ![r] = record]
           /\ active' = active \cup {r}
           /\ UNCHANGED <<dimVars, countVars, memVars, ptrVars, joined, wired,
                          ready, declared>>

(* A data socket is accepted; data_addr is what malloc left there.         *)
Dial(s) == /\ s \in Needed(s[1]) \ wired
           /\ wired' = wired \cup {s}
           /\ UNCHANGED <<dimVars, countVars, memVars, ptrVars, joined, due,
                          hps, active, ready, declared>>

(* One the board no longer needs is found closed, and deleted.             *)
Hangup(s) == /\ s \in wired \ Needed(s[1])
             /\ wired' = wired \ {s} /\ pointed' = pointed \ {s}
             /\ addr' = [addr EXCEPT ![s] = 0]
             /\ dataLen' = [dataLen EXCEPT ![s] = 0]
             /\ UNCHANGED <<dimVars, countVars, memVars, joined, due, hps,
                            active, ready, declared>>

-----------------------------------------------------------------------------
(* Counting and pointing *)

(* What updateBoardGlobals makes of g_portMax: the sockets it goes through *)
(* are those of every board.                                               *)
PortMax == Max({0} \cup {s[2] : s \in wired})

(* Blocks as long as the second dimension, not the third.                  *)
MutantPulseIdx(l, i) == l[2] * (i[1] * l[2] + i[2]) + i[3]

(* Row-major order.                                                        *)
PulseIdx(l, i) == l[3] * (i[1] * l[2] + i[2]) + i[3]

(* The segment of port p, with pm for the last port.                       *)
SegmentLen(p, r, pm) == IF r.len % r.packet # 0 /\ p = pm
                          THEN r.len % r.packet ELSE r.packet

(* setDataAddrPointers, for lengths l, indices i, record r, n boards and   *)
(* last port pm.                                                           *)
SetDataAddrPointers(l, i, r, n, pm) ==
  /\ addr' = [s \in Sockets |->
                IF s \in wired
                  THEN (PulseIdx(l, i) * n + s[1]) * r.len + (s[2] - 1) * r.packet
                  ELSE addr[s]]
  /\ dataLen' = [s \in Sockets |->
                   IF s \in wired THEN SegmentLen(s[2], r, pm) ELSE dataLen[s]]
  /\ pointed' = wired

-----------------------------------------------------------------------------
(* The messages of the user interface *)

(* A count that does not start from g_numBoards = 0.                       *)
MutantGetBoardInfo == /\ numBoards' = numBoards + joined
                      /\ portMax' = PortMax
                      /\ ready' = (ready /\ numBoards = joined)
                      /\ UNCHANGED <<dimVars, memVars, hpsVars, ptrVars, declared>>

(* CASE_GET_BOARD_INFO_IPC counts the boards and the ports.                *)
GetBoardInfo == /\ numBoards' = joined
                /\ portMax' = PortMax
                /\ ready' = (ready /\ numBoards = joined)
                /\ UNCHANGED <<dimVars, memVars, hpsVars, ptrVars, declared>>

(* CASE_SET_RECORD_LENGTH with lengths both sides accept.                  *)
SetRecLen(r) == /\ record' = r
                /\ due' = Joined
                /\ ready' = (ready /\ record = r)
                /\ UNCHANGED <<pyLens, lens, ids, countVars, memVars, ptrVars,
                               joined, hps, active, wired, declared>>

(* CASE_TOGGLE_DATA_ACQUISITION: a board that has had no record length     *)
(* connects the ports of the one it has started with.                      *)
ToggleDataAcq == /\ active' = active \cup (Joined \ due)
                 /\ UNCHANGED <<dimVars, countVars, memVars, ptrVars, joined,
                                due, hps, wired, ready, declared>>

(* CASE_SET_CSERVER_DATA_ARRAY_SIZE makes every length at least 1.         *)
AtLeastOne(l) == [d \in 1..3 |-> IF l[d] > 0 THEN l[d] ELSE 1]

(* setDataArraySize, which does the same before it sends them.             *)
SetDataArraySize(l) ==
  LET used == AtLeastOne(l)
  IN  /\ pyLens' = used
      /\ lens' = AtLeastOne(used)
      /\ ready' = (ready /\ lens = used)
      /\ UNCHANGED <<ids, record, countVars, memVars, hpsVars, ptrVars, declared>>

(* What CASE_ALLOCATE asks malloc for.                                     *)
Allocated(n) == n * Events(lens) * record.len

(* An allocation that points the sockets before it counts.                 *)
MutantAllocate == /\ size' = Allocated(numBoards)
                  /\ maxIdx' = Allocated(numBoards)
                  /\ numBoards' = joined
                  /\ portMax' = PortMax
                  /\ SetDataAddrPointers(lens, ids, record, numBoards, portMax)
                  /\ stored' = {}
                  /\ ready' = (numBoards = joined /\ pyLens = lens /\ Connected
                                 /\ \A r \in Joined : hps[r] = record /\ r \in active)
                  /\ declared' = FALSE
                  /\ UNCHANGED <<dimVars, hpsVars>>

(* CASE_ALLOCATE_CSERVER_DATA_ARRAY_MEM: allocate for the boards of the    *)
(* last count, count them, and point the sockets into the new array.       *)
Allocate == /\ size' = Allocated(numBoards)
            /\ maxIdx' = Allocated(numBoards)
            /\ numBoards' = joined
            /\ portMax' = PortMax
            /\ SetDataAddrPointers(lens, ids, record, joined, PortMax)
            /\ stored' = {}
            /\ ready' = (numBoards = joined /\ pyLens = lens /\ Connected
                           /\ \A r \in Joined : hps[r] = record /\ r \in active)
            /\ declared' = FALSE
            /\ UNCHANGED <<dimVars, hpsVars>>

(* A check that lets the length itself through.                            *)
MutantValid(i) == \A d \in 1..3 : i[d] <= pyLens[d]

Valid(i) == \A d \in 1..3 : i[d] < pyLens[d]

(* A server that moves the pointers before it stores the indices.          *)
MutantDeclareDataAcqIdx(i) ==
  /\ ids' = IF Valid(i) THEN i ELSE <<0, 0, 0>>
  /\ SetDataAddrPointers(lens, ids, record, numBoards, portMax)
  /\ declared' = TRUE
  /\ UNCHANGED <<pyLens, lens, record, countVars, memVars, hpsVars, ready>>

(* declareDataAcqIdx, which sends zeros for indices it finds invalid, and  *)
(* CASE_DECLARE_CSERVER_DATA_ARRAY_INDEX.                                  *)
DeclareDataAcqIdx(i) ==
  LET used == IF Valid(i) THEN i ELSE <<0, 0, 0>>
  IN  /\ ids' = used
      /\ SetDataAddrPointers(lens, used, record, numBoards, portMax)
      /\ declared' = TRUE
      /\ UNCHANGED <<pyLens, lens, record, countVars, memVars, hpsVars, ready>>

(* resetVars and CASE_RESET_GLOBAL_VARIABLES: resetGlobalVars and          *)
(* resetFPGAdataAcqParams, and an array for all the boards there may be.   *)
(* Python keeps its lengths.                                               *)
ResetVars == /\ record' = DefaultRecord
             /\ lens' = <<1, 1, 1>> /\ ids' = <<0, 0, 0>>
             /\ size' = MaxFpgas * DefaultRecLen
             /\ maxIdx' = MaxFpgas * DefaultRecLen
             /\ due' = Joined
             /\ stored' = {}
             /\ SetDataAddrPointers(<<1, 1, 1>>, <<0, 0, 0>>, DefaultRecord,
                                    numBoards, portMax)
             /\ ready' = FALSE /\ declared' = FALSE
             /\ UNCHANGED <<pyLens, countVars, joined, hps, active, wired>>

(* The bytes of a pulse have all arrived, every segment where its pointer  *)
(* was, and the pointers go on to the next pulse, or back by one.          *)
Pulse ==
  /\ numBoards > 0 /\ numBoards = joined
  /\ active = Joined /\ \A r \in Joined : Needed(r) \subseteq wired
  /\ MapThenSumSet(LAMBDA r : hps[r].len, Joined) = numBoards * record.len
  /\ stored' = {s \in stored : s.event # ids} \cup
                 {[event |-> ids, board |-> s[1], port |-> s[2], at |-> addr[s],
                   len |-> Layout(hps[s[1]])!ClientLen(s[2])] :
                    s \in UNION {Needed(r) : r \in Joined}}
  /\ addr' = [s \in Sockets |->
                IF s \notin wired THEN addr[s]
                ELSE IF addr[s] > maxIdx THEN addr[s] - numBoards * record.len
                                         ELSE addr[s] + numBoards * record.len]
  /\ declared' = FALSE
  /\ UNCHANGED <<dimVars, countVars, hpsVars, size, maxIdx, pointed, dataLen,
                 ready>>

(* CASE_SAVE and CASE_SEND read the whole array, as they take it to be.    *)
Read == numBoards * Events(lens) * record.len

-----------------------------------------------------------------------------
Boards == \/ BoardJoins
          \/ \E r \in Ranks : Obey(r)
          \/ \E s \in Sockets : Dial(s) \/ Hangup(s)

Setup == \/ GetBoardInfo \/ ToggleDataAcq
         \/ \E r \in RecLens : SetRecLen(Record(r[1], r[2]))
         \/ \E l \in Lens : SetDataArraySize(l)
         \/ Allocate
         \/ ResetVars

Declare == \E i \in Indices : DeclareDataAcqIdx(i)

(* A script that does what the documentation asks for, which is that       *)
(* memory is allocated before data is acquired (dataServer.py:68) and an   *)
(* index declared before each pulse (dataServer.py:100), and one thing     *)
(* more that no document asks for: that the boards were counted and        *)
(* connected, and the dimensions set since a reset, before it allocated    *)
(* (the server allocates for the count before the one it then makes,       *)
(* cServer.c:659-663).  What it has done before, and in which order, does  *)
(* not matter.                                                             *)
OrderlyNext == \/ Boards \/ Setup
               \/ ready /\ Declare
               \/ ready /\ declared /\ Pulse

(* One that leaves it to the server to go on to the next index.            *)
IncrementingNext == \/ Boards \/ Setup
                    \/ ready /\ Declare
                    \/ ready /\ Pulse

OrderlySpec == Init /\ [][OrderlyNext]_arrayVars
IncrementingSpec == Init /\ [][IncrementingNext]_arrayVars

-----------------------------------------------------------------------------
TypeOK == /\ lens \in Nat \X Nat \X Nat /\ pyLens \in Nat \X Nat \X Nat
          /\ ids \in Nat \X Nat \X Nat
          /\ record \in Records /\ hps \in [Ranks -> Records]
          /\ size \in Nat /\ maxIdx \in Nat
          /\ numBoards \in 0..MaxBoards /\ joined \in 0..MaxBoards
          /\ portMax \in {0} \cup {s[2] : s \in Sockets}
          /\ due \subseteq Ranks /\ active \subseteq Ranks
          /\ wired \subseteq Sockets /\ pointed \subseteq wired
          /\ addr \in [Sockets -> Nat] /\ dataLen \in [Sockets -> Nat]
          /\ \A s \in stored : <<s.board, s.port>> \in Sockets /\ s.at \in Nat
          /\ ready \in BOOLEAN /\ declared \in BOOLEAN

(* Every segment in the array lies inside what has been allocated.         *)
RecordsInArray == \A s \in stored : s.at + s.len <= size

(* Segments of different indices, boards or ports do not overlap, whatever *)
(* the order in which the indices are declared (cServer.c:366, 373).       *)
RecordsApart ==
  \A s, t \in stored :
    \/ s.event = t.event /\ s.board = t.board /\ s.port = t.port
    \/ s.at + s.len <= t.at
    \/ t.at + t.len <= s.at

(* The events in the order of their indices, the last running fastest.     *)
Before(j, i) == \/ j[1] < i[1]
                \/ j[1] = i[1] /\ j[2] < i[2]
                \/ j[1] = i[1] /\ j[2] = i[2] /\ j[3] < i[3]
EventSet(l) == (0..l[1] - 1) \X (0..l[2] - 1) \X (0..l[3] - 1)
Place(i) == Cardinality({j \in EventSet(lens) : Before(j, i)})

(* Saving or sharing the array reads no more than was allocated and finds  *)
(* every segment where the script will look for it: in the order of the    *)
(* indices, then of the boards, then of the ports (cServer.c:738, 447).    *)
ReadsFindRecords ==
  ready => /\ Read <= size
           /\ \A s \in stored :
                s.at = (Place(s.event) * numBoards + s.board) * record.len
                         + (s.port - 1) * record.packet

(* Nothing on the wire delimits a segment.  Once the array is allocated,   *)
(* the server's sockets have places in it and take the segments to be as   *)
(* long as the boards make them, though it knows the last port only from   *)
(* the sockets it held when it counted them (cServer.c:400).  And they go  *)
(* to the places in the record that the boards read them from, but for a   *)
(* short last segment, which a board reads from elsewhere (RecordLayout).  *)
LengthsFit ==
  ready => \A r \in 0..(numBoards - 1), p \in 1..Layout(record)!NumPorts :
             /\ <<r, p>> \in pointed
             /\ dataLen[<<r, p>>] = Layout(hps[r])!ClientLen(p)
             /\ \/ Layout(hps[r])!ClientSource(p) = (p - 1) * record.packet
                \/ p > 1 /\ dataLen[<<r, p>>] < record.packet

(* "can't write to memory location, overwriting previous location"         *)
(* (cServer.c:896): a pulse past the last index of the array overwrites    *)
(* the one before and nothing outside the array.                           *)
OverwritesPreviousLocation == RecordsInArray
=============================================================================
