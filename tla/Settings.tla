------------------------------- MODULE Settings -------------------------------
(***************************************************************************)
(* The settings of the acquisition and the way they travel: the script     *)
(* sets them in python (dataServer.py), which checks them and sends them   *)
(* to the server (cServer.c), which checks them and sends them on to the   *)
(* boards (client_funcs.h), which check them again.  There is no answer:   *)
(* the three tiers agree only because their checks do.                     *)
(***************************************************************************)
EXTENDS Naturals, Sequences

CONSTANTS Boards,
          Delays,        \* what the script passes to setTrigDelay,
          RecLens,       \*   to setRecLen,
          PacketSizes,   \*   as its packet size,
          Depths,        \*   to setInterleaveDepthAndTimer,
          Timers,        \*   as its timer,
          Waits,         \*   as its packetWait,
          Timeouts,      \*   and to setQueryDataTimeout
          MaxCommands    \* bound: the commands of a script

ASSUME SettingsAssumption ==
  /\ Boards # {}
  /\ Delays \cup RecLens \cup PacketSizes \cup Depths \cup Timers \cup Waits
       \cup Timeouts \subseteq Nat
  /\ MaxCommands \in Nat

VARIABLES py,      \* the fields of the dataServer object
          ipc,     \* messages to the server
          server,  \* the server's g_ variables
          comm,    \* messages to each board
          hps,     \* each board's variables
          lensBy,  \* who has set the record length last (history)
          badWait, \* the script's last packetWait was out of range (history)
          groupsReset,  \* and resetVars has been called since (history)
          sent     \* the commands the script has given

setVars == <<py, ipc, server, comm, hps, lensBy, badWait, groupsReset, sent>>

TRIG_DELAY_MAX == 1000
MIN_PACKETSIZE == 128
MAX_RECLEN == 8192             \* of python and the server
HPS_MAX_RECLEN == 8191         \* of the boards
MIN_QUERY_DATA_TIMEOUT == 1000
MAX_DATA_PORTS == 64

(* A message: its case and its three numbers.                              *)
Msg(case, x, y, z) == [case |-> case, msg |-> <<x, y, z>>]
Cases == {"trigDelay", "recLen", "interleave", "dataGo", "reset", "timeout"}

-----------------------------------------------------------------------------
(* Boards *)

(* One port too many when the packets fill the record exactly.             *)
MutantNumPorts(rl, ps) == rl \div ps + 1

NumPorts(rl, ps) == (rl - 1) \div ps + 1

HpsDefaults == [delay |-> 0, recLen |-> 2048, packetsize |-> 2048,
                numPorts |-> NumPorts(2048, 2048), depth |-> 1, timer |-> 0,
                wait |-> 0, go |-> 0, polls |-> 1000]

(* CASE_RECLEN.                                                            *)
HpsRecLen(h, rl, ps) ==
  LET legal == rl \in MIN_PACKETSIZE..HPS_MAX_RECLEN
      len   == IF legal THEN rl ELSE 2048
      size  == IF ~legal THEN 2048
               ELSE IF ps \in MIN_PACKETSIZE..rl THEN ps ELSE rl
  IN  [h EXCEPT !.recLen = len, !.packetsize = size,
                !.numPorts = NumPorts(len, size)]

(* CASE_SET_INTERLEAVE_DEPTH_AND_TIMER.                                    *)
HpsInterleave(h, m) ==
  IF m[1] > 0
    THEN [h EXCEPT !.depth = m[1],
                   !.timer = IF m[2] < 5000 THEN m[2] ELSE 0,
                   !.wait = IF m[3] < 5000 THEN m[3] ELSE 0]
    ELSE [h EXCEPT !.depth = 1, !.timer = 0, !.wait = 0]

(* Polls are 10 us apart.                                                  *)
HpsTimeout(h, t) == [h EXCEPT !.polls = IF t > 999 THEN t \div 10 ELSE 1000]

(* CASE_DATAGO, as far as it is a setting.                                 *)
HpsGo(x) == IF x = 1 THEN 1 ELSE 0

HpsApply(h, m) ==
  CASE m.case = "trigDelay"  -> [h EXCEPT !.delay = 20 * m.msg[1]]
    [] m.case = "recLen"     -> HpsRecLen(h, m.msg[1], m.msg[2])
    [] m.case = "interleave" -> HpsInterleave(h, m.msg)
    [] m.case = "dataGo"     -> [h EXCEPT !.go = HpsGo(m.msg[1])]
    [] m.case = "timeout"    -> HpsTimeout(h, m.msg[1])

-----------------------------------------------------------------------------
(* The server *)

ServerDefaults == [delay |-> 0, recLen |-> 2048, packetsize |-> 2048,
                   timeout |-> 1000]

ServerPacketSize(rl, ps) == IF ps \in MIN_PACKETSIZE..rl THEN ps ELSE rl

(* CASE_SET_QUERY_DATA_TIMEOUT; the message goes on as it is.              *)
ServerTimeout(t) == IF t > 999 THEN t ELSE 10000

(* CASE_SET_INTERLEAVE_DEPTH_AND_TIMER: all of it or none.                 *)
ServerInterleave(m) ==
  IF m[1] > 0 /\ m[2] < 5000 /\ m[3] < 5000 THEN m ELSE <<1, 0, 0>>

(* CASE_TOGGLE_DATA_ACQUISITION.                                           *)
ServerGo(x) == IF x = 1 THEN 1 ELSE 0

(* Each case stores what it keeps.                                         *)
ServerApply(s, m) ==
  CASE m.case = "trigDelay" -> [s EXCEPT !.delay = m.msg[1]]
    [] m.case = "recLen" ->
         IF m.msg[1] \in MIN_PACKETSIZE..MAX_RECLEN
           THEN [s EXCEPT !.recLen = m.msg[1],
                          !.packetsize = ServerPacketSize(m.msg[1], m.msg[2])]
           ELSE ServerDefaults
    [] m.case = "timeout" -> [s EXCEPT !.timeout = ServerTimeout(m.msg[1])]
    [] m.case = "reset" -> ServerDefaults
    [] OTHER -> s

(* A reset that forgets the record length.                                 *)
MutantResetMessages == <<Msg("dataGo", 0, 0, 0),
                         Msg("trigDelay", ServerDefaults.delay, 0, 0),
                         Msg("timeout", ServerDefaults.timeout, 0, 0)>>

(* resetFPGAdataAcqParams; the array it fills keeps no older numbers that  *)
(* a board would read.                                                     *)
ResetMessages == <<Msg("dataGo", 0, 0, 0),
                   Msg("trigDelay", ServerDefaults.delay, 0, 0),
                   Msg("recLen", ServerDefaults.recLen,
                       ServerDefaults.packetsize, 0),
                   Msg("timeout", ServerDefaults.timeout, 0, 0)>>

(* And sends its own version of it to the boards.                          *)
ServerSends(m) ==
  CASE m.case = "recLen" ->
         IF m.msg[1] \in MIN_PACKETSIZE..MAX_RECLEN
           THEN <<Msg("recLen", m.msg[1],
                      ServerPacketSize(m.msg[1], m.msg[2]), 0)>>
           ELSE ResetMessages
    [] m.case = "interleave" ->
         <<[m EXCEPT !.msg = ServerInterleave(@)]>>
    [] m.case = "dataGo" -> <<Msg("dataGo", ServerGo(m.msg[1]), 0, 0)>>
    [] m.case = "reset" -> ResetMessages
    [] OTHER -> <<m>>

-----------------------------------------------------------------------------
Init == /\ py = [delay |-> 0, recLen |-> 2048, packetsize |-> 2048,
                 depth |-> 1, timer |-> 0, wait |-> 0, timeout |-> 1000,
                 da |-> 0]
        /\ ipc = <<>>
        /\ server = ServerDefaults
        /\ comm = [b \in Boards |-> <<>>]
        /\ hps = [b \in Boards |-> HpsDefaults]
        /\ lensBy = "default" /\ badWait = FALSE /\ groupsReset = FALSE
        /\ sent = 0

Send(m) == /\ sent < MaxCommands
           /\ sent' = sent + 1
           /\ ipc' = Append(ipc, m)
           /\ UNCHANGED <<server, comm, hps>>

(* A python that reports an invalid delay and sends it.                    *)
MutantSetTrigDelay(td) == /\ py' = [py EXCEPT !.delay = td]
                          /\ Send(Msg("trigDelay", td, 0, 0))
                          /\ UNCHANGED <<lensBy, badWait, groupsReset>>

(* setTrigDelay.                                                           *)
SetTrigDelay(td) ==
  LET used == IF td <= TRIG_DELAY_MAX THEN td ELSE 0
  IN  /\ py' = [py EXCEPT !.delay = used]
      /\ Send(Msg("trigDelay", used, 0, 0))
      /\ UNCHANGED <<lensBy, badWait, groupsReset>>

(* setRecLen.                                                              *)
SetRecLen(rl, ps) ==
  LET legal == rl \in MIN_PACKETSIZE..MAX_RECLEN
      len   == IF legal THEN rl ELSE 2048
      size  == IF ~legal THEN 2048
               ELSE IF ps \in MIN_PACKETSIZE..rl THEN ps ELSE rl
  IN  /\ py' = [py EXCEPT !.recLen = len, !.packetsize = size]
      /\ Send(Msg("recLen", len, size, 0))
      /\ lensBy' = "script"
      /\ UNCHANGED <<badWait, groupsReset>>

(* A python that sends the default and keeps its own settings.             *)
MutantSetInterleave(depth, timer, wait) ==
  /\ \/ /\ depth > 0 /\ timer < 5000
        /\ py' = [py EXCEPT !.depth = depth, !.timer = timer,
                            !.wait = IF wait > 5000 THEN 0 ELSE wait]
        /\ Send(Msg("interleave", depth, timer, wait))
        /\ badWait' = (wait >= 5000)
     \/ /\ ~(depth > 0 /\ timer < 5000)
        /\ Send(Msg("interleave", 1, 0, 0))
        /\ badWait' = FALSE
        /\ UNCHANGED py
  /\ groupsReset' = FALSE
  /\ UNCHANGED lensBy

(* setInterleaveDepthAndTimer stores a corrected packetWait and sends the  *)
(* one it was given.                                                       *)
SetInterleave(depth, timer, wait) ==
  /\ \/ /\ depth > 0 /\ timer < 5000
        /\ py' = [py EXCEPT !.depth = depth, !.timer = timer,
                            !.wait = IF wait > 5000 THEN 0 ELSE wait]
        /\ Send(Msg("interleave", depth, timer, wait))
        /\ badWait' = (wait >= 5000)
     \/ /\ ~(depth > 0 /\ timer < 5000)
        /\ py' = [py EXCEPT !.depth = 1, !.timer = 0]
        /\ Send(Msg("interleave", 1, 0, 0))
        /\ badWait' = FALSE
  /\ groupsReset' = FALSE
  /\ UNCHANGED lensBy

ToggleDataAcq(da) == /\ py' = [py EXCEPT !.da = da]
                     /\ Send(Msg("dataGo", da, 0, 0))
                     /\ UNCHANGED <<lensBy, badWait, groupsReset>>

SetQueryDataTimeout(t) ==
  LET used == IF t > MIN_QUERY_DATA_TIMEOUT THEN t ELSE 10000
  IN  /\ py' = [py EXCEPT !.timeout = used]
      /\ Send(Msg("timeout", used, 0, 0))
      /\ UNCHANGED <<lensBy, badWait, groupsReset>>

(* resetVars; python's own fields stay as they are.                        *)
ResetVars == /\ Send(Msg("reset", 0, 0, 0))
             /\ lensBy' = "reset"
             /\ groupsReset' = TRUE
             /\ UNCHANGED <<py, badWait>>

(* The server handles a message and sends to every board.                  *)
ServerHandles ==
  /\ ipc # <<>>
  /\ ipc' = Tail(ipc)
  /\ server' = ServerApply(server, Head(ipc))
  /\ comm' = [b \in Boards |-> comm[b] \o ServerSends(Head(ipc))]
  /\ UNCHANGED <<py, hps, lensBy, badWait, groupsReset, sent>>

(* A board handles a message.                                              *)
BoardHandles(b) == /\ comm[b] # <<>>
                   /\ hps' = [hps EXCEPT ![b] = HpsApply(@, Head(comm[b]))]
                   /\ comm' = [comm EXCEPT ![b] = Tail(@)]
                   /\ UNCHANGED <<py, ipc, server, lensBy, badWait, groupsReset, sent>>

Next == \/ \E td \in Delays : SetTrigDelay(td)
        \/ \E rl \in RecLens, ps \in PacketSizes : SetRecLen(rl, ps)
        \/ \E d \in Depths, t \in Timers, w \in Waits : SetInterleave(d, t, w)
        \/ \E da \in {0, 1} : ToggleDataAcq(da)
        \/ \E t \in Timeouts : SetQueryDataTimeout(t)
        \/ ResetVars
        \/ ServerHandles
        \/ \E b \in Boards : BoardHandles(b)

Spec == Init /\ [][Next]_setVars

-----------------------------------------------------------------------------
(* Values that have been checked.                                          *)
UsedDelays == 0..TRIG_DELAY_MAX
UsedLens == MIN_PACKETSIZE..MAX_RECLEN
HpsLens == MIN_PACKETSIZE..HPS_MAX_RECLEN
UsedTimes == 0..4999
PyWaits == 0..5000

(* What the script can send, and what the server can send on.              *)
ScriptMsgs == {m \in [case : Cases, msg : Nat \X Nat \X Nat] :
                 /\ m.case = "trigDelay" => m.msg[1] \in UsedDelays
                 /\ m.case = "recLen" => /\ m.msg[1] \in UsedLens
                                         /\ m.msg[2] \in UsedLens
                                         /\ m.msg[2] <= m.msg[1]
                 /\ m.case = "interleave" => /\ m.msg[1] > 0
                                             /\ m.msg[2] \in UsedTimes
                 /\ m.case = "dataGo" => m.msg[1] \in {0, 1}}
BoardMsgs == {m \in ScriptMsgs :
                /\ m.case # "reset"
                /\ m.case = "interleave" => m.msg[3] \in UsedTimes}

PyFields == [delay : UsedDelays, recLen : UsedLens, packetsize : UsedLens,
             depth : Nat \ {0}, timer : UsedTimes, wait : PyWaits,
             timeout : Nat, da : {0, 1}]
ServerVars == [delay : UsedDelays, recLen : UsedLens, packetsize : UsedLens,
               timeout : Nat]
HpsVars == [delay : Nat, recLen : HpsLens, packetsize : HpsLens, numPorts : Nat,
            depth : Nat \ {0}, timer : UsedTimes, wait : UsedTimes, go : {0, 1},
            polls : Nat]

TypeOK == /\ py \in PyFields
          /\ ipc \in Seq(ScriptMsgs)
          /\ server \in ServerVars
          /\ comm \in [Boards -> Seq(BoardMsgs)]
          /\ hps \in [Boards -> HpsVars]
          /\ lensBy \in {"default", "script", "reset"}
          /\ badWait \in BOOLEAN
          /\ groupsReset \in BOOLEAN
          /\ sent \in 0..MaxCommands

(* Nothing is under way.                                                   *)
Quiet == ipc = <<>> /\ \A b \in Boards : comm[b] = <<>>

(* What RecordLayout assumes of a record holds on the server and on every  *)
(* board at every moment, the packet never being longer than the record,   *)
(* and a board's ports are just enough for its record and are among those  *)
(* the server listens on (client_funcs.h:306, cServer.c:229).              *)
LayoutIsLegal ==
  /\ server.packetsize \in MIN_PACKETSIZE..server.recLen
  /\ \A b \in Boards :
       LET h == hps[b]
       IN  /\ h.packetsize \in MIN_PACKETSIZE..h.recLen
           /\ (h.numPorts - 1) * h.packetsize < h.recLen
           /\ h.recLen <= h.numPorts * h.packetsize
           /\ h.numPorts <= MAX_DATA_PORTS

(* Once the messages have been handled, every board cuts its records the   *)
(* way the server counts them, and both as the script has asked last.      *)
LensAgree ==
  Quiet =>
    /\ \A b \in Boards : /\ hps[b].recLen = server.recLen
                         /\ hps[b].packetsize = server.packetsize
    /\ lensBy = "script" => /\ server.recLen = py.recLen
                            /\ server.packetsize = py.packetsize
    /\ lensBy = "reset" => server.recLen = ServerDefaults.recLen

(* The group python prints for a board, its number modulo interleaveDepth  *)
(* (dataServer.py:158), is the one the board delays its data by, and the   *)
(* delay is python's, too; only a packetWait out of range, which python    *)
(* corrects for itself and sends as it is (dataServer.py:55), leaves the   *)
(* boards in a single group, whatever was asked for, and all of them.  The *)
(* wait itself may be gone when python still has it, never the reverse:    *)
(* an invalid depth clears the boards' and not python's (dataServer.py:58).*)
(* Nothing is asked of groups that the script has had reset since: what    *)
(* becomes of those is ResetRestoresGroups.                                *)
GroupsAgree ==
  Quiet /\ ~groupsReset =>
    \A b \in Boards :
      LET h == hps[b]
      IN  /\ h.wait \in {0, py.wait}
          /\ IF badWait THEN h.depth = 1 /\ h.timer = 0
                        ELSE h.depth = py.depth /\ h.timer = py.timer

(* "Valid range = 128-8192" (dataServer.py:40): a record length that       *)
(* python takes for valid is the length the boards come to use.            *)
ValidLengthsAreUsed ==
  Quiet /\ lensBy = "script" =>
    \A b \in Boards : hps[b].recLen = py.recLen

(* "restores the variables in the cServer and SoCs to their default        *)
(* values" (dataServer.py:118), "resets all variables to their defaults"   *)
(* (cServer.c:717): when a reset has been handled the boards are in the    *)
(* one group they start in, unless the script has grouped them since.      *)
ResetRestoresGroups ==
  Quiet /\ groupsReset =>
    \A b \in Boards : /\ hps[b].depth = HpsDefaults.depth
                      /\ hps[b].timer = HpsDefaults.timer
                      /\ hps[b].wait = HpsDefaults.wait
=============================================================================
