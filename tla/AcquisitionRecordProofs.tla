----------------------- MODULE AcquisitionRecordProofs -----------------------
(***************************************************************************)
(* The acquisition with a script that gives up and asks again, and the     *)
(* records of both scripts, for every set of boards, record length and     *)
(* packet size.                                                            *)
(***************************************************************************)
EXTENDS AcquisitionProofs, AcquisitionRetry

-----------------------------------------------------------------------------
(* A script that gives up a query when every board has timed out without   *)
(* sending leaves nothing of it behind: the invariant of the acquisition   *)
(* is kept, and with it everything that follows from it.                   *)

(* When every board has given up, the state is as quiet as between two     *)
(* queries, and the script's going on changes nothing else.                *)
LEMMA PatientGiveUpInv ==
  ASSUME Inv, PatientGiveUp
  PROVE  Inv'
<1>1. /\ ui' = "ready" /\ ipcIn' = ipcIn /\ ipcOut' = ipcOut
      /\ recvIndividually' = recvIndividually /\ recvCount' = recvCount
      /\ pidx' = pidx /\ comm' = comm /\ wire' = wire /\ hps' = hps
      /\ order' = order /\ port' = port /\ transReady' = transReady
      /\ taken' = taken
  BY DEF PatientGiveUp, UIGiveUp, serverVars, netVars, boardVars
<1>2. PICK c \in Boards : GaveUp(c)
  BY BoardsAssumption DEF PatientGiveUp
<1>3. ui = "waiting" /\ ipcIn = <<>> /\ ipcOut = 0
  BY <1>2 DEF GaveUp, Active
<1>4. TypeOK'
  BY <1>1 DEF Inv, TypeOK, Query
<1>5. OneQueryAtATime'
  BY <1>1, <1>3 DEF OneQueryAtATime
<1>6. QuietBetweenQueries'
  <2>1. ASSUME NEW b \in Boards, NEW p \in Ports
        PROVE  pidx[b][p] = 0 /\ wire[b][p] = 0
    <3>1. Sent(b, p) = 0
      BY DEF PatientGiveUp, GaveUp
    <3>2. pidx[b][p] \in Nat /\ wire[b][p] \in Nat
      BY DEF Inv, TypeOK
    <3>3. QED
      BY <3>1, <3>2 DEF Sent
  <2>2. ASSUME NEW b \in Boards
        PROVE  hps[b] # "sending" /\ ~HoldsOrder(b) /\ ~QueuedOrder(b)
    BY DEF PatientGiveUp, GaveUp
  <2>3. QED
    BY <1>1, <2>1, <2>2 DEF QuietBetweenQueries, HoldsOrder, QueuedOrder
<1>7. CountIsDelivered'
  BY <1>1 DEF CountIsDelivered, Active
<1>8. ASSUME NEW b \in Boards PROVE BoardInv(b)'
  BY <1>1, BoardFrame DEF Inv, IInv
<1>9. QED
  BY <1>4, <1>5, <1>6, <1>7, <1>8 DEF Inv, IInv

LEMMA PatientNextInv ==
  ASSUME Inv, [Continue \/ PatientGiveUp]_retryVars
  PROVE  Inv'
<1>1. CASE Continue
  BY <1>1, NextInv DEF Continue
<1>2. CASE PatientGiveUp
  BY <1>2, PatientGiveUpInv
<1>3. CASE UNCHANGED retryVars
  BY <1>3, NextInv DEF retryVars
<1>4. QED
  BY <1>1, <1>2, <1>3

LEMMA PatientSpecInv == PatientSpec => []Inv
<1>1. RetryInit => Inv
  BY InitInv DEF RetryInit
<1>2. Inv /\ [Continue \/ PatientGiveUp]_retryVars => Inv'
  BY PatientNextInv
<1>3. QED
  BY <1>1, <1>2, PTL DEF PatientSpec

(* Giving up patiently keeps the inductive invariant: whatever the number  *)
(* of retries, the byte count of the server still means what it says.      *)
THEOREM PatientInvariance == PatientSpec => []IInv
<1>1. Inv => IInv
  BY DEF Inv
<1>2. QED
  BY <1>1, PatientSpecInv, PTL

(* In particular no packet of a later query is written behind one of an    *)
(* earlier query, which an impatient script can bring about.               *)
THEOREM PatientSegmentSafety == PatientSpec => []StaysInSegment
<1>1. Inv => StaysInSegment
  BY InvStaysInSegment
<1>2. QED
  BY <1>1, PatientSpecInv, PTL

(* The notification ipcWait reads is never the answer to an earlier query. *)
THEOREM PatientAnswersAreFresh == PatientSpec => AnswersAreFresh
<1>1. ASSUME Inv, [Continue \/ PatientGiveUp]_retryVars,
             ui = "ready", ui' = "waiting"
      PROVE  ipcOut = 0
  BY <1>1 DEF Inv, IInv, OneQueryAtATime
<1>2. Inv /\ [Continue \/ PatientGiveUp]_retryVars =>
        [ui = "ready" /\ ui' = "waiting" => ipcOut = 0]_retryVars
  BY <1>1
<1>3. QED
  BY <1>2, PatientSpecInv, PTL DEF PatientSpec, AnswersAreFresh

(* The pulse service is still what such a script gets: it withdraws a      *)
(* query only while nothing of the pulse has come (dataServer.py:203).     *)
THEOREM PatientRefinement == PatientSpec => ImplementsPulseService
<1>1. RetryInit => Service!PulseInit
  BY RefinementInit DEF RetryInit
<1>2. ASSUME Inv, [Continue \/ PatientGiveUp]_retryVars
      PROVE  [Service!PulseNext]_(Service!pulseVars)
  <2>1. CASE Continue \/ UNCHANGED retryVars
    BY <1>2, <2>1, RefinementStep DEF Continue, retryVars
  <2>2. CASE PatientGiveUp
    <3>1. /\ ui = "waiting" /\ ipcOut = 0 /\ ui' = "ready"
          /\ pidx' = pidx
      BY <2>2 DEF PatientGiveUp, UIGiveUp, serverVars
    <3>2. \A b \in Boards, p \in Ports : pidx[b][p] = 0
      <4>1. \A b \in Boards, p \in Ports :
              /\ pidx[b][p] \in Nat /\ wire[b][p] \in Nat
              /\ pidx[b][p] + wire[b][p] = 0
        BY <1>2, <2>2 DEF PatientGiveUp, GaveUp, Sent, Inv, TypeOK
      <4>2. QED
        BY <4>1
    <3>3. Delivered = {} /\ Delivered' = Delivered
      BY <3>1, <3>2, NothingDelivered DEF Delivered
    <3>4. Phase = "asked" /\ Phase' = "rest"
      BY <3>1 DEF Phase
    <3>5. QED
      BY <3>3, <3>4 DEF Service!PulseNext, Service!Withdraw
  <2>3. QED
    BY <1>2, <2>1, <2>2
<1>3. QED
  BY <1>1, <1>2, PatientSpecInv, PTL
     DEF PatientSpec, ImplementsPulseService, Service!PulseSpec

-----------------------------------------------------------------------------
(* A record is sent from one capture: no trailing order is taken, and no   *)
(* FPGA is reset, in the middle of a record.  RInv is inductive on top of  *)
(* Inv.                                                                    *)

Inv2 == Inv /\ RInv

(* What IInv says of the bytes of one socket.                              *)
LEMMA SentFacts ==
  ASSUME Inv, NEW b \in Boards, NEW p \in Ports
  PROVE  /\ pidx[b][p] \in Nat /\ wire[b][p] \in Nat
         /\ Sent(b, p) = pidx[b][p] + wire[b][p]
         /\ Sent(b, p) \in {0, ServerLen(p)}
         /\ ServerLen(p) \in Nat \ {0}
BY ConstantFacts DEF Inv, TypeOK, IInv, BoardInv, WholePackets, Sent

(* A board whose own state and sockets do not change keeps its invariant.  *)
LEMMA RecordFrame ==
  ASSUME NEW b \in Boards, RecordInv(b),
         pidx'[b] = pidx[b], wire'[b] = wire[b], comm'[b] = comm[b],
         hps'[b] = hps[b], order'[b] = order[b],
         transReady'[b] = transReady[b], taken'[b] = taken[b]
  PROVE  RecordInv(b)'
<1>1. \A p \in Ports : Sent(b, p)' = Sent(b, p)
  BY DEF Sent
<1>2. NumPorts \in Ports
  BY ConstantFacts
<1>3. Begun(b)' = Begun(b)
  BY <1>1, <1>2 DEF Begun
<1>4. OneTrailing(b)' /\ NoTrailingMidRecord(b)' /\ OrderIsLast(b)'
  BY <1>1 DEF RecordInv, OneTrailing, NoTrailingMidRecord, OrderIsLast,
              HoldsTrailing, QueuedTrailing, HoldsOrder, Orders, Trailing
<1>5. TakenIsSent(b)' /\ RecordIsHeld(b)'
  BY <1>3 DEF RecordInv, TakenIsSent, RecordIsHeld
<1>6. QED
  BY <1>4, <1>5 DEF RecordInv

LEMMA InitRecord == Init => RInv
<1> SUFFICES ASSUME Init, NEW b \in Boards PROVE RecordInv(b)
  BY DEF RInv
<1>1. /\ \A p \in Ports : Sent(b, p) = 0
      /\ comm[b] = <<>> /\ hps[b] = "idle" /\ taken[b] = {}
  BY DEF Init, Sent
<1>2. Begun(b) = {}
  BY <1>1 DEF Begun
<1>3. QED
  BY <1>1, <1>2
     DEF RecordInv, OneTrailing, NoTrailingMidRecord, OrderIsLast, TakenIsSent,
         RecordIsHeld, HoldsTrailing, QueuedTrailing, HoldsOrder

(* A message at the end of a queue.                                        *)
LEMMA AppendedMessage ==
  ASSUME NEW q \in Seq(Query), NEW m \in Query
  PROVE  /\ Len(Append(q, m)) = Len(q) + 1 /\ Len(q) \in Nat
         /\ Append(q, m)[Len(q) + 1] = m
         /\ \A i \in 1..Len(q) : Append(q, m)[i] = q[i]
OBVIOUS

(* The query reaches every board; none is at work.                         *)
LEMMA ServerQueryRecord ==
  ASSUME Inv, RInv, ServerQuery, NEW b \in Boards
  PROVE  RecordInv(b)'
<1> DEFINE m == [each |-> Head(ipcIn), idx |-> 0]
<1>1. ipcIn \in Seq({0, 1}) /\ ipcIn # <<>>
  BY DEF Inv, TypeOK, ServerQuery
<1>2. Head(ipcIn) \in {0, 1}
  BY <1>1
<1>3. m \in Query /\ ~Trailing(m)
  BY <1>2, ConstantFacts DEF Query, Trailing
<1> HIDE DEF m
<1>4. /\ comm'[b] = Append(comm[b], m)
      /\ pidx' = pidx /\ wire' = wire /\ hps' = hps /\ order' = order
      /\ transReady' = transReady /\ taken' = taken
  BY DEF ServerQuery, boardVars, m
<1>5. ~HoldsOrder(b) /\ hps[b] # "sending"
  BY <1>1 DEF Inv, IInv, QuietBetweenQueries, Active
<1>6. comm[b] \in Seq(Query)
  BY DEF Inv, TypeOK
<1>7. /\ Len(comm'[b]) = Len(comm[b]) + 1 /\ Len(comm[b]) \in Nat
      /\ comm'[b][Len(comm[b]) + 1] = m
      /\ \A i \in 1..Len(comm[b]) : comm'[b][i] = comm[b][i]
  BY <1>3, <1>4, <1>6, AppendedMessage
<1>8. \A i \in 1..Len(comm'[b]) :
        Trailing(comm'[b][i]) => /\ i \in 1..Len(comm[b])
                                 /\ Trailing(comm[b][i])
  BY <1>3, <1>7
<1>9. RecordInv(b)
  BY DEF RInv
<1>10. \A p \in Ports : Sent(b, p)' = Sent(b, p)
  BY <1>4 DEF Sent
<1>11. OneTrailing(b)' /\ NoTrailingMidRecord(b)'
  BY <1>4, <1>8, <1>9, <1>10
     DEF RecordInv, OneTrailing, NoTrailingMidRecord, HoldsTrailing,
         QueuedTrailing, Trailing
<1>12. OrderIsLast(b)'
  BY <1>4, <1>5 DEF OrderIsLast, HoldsOrder, Orders, Trailing
<1>13. Begun(b)' = Begun(b)
  BY <1>10, ConstantFacts DEF Begun
<1>14. TakenIsSent(b)' /\ RecordIsHeld(b)'
  BY <1>4, <1>9, <1>13 DEF RecordInv, TakenIsSent, RecordIsHeld
<1>15. QED
  BY <1>11, <1>12, <1>14 DEF RecordInv

(* Taking a message: a trailing one was the only one of its kind, an order *)
(* the last of the queue.                                                  *)
LEMMA BoardTakeRecord ==
  ASSUME Inv, RInv, NEW b \in Boards, BoardTake(b)
  PROVE  RecordInv(b)'
<1>1. PICK q \in Seq(Query) : q = comm[b]
  BY DEF Inv, TypeOK
<1>2. /\ hps \in [Boards -> {"idle", "waiting", "sending", "resetting"}]
      /\ order \in [Boards -> Query] /\ comm \in [Boards -> Seq(Query)]
  BY DEF Inv, TypeOK
<1>3. /\ q # <<>> /\ hps[b] = "idle"
      /\ order'[b] = Head(q) /\ comm'[b] = Tail(q) /\ hps'[b] = "waiting"
      /\ pidx' = pidx /\ wire' = wire /\ transReady' = transReady
      /\ taken' = taken
  BY <1>1, <1>2 DEF BoardTake, serverVars
<1>4. /\ Head(q) = q[1] /\ Len(q) \in Nat \ {0} /\ Len(Tail(q)) = Len(q) - 1
      /\ 1 \in 1..Len(q)
      /\ \A i \in 1..Len(Tail(q)) : Tail(q)[i] = q[i + 1] /\ i + 1 \in 1..Len(q)
  BY <1>1, <1>3
<1>5. RecordInv(b) /\ BoardInv(b)
  BY DEF RInv, Inv, IInv
<1>6. \A i, j \in 1..Len(q) : Trailing(q[i]) /\ Trailing(q[j]) => i = j
  BY <1>1, <1>5 DEF RecordInv, OneTrailing
<1>7. \A p \in Ports : Sent(b, p)' = Sent(b, p)
  BY <1>3 DEF Sent
<1>8. OneTrailing(b)'
  <2>1. HoldsTrailing(b)' => Trailing(q[1])
    BY <1>3, <1>4 DEF HoldsTrailing, Trailing
  <2>2. ASSUME Trailing(q[1]) PROVE ~QueuedTrailing(b)'
    <3> SUFFICES ASSUME NEW i \in 1..Len(Tail(q)), Trailing(Tail(q)[i])
                 PROVE  FALSE
      BY <1>3 DEF QueuedTrailing, Trailing
    <3>1. i + 1 = 1
      BY <1>4, <1>6, <2>2
    <3>2. QED
      BY <3>1
  <2>3. ASSUME NEW i \in 1..Len(Tail(q)), NEW j \in 1..Len(Tail(q)),
               Trailing(Tail(q)[i]), Trailing(Tail(q)[j])
        PROVE  i = j
    <3>1. i + 1 = j + 1
      BY <1>4, <1>6, <2>3
    <3>2. QED
      BY <3>1
  <2>4. QED
    BY <1>3, <2>1, <2>2, <2>3 DEF OneTrailing, Trailing
<1>9. NoTrailingMidRecord(b)'
  <2> SUFFICES ASSUME \E p \in Ports : Sent(b, p)' # 0,
                      pidx'[b][NumPorts] # ServerLen(NumPorts)
               PROVE  ~HoldsTrailing(b)' /\ ~QueuedTrailing(b)'
    BY DEF NoTrailingMidRecord
  <2>1. \A i \in 1..Len(q) : ~Trailing(q[i])
    BY <1>1, <1>3, <1>5, <1>7 DEF RecordInv, NoTrailingMidRecord, QueuedTrailing
  <2>2. QED
    BY <1>3, <1>4, <2>1 DEF HoldsTrailing, QueuedTrailing, Trailing
<1>10. OrderIsLast(b)'
  <2> SUFFICES ASSUME Orders(q[1]) PROVE Tail(q) = <<>>
    BY <1>3, <1>4 DEF OrderIsLast, HoldsOrder, Orders, Trailing
  <2>1. 1 = Len(q)
    BY <1>1, <1>4, <1>5 DEF BoardInv, QueuedOrdersFit
  <2>2. Len(Tail(q)) = 0 /\ Tail(q) \in Seq(Query)
    BY <1>1, <1>3, <1>4, <2>1
  <2>3. QED
    BY <2>2, EmptySeq
<1>11. Begun(b)' = Begun(b)
  BY <1>7, ConstantFacts DEF Begun
<1>12. TakenIsSent(b)' /\ RecordIsHeld(b)'
  BY <1>3, <1>5, <1>11 DEF RecordInv, TakenIsSent, RecordIsHeld
<1>13. QED
  BY <1>8, <1>9, <1>10, <1>12 DEF RecordInv

(* Finding a record: the board begins to send it, or drops a trailing      *)
(* order and keeps the record.                                             *)
LEMMA BoardReadyRecord ==
  ASSUME Inv, RInv, NEW b \in Boards, BoardReady(b)
  PROVE  RecordInv(b)'
<1>1. hps \in [Boards -> {"idle", "waiting", "sending", "resetting"}]
  BY DEF Inv, TypeOK
<1>2. /\ pidx' = pidx /\ wire' = wire /\ comm' = comm /\ order' = order
      /\ transReady' = transReady /\ taken' = taken
      /\ hps[b] = "waiting" /\ transReady[b]
  BY DEF BoardReady, serverVars, netVars
<1>3. /\ hps'[b] \in {"idle", "sending"}
      /\ hps'[b] = "sending" => HoldsOrder(b)
  BY <1>1, <1>2 DEF BoardReady, HoldsOrder, Orders
<1>4. RecordInv(b)
  BY DEF RInv
<1>5. \A p \in Ports : Sent(b, p)' = Sent(b, p)
  BY <1>2 DEF Sent
<1>6. ~HoldsTrailing(b)' /\ ~HoldsOrder(b)'
  BY <1>3 DEF HoldsTrailing, HoldsOrder
<1>7. OneTrailing(b)' /\ NoTrailingMidRecord(b)'
  BY <1>2, <1>4, <1>5, <1>6
     DEF RecordInv, OneTrailing, NoTrailingMidRecord, QueuedTrailing, Trailing
<1>8. OrderIsLast(b)'
  BY <1>2, <1>3, <1>4, <1>6 DEF RecordInv, OrderIsLast
<1>9. Begun(b)' = Begun(b)
  BY <1>5, ConstantFacts DEF Begun
<1>10. TakenIsSent(b)' /\ RecordIsHeld(b)'
  BY <1>2, <1>3, <1>4, <1>9 DEF RecordInv, TakenIsSent, RecordIsHeld
<1>11. QED
  BY <1>7, <1>8, <1>10 DEF RecordInv

(* Timing out: an FPGA without a record has given none of it.              *)
LEMMA BoardTimeoutRecord ==
  ASSUME Inv, RInv, NEW b \in Boards, BoardTimeout(b)
  PROVE  RecordInv(b)' /\ Begun(b) = {}
<1>1. hps \in [Boards -> {"idle", "waiting", "sending", "resetting"}]
  BY DEF Inv, TypeOK
<1>2. /\ pidx' = pidx /\ wire' = wire /\ comm' = comm /\ order' = order
      /\ transReady' = transReady /\ taken' = taken
      /\ hps[b] = "waiting" /\ ~transReady[b] /\ hps'[b] = "resetting"
  BY <1>1 DEF BoardTimeout, serverVars, netVars
<1>3. RecordInv(b)
  BY DEF RInv
<1>4. Begun(b) = {}
  BY <1>2, <1>3 DEF RecordInv, TakenIsSent, RecordIsHeld
<1>5. \A p \in Ports : Sent(b, p)' = Sent(b, p)
  BY <1>2 DEF Sent
<1>6. Begun(b)' = Begun(b)
  BY <1>5, ConstantFacts DEF Begun
<1>7. ~HoldsTrailing(b)' /\ ~HoldsOrder(b)'
  BY <1>2 DEF HoldsTrailing, HoldsOrder
<1>8. OneTrailing(b)' /\ NoTrailingMidRecord(b)'
  BY <1>2, <1>3, <1>5, <1>7
     DEF RecordInv, OneTrailing, NoTrailingMidRecord, QueuedTrailing, Trailing
<1>9. OrderIsLast(b)' /\ TakenIsSent(b)' /\ RecordIsHeld(b)'
  BY <1>2, <1>4, <1>6, <1>7 DEF OrderIsLast, TakenIsSent, RecordIsHeld
<1>10. QED
  BY <1>3, <1>4, <1>8, <1>9 DEF RecordInv

(* Resetting: the record given up has been sent whole, or not at all.      *)
LEMMA BoardResetRecord ==
  ASSUME Inv, RInv, NEW b \in Boards, BoardReset(b)
  PROVE  RecordInv(b)'
<1>1. /\ hps \in [Boards -> {"idle", "waiting", "sending", "resetting"}]
      /\ taken \in [Boards -> SUBSET Ports]
  BY DEF Inv, TypeOK
<1>2. /\ pidx' = pidx /\ wire' = wire /\ comm' = comm /\ order' = order
      /\ hps[b] = "resetting" /\ hps'[b] = "idle" /\ taken'[b] = {}
  BY <1>1 DEF BoardReset, serverVars, netVars
<1>3. RecordInv(b)
  BY DEF RInv
<1>4. \A p \in Ports : Sent(b, p)' = Sent(b, p)
  BY <1>2 DEF Sent
<1>5. Begun(b)' = {}
  BY <1>2, <1>3, <1>4, ConstantFacts DEF RecordInv, TakenIsSent, Begun
<1>6. ~HoldsTrailing(b)' /\ ~HoldsOrder(b)'
  BY <1>2 DEF HoldsTrailing, HoldsOrder
<1>7. OneTrailing(b)' /\ NoTrailingMidRecord(b)'
  BY <1>2, <1>3, <1>4, <1>6
     DEF RecordInv, OneTrailing, NoTrailingMidRecord, QueuedTrailing, Trailing
<1>8. OrderIsLast(b)' /\ TakenIsSent(b)' /\ RecordIsHeld(b)'
  BY <1>2, <1>5, <1>6 DEF OrderIsLast, TakenIsSent, RecordIsHeld
<1>9. QED
  BY <1>7, <1>8 DEF RecordInv

(* A capture only adds a record to an FPGA that held none.                 *)
LEMMA CaptureRecord ==
  ASSUME Inv, RInv, NEW b \in Boards, Capture(b)
  PROVE  RecordInv(b)'
<1>1. transReady \in [Boards -> BOOLEAN]
  BY DEF Inv, TypeOK
<1>2. /\ pidx' = pidx /\ wire' = wire /\ comm' = comm /\ order' = order
      /\ hps' = hps /\ taken' = taken /\ transReady'[b]
  BY <1>1 DEF Capture, serverVars, netVars
<1>3. RecordInv(b)
  BY DEF RInv
<1>4. \A p \in Ports : Sent(b, p)' = Sent(b, p)
  BY <1>2 DEF Sent
<1>5. Begun(b)' = Begun(b)
  BY <1>4, ConstantFacts DEF Begun
<1>6. OneTrailing(b)' /\ NoTrailingMidRecord(b)' /\ OrderIsLast(b)'
  BY <1>2, <1>3, <1>4
     DEF RecordInv, OneTrailing, NoTrailingMidRecord, OrderIsLast,
         HoldsTrailing, QueuedTrailing, HoldsOrder, Orders, Trailing
<1>7. TakenIsSent(b)' /\ RecordIsHeld(b)'
  BY <1>2, <1>3, <1>5 DEF RecordInv, TakenIsSent, RecordIsHeld
<1>8. QED
  BY <1>6, <1>7 DEF RecordInv

(* Sending port n of a record: ports 1..n-1 of it have been sent before.   *)
LEMMA BoardSendRecord ==
  ASSUME Inv, RInv, NEW b \in Boards, BoardSend(b)
  PROVE  RecordInv(b)'
<1>1. PICK n \in 0..NumPorts : port[b] = n
  BY DEF Inv, TypeOK
<1>2. /\ hps \in [Boards -> {"idle", "waiting", "sending", "resetting"}]
      /\ taken \in [Boards -> SUBSET Ports]
      /\ wire \in [Boards -> [Ports -> Nat]] /\ pidx \in [Boards -> [Ports -> Nat]]
  BY DEF Inv, TypeOK
<1>3. /\ pidx' = pidx /\ comm' = comm /\ transReady' = transReady
      /\ hps[b] = "sending"
      /\ wire' = [wire EXCEPT ![b][n] = wire[b][n] + ClientLen(n)]
      /\ taken' = [taken EXCEPT ![b] = taken[b] \cup {n}]
  BY <1>1 DEF BoardSend, serverVars
<1>4. BoardInv(b) /\ RecordInv(b)
  BY DEF Inv, IInv, RInv
<1>5. /\ n \in Ports
      /\ \A p \in Ports : /\ p < n => Sent(b, p) = ServerLen(p)
                          /\ p >= n => Sent(b, p) = 0
  BY <1>1, <1>3, <1>4 DEF BoardInv, SendingFits
<1>6. /\ n \in Nat /\ n <= NumPorts /\ NumPorts \in Nat /\ NumPorts \in Ports
      /\ \A p \in Ports : p \in Nat /\ ServerLen(p) \in Nat \ {0}
      /\ ClientLen(n) = ServerLen(n)
  BY <1>5, ConstantFacts
<1>7. pidx[b][n] = 0 /\ wire[b][n] = 0
  BY <1>2, <1>5, <1>6 DEF Sent
<1>8. /\ Sent(b, n)' # 0
      /\ \A p \in Ports : p # n => Sent(b, p)' = Sent(b, p)
  <2>1. /\ wire'[b][n] = ServerLen(n)
        /\ \A p \in Ports : p # n => wire'[b][p] = wire[b][p]
    BY <1>2, <1>3, <1>5, <1>6, <1>7
  <2>2. QED
    BY <1>3, <1>5, <1>6, <1>7, <2>1 DEF Sent
<1>9. \A p \in Ports : Sent(b, p) # 0 <=> p < n
  BY <1>5, <1>6
<1>10. taken[b] = {p \in Ports : p < n} /\ transReady[b] /\ comm[b] = <<>>
  <2>1. Sent(b, NumPorts) = 0
    BY <1>5, <1>6
  <2>2. Begun(b) = {p \in Ports : p < n}
    BY <1>9, <2>1 DEF Begun
  <2>3. QED
    BY <1>3, <1>4, <2>2
       DEF RecordInv, TakenIsSent, RecordIsHeld, OrderIsLast
<1>11. taken'[b] = {p \in Ports : p <= n}
  <2>1. taken'[b] = {p \in Ports : p < n} \cup {n}
    BY <1>2, <1>3, <1>10
  <2>2. \A p \in Ports : p <= n <=> p < n \/ p = n
    BY <1>6
  <2>3. QED
    BY <1>5, <2>1, <2>2
<1>12. /\ hps'[b] \in {"idle", "sending", "resetting"}
       /\ hps'[b] = "resetting" <=> n = NumPorts
  BY <1>1, <1>2, <1>3 DEF BoardSend
<1>13. TakenIsSent(b)'
  <2>1. CASE n = NumPorts
    <3>1. Begun(b)' = {}
      BY <1>8, <2>1 DEF Begun
    <3>2. QED
      BY <1>12, <2>1, <3>1 DEF TakenIsSent
  <2>2. CASE n # NumPorts
    <3>1. Sent(b, NumPorts)' = 0
      BY <1>6, <1>8, <1>9, <2>2
    <3>2. \A p \in Ports : Sent(b, p)' # 0 <=> p <= n
      BY <1>6, <1>8, <1>9
    <3>3. Begun(b)' = {p \in Ports : p <= n}
      BY <3>1, <3>2 DEF Begun
    <3>4. QED
      BY <1>11, <1>12, <2>2, <3>3 DEF TakenIsSent
  <2>3. QED
    BY <2>1, <2>2
<1>14. comm'[b] = <<>> /\ ~HoldsTrailing(b)' /\ ~QueuedTrailing(b)'
  BY <1>3, <1>10, <1>12 DEF HoldsTrailing, QueuedTrailing
<1>15. /\ OneTrailing(b)' /\ NoTrailingMidRecord(b)' /\ OrderIsLast(b)'
       /\ RecordIsHeld(b)'
  BY <1>3, <1>10, <1>14
     DEF OneTrailing, NoTrailingMidRecord, OrderIsLast, RecordIsHeld
<1>16. QED
  BY <1>13, <1>15 DEF RecordInv

(* Bytes arrive on port p of board b: the order that follows a whole       *)
(* packet is a trailing one only after the last, and the bytes that end    *)
(* the query end the records of all the boards.                            *)
LEMMA ServerDataRecord ==
  ASSUME Inv, RInv, NEW b \in Boards, NEW p \in Ports, ServerData(b, p),
         NEW c \in Boards
  PROVE  RecordInv(c)'
<1> DEFINE m == [each |-> 1, idx |-> p]
<1>1. PICK k \in Nat \ {0}, g \in Readings :
        /\ wire[b][p] # 0
        /\ wire' = [wire EXCEPT ![b][p] = wire[b][p] - k]
        /\ g[b][p] = pidx[b][p] + k
        /\ \A x \in Boards, y \in Ports : x # b \/ y # p => g[x][y] = pidx[x][y]
        /\ \A x \in Boards : x # b => g[x] = pidx[x]
        /\ k <= wire[b][p]
        /\ recvCount + k = Cardinality(DeliveredBy(g))
        /\ OrderNextPacket(b, p, g)
        /\ CountReceived(k, g)
        /\ UNCHANGED <<ui, ipcIn, recvIndividually, boardVars>>
  BY ServerDataEffect
<1>2. /\ ui' = ui /\ ipcIn' = ipcIn /\ hps' = hps /\ order' = order
      /\ transReady' = transReady /\ taken' = taken
  BY <1>1 DEF boardVars
<1>3. /\ pidx \in [Boards -> [Ports -> Nat]]
      /\ wire \in [Boards -> [Ports -> Nat]]
      /\ comm \in [Boards -> Seq(Query)] /\ ipcOut \in Nat
  BY DEF Inv, TypeOK
<1>4. /\ Active /\ pidx[b][p] # ServerLen(p) /\ Sent(b, p) = ServerLen(p)
      /\ recvIndividually = 1 => hps[b] # "sending" /\ ~HoldsOrder(b)
  BY <1>1, ArrivalContext
<1>5. m \in Query /\ (Trailing(m) => p = NumPorts)
  BY ConstantFacts DEF Query, Trailing
<1> HIDE DEF m
<1>6. \/ /\ recvIndividually = 1
         /\ comm' = [comm EXCEPT ![b] = Append(comm[b], m)]
      \/ comm' = comm
  BY <1>1 DEF OrderNextPacket, m
<1>7. /\ \A x \in Boards : x # b => comm'[x] = comm[x] /\ wire'[x] = wire[x]
      /\ wire'[b][p] = wire[b][p] - k
      /\ \A q \in Ports : q # p => wire'[b][q] = wire[b][q]
  BY <1>1, <1>3, <1>6
<1>8. /\ RecordInv(c) /\ RecordInv(b)
      /\ NumPorts \in Ports /\ \A q \in Ports : ServerLen(q) \in Nat \ {0}
  BY ConstantFacts DEF RInv
<1>9. pidx[b][NumPorts] # ServerLen(NumPorts) =>
        ~HoldsTrailing(b) /\ ~QueuedTrailing(b)
  BY <1>4, <1>8 DEF RecordInv, NoTrailingMidRecord
<1>10. HoldsTrailing(c)' = HoldsTrailing(c)
  BY <1>2 DEF HoldsTrailing, Trailing
<1>11. ASSUME NEW i \in 1..Len(comm'[b]), Trailing(comm'[b][i])
       PROVE  \/ i \in 1..Len(comm[b]) /\ Trailing(comm[b][i])
              \/ i = Len(comm[b]) + 1 /\ p = NumPorts /\ comm'[b] # comm[b]
  <2>1. CASE comm'[b] = comm[b]
    BY <1>11, <2>1
  <2>2. CASE comm'[b] # comm[b]
    <3>1. comm'[b] = Append(comm[b], m) /\ comm[b] \in Seq(Query)
      BY <1>3, <1>6, <2>2
    <3>2. /\ Len(comm'[b]) = Len(comm[b]) + 1 /\ Len(comm[b]) \in Nat
          /\ comm'[b][Len(comm[b]) + 1] = m
          /\ \A j \in 1..Len(comm[b]) : comm'[b][j] = comm[b][j]
      BY <1>5, <3>1, AppendedMessage
    <3>3. i \in 1..Len(comm[b]) \/ i = Len(comm[b]) + 1
      BY <3>2
    <3>4. CASE i \in 1..Len(comm[b])
      BY <1>11, <3>2, <3>4
    <3>5. CASE i = Len(comm[b]) + 1
      <4>1. comm'[b][i] = m
        BY <3>2, <3>5
      <4>2. p = NumPorts
        BY <1>5, <1>11, <4>1
      <4>3. QED
        BY <2>2, <3>5, <4>2
    <3>6. QED
      BY <3>3, <3>4, <3>5
  <2>3. QED
    BY <2>1, <2>2
<1>12. OneTrailing(c)'
  <2>1. CASE c # b
    BY <1>2, <1>7, <1>8, <2>1
       DEF RecordInv, OneTrailing, HoldsTrailing, QueuedTrailing, Trailing
  <2>2. CASE c = b
    <3>1. p = NumPorts => ~HoldsTrailing(b) /\ ~QueuedTrailing(b)
      BY <1>4, <1>9
    <3>2. HoldsTrailing(b) => ~QueuedTrailing(b)'
      BY <1>8, <1>11, <3>1 DEF RecordInv, OneTrailing, QueuedTrailing, Trailing
    <3>3. ASSUME NEW i \in 1..Len(comm'[b]), NEW j \in 1..Len(comm'[b]),
                 Trailing(comm'[b][i]), Trailing(comm'[b][j])
          PROVE  i = j
      BY <1>8, <1>11, <3>1, <3>3 DEF RecordInv, OneTrailing, QueuedTrailing
    <3>4. QED
      BY <1>10, <2>2, <3>2, <3>3 DEF OneTrailing, Trailing
  <2>3. QED
    BY <2>1, <2>2
<1>13. CASE recvCount + k = Total
  <2>1. /\ ipcOut' = ipcOut + 1
        /\ pidx' = [x \in Boards |-> [y \in Ports |-> 0]]
    BY <1>1, <1>13 DEF CountReceived
  <2>2. ~Active' /\ Inv'
    BY <1>3, <2>1, ServerDataInv DEF Active
  <2>3. /\ \A q \in Ports : pidx'[c][q] = 0 /\ wire'[c][q] = 0
        /\ hps'[c] # "sending" /\ ~HoldsOrder(c)'
    BY <2>2 DEF Inv, IInv, QuietBetweenQueries
  <2>4. \A q \in Ports : Sent(c, q)' = 0
    BY <2>3 DEF Sent
  <2>5. Sent(c, NumPorts) # 0
    <3>1. g[c][NumPorts] = ServerLen(NumPorts)
      BY <1>1, <1>8, <1>13, AllDelivered, DeliveredInUnits
    <3>2. CASE c = b /\ NumPorts = p
      BY <1>4, <1>8, <3>2
    <3>3. CASE c # b \/ NumPorts # p
      <4>1. pidx[c][NumPorts] \in Nat \ {0} /\ wire[c][NumPorts] \in Nat
        BY <1>1, <1>3, <1>8, <3>1, <3>3
      <4>2. QED
        BY <4>1 DEF Sent
    <3>4. QED
      BY <3>2, <3>3
  <2>6. Begun(c) = {} /\ Begun(c)' = {}
    BY <1>8, <2>4, <2>5 DEF Begun
  <2>7. TakenIsSent(c)' /\ RecordIsHeld(c)'
    BY <1>2, <1>8, <2>3, <2>6 DEF RecordInv, TakenIsSent, RecordIsHeld
  <2>8. NoTrailingMidRecord(c)' /\ OrderIsLast(c)'
    BY <2>3, <2>4 DEF NoTrailingMidRecord, OrderIsLast
  <2>9. QED
    BY <1>12, <2>7, <2>8 DEF RecordInv
<1>14. CASE recvCount + k # Total
  <2>1. pidx' = g
    BY <1>1, <1>14 DEF CountReceived
  <2>2. CASE c # b
    BY <1>1, <1>2, <1>7, <1>8, <2>1, <2>2, RecordFrame
  <2>3. CASE c = b
    <3>1. \A q \in Ports : Sent(b, q)' = Sent(b, q)
      <4> SUFFICES ASSUME NEW q \in Ports
                   PROVE  g[b][q] + wire'[b][q] = pidx[b][q] + wire[b][q]
        BY <2>1 DEF Sent
      <4>1. CASE q = p
        <5>1. /\ g[b][p] = pidx[b][p] + k /\ wire'[b][p] = wire[b][p] - k
              /\ pidx[b][p] \in Nat /\ wire[b][p] \in Nat /\ k \in Nat
          BY <1>1, <1>3, <1>7
        <5>2. QED
          BY <4>1, <5>1
      <4>2. CASE q # p
        BY <1>1, <1>7, <4>2
      <4>3. QED
        BY <4>1, <4>2
    <3>2. NoTrailingMidRecord(b)'
      <4> SUFFICES ASSUME pidx'[b][NumPorts] # ServerLen(NumPorts)
                   PROVE  ~HoldsTrailing(b)' /\ ~QueuedTrailing(b)'
        BY DEF NoTrailingMidRecord
      <4>1. pidx[b][NumPorts] # ServerLen(NumPorts)
        BY <1>1, <1>4, <1>8, <2>1
      <4>2. ~HoldsTrailing(b) /\ ~QueuedTrailing(b)
        BY <1>9, <4>1
      <4>3. comm'[b] # comm[b] => p # NumPorts
        <5> SUFFICES ASSUME comm'[b] # comm[b] PROVE g[b][p] = ServerLen(p)
          BY <2>1
        <5>1. comm' # comm
          OBVIOUS
        <5>2. QED
          BY <1>1, <5>1 DEF OrderNextPacket
      <4>4. QED
        BY <1>10, <1>11, <2>3, <4>2, <4>3 DEF QueuedTrailing, Trailing
    <3>3. OrderIsLast(b)'
      BY <1>2, <1>4, <1>6, <1>8
         DEF RecordInv, OrderIsLast, HoldsOrder, Orders, Trailing
    <3>4. Begun(b)' = Begun(b)
      BY <1>8, <3>1 DEF Begun
    <3>5. TakenIsSent(b)' /\ RecordIsHeld(b)'
      BY <1>2, <1>8, <3>4 DEF RecordInv, TakenIsSent, RecordIsHeld
    <3>6. QED
      BY <1>12, <2>3, <3>2, <3>3, <3>5 DEF RecordInv
  <2>4. QED
    BY <2>2, <2>3
<1>15. QED
  BY <1>13, <1>14

(* A step of one board leaves the others as they are.                      *)
LEMMA OtherBoards ==
  ASSUME Inv, RInv, NEW b \in Boards, BoardStep(b) \/ Capture(b),
         NEW c \in Boards, c # b
  PROVE  RecordInv(c)'
<1>1. /\ hps \in [Boards -> {"idle", "waiting", "sending", "resetting"}]
      /\ order \in [Boards -> Query] /\ comm \in [Boards -> Seq(Query)]
      /\ wire \in [Boards -> [Ports -> Nat]]
      /\ transReady \in [Boards -> BOOLEAN] /\ taken \in [Boards -> SUBSET Ports]
  BY DEF Inv, TypeOK
<1>2. pidx'[c] = pidx[c]
  BY DEF BoardStep, BoardTake, BoardReady, BoardTimeout, BoardSend, BoardReset,
         Capture, serverVars
<1>3. /\ wire'[c] = wire[c] /\ comm'[c] = comm[c] /\ hps'[c] = hps[c]
      /\ order'[c] = order[c]
  BY <1>1 DEF BoardStep, BoardTake, BoardReady, BoardTimeout, BoardSend,
              BoardReset, Capture, netVars
<1>4. transReady'[c] = transReady[c] /\ taken'[c] = taken[c]
  BY <1>1 DEF BoardStep, BoardTake, BoardReady, BoardTimeout, BoardSend,
              BoardReset, Capture
<1>5. RecordInv(c)
  BY DEF RInv
<1>6. QED
  BY <1>2, <1>3, <1>4, <1>5, RecordFrame

LEMMA NextRecord ==
  ASSUME Inv2, [Next]_vars
  PROVE  Inv2'
<1>1. Inv /\ RInv /\ Inv'
  BY NextInv DEF Inv2
<1>2. ASSUME pidx' = pidx, wire' = wire, comm' = comm, hps' = hps,
             order' = order, transReady' = transReady, taken' = taken
      PROVE  RInv'
  BY <1>1, <1>2, RecordFrame DEF RInv
<1>3. ASSUME UNCHANGED vars \/ UIResume \/ \E each \in {0, 1} : UIQuery(each)
      PROVE  RInv'
  BY <1>2, <1>3 DEF UIResume, UIQuery, vars, uiVars, serverVars, netVars, boardVars
<1>4. ASSUME ServerQuery
      PROVE  RInv'
  BY <1>1, <1>4, ServerQueryRecord DEF RInv
<1>5. ASSUME NEW b \in Boards, NEW p \in Ports, ServerData(b, p)
      PROVE  RInv'
  BY <1>1, <1>5, ServerDataRecord DEF RInv
<1>6. ASSUME NEW b \in Boards, BoardStep(b) \/ Capture(b)
      PROVE  RInv'
  <2>1. RecordInv(b)'
    BY <1>1, <1>6, BoardTakeRecord, BoardReadyRecord, BoardTimeoutRecord,
       BoardSendRecord, BoardResetRecord, CaptureRecord DEF BoardStep
  <2>2. \A c \in Boards : c # b => RecordInv(c)'
    BY <1>1, <1>6, OtherBoards
  <2>3. QED
    BY <2>1, <2>2 DEF RInv
<1>7. QED
  BY <1>1, <1>3, <1>4, <1>5, <1>6 DEF Inv2, Next

LEMMA SpecRecord == Spec => []Inv2
<1>1. Init => Inv2
  BY InitInv, InitRecord DEF Inv2
<1>2. Inv2 /\ [Next]_vars => Inv2'
  BY NextRecord
<1>3. QED
  BY <1>1, <1>2, PTL DEF Spec

(* A patient script's going on changes nothing the boards see.             *)
LEMMA PatientSpecRecord == PatientSpec => []Inv2
<1>1. RetryInit => Inv2
  BY InitInv, InitRecord DEF RetryInit, Inv2
<1>2. Inv2 /\ [Continue \/ PatientGiveUp]_retryVars => Inv2'
  <2> SUFFICES ASSUME Inv2, [Continue \/ PatientGiveUp]_retryVars PROVE Inv2'
    OBVIOUS
  <2>1. ASSUME Continue \/ UNCHANGED retryVars PROVE Inv2'
    BY <2>1, NextRecord DEF Continue, retryVars
  <2>2. ASSUME PatientGiveUp PROVE Inv2'
    <3>1. /\ pidx' = pidx /\ comm' = comm /\ wire' = wire /\ hps' = hps
          /\ order' = order /\ transReady' = transReady /\ taken' = taken
      BY <2>2 DEF PatientGiveUp, UIGiveUp, serverVars, netVars, boardVars
    <3>2. RInv'
      BY <3>1, RecordFrame DEF Inv2, RInv
    <3>3. QED
      BY <2>2, <3>2, PatientGiveUpInv DEF Inv2
  <2>3. QED
    BY <2>1, <2>2
<1>3. QED
  BY <1>1, <1>2, PTL DEF PatientSpec

-----------------------------------------------------------------------------
(* Every message of a queue but the last is a trailing order, and of those *)
(* there is one.                                                           *)
LEMMA QueueOfTwo == Inv2 => OrdersDoNotPileUp
<1> SUFFICES ASSUME Inv2, NEW b \in Boards
             PROVE  /\ Len(comm[b]) <= 2
                    /\ \A i \in 1..Len(comm[b]) :
                         Orders(comm[b][i]) =>
                           i = Len(comm[b]) /\ ~HoldsOrder(b)
                                            /\ hps[b] # "sending"
  BY DEF OrdersDoNotPileUp
<1>1. /\ comm[b] \in Seq(Query) /\ BoardInv(b) /\ RecordInv(b)
  BY DEF Inv2, Inv, TypeOK, IInv, RInv
<1>2. \A i \in 1..Len(comm[b]) :
        Orders(comm[b][i]) =>
          i = Len(comm[b]) /\ ~HoldsOrder(b) /\ hps[b] # "sending"
  BY <1>1 DEF BoardInv, QueuedOrdersFit
<1>3. Len(comm[b]) <= 2
  <2>1. PICK n \in Nat : n = Len(comm[b])
    BY <1>1, LenProperties
  <2>2. ASSUME n > 2 PROVE FALSE
    <3>1. 1 \in 1..n /\ 1 # n /\ 2 \in 1..n /\ 2 # n
      BY <2>2
    <3>2. Trailing(comm[b][1]) /\ Trailing(comm[b][2])
      BY <1>2, <2>1, <3>1 DEF Orders
    <3>3. 1 = 2
      BY <1>1, <2>1, <3>1, <3>2 DEF RecordInv, OneTrailing
    <3>4. QED
      BY <3>3
  <2>3. n <= 2
    BY <2>2
  <2>4. QED
    BY <2>1, <2>3
<1>4. QED
  BY <1>2, <1>3

LEMMA OneCapture == Inv2 => RecordFromOneCapture
<1> SUFFICES ASSUME Inv2, NEW b \in Boards, hps[b] = "sending"
             PROVE  taken[b] = 1..(port[b] - 1) /\ transReady[b]
  BY DEF RecordFromOneCapture
<1>1. BoardInv(b) /\ RecordInv(b)
  BY DEF Inv2, Inv, IInv, RInv
<1>2. PICK n \in Ports : port[b] = n
  BY <1>1 DEF BoardInv, SendingFits
<1>3. \A p \in Ports : /\ p < n => Sent(b, p) = ServerLen(p)
                       /\ p >= n => Sent(b, p) = 0
  BY <1>1, <1>2 DEF BoardInv, SendingFits
<1>4. /\ NumPorts \in Nat /\ Ports = 1..NumPorts /\ NumPorts >= n
      /\ NumPorts \in Ports /\ n \in Nat /\ n \in 1..NumPorts
      /\ \A p \in Ports : p \in Nat /\ ServerLen(p) # 0
  BY ConstantFacts
<1>5. \A p \in Ports : Sent(b, p) # 0 <=> p < n
  BY <1>3, <1>4
<1>6. Sent(b, NumPorts) = 0
  BY <1>3, <1>4
<1>7. Begun(b) = {p \in Ports : p < n}
  BY <1>5, <1>6 DEF Begun
<1>8. {p \in Ports : p < n} = 1..(n - 1)
  BY <1>4
<1>9. QED
  BY <1>1, <1>2, <1>7, <1>8 DEF RecordInv, TakenIsSent, RecordIsHeld

LEMMA GivingUpStep ==
  ASSUME Inv2, NEW b \in Boards, BoardTimeout(b), HoldsOrder(b), NEW p \in Ports
  PROVE  Sent(b, p) = 0
<1>1. Begun(b) = {}
  BY BoardTimeoutRecord DEF Inv2
<1>2. Sent(b, NumPorts) = 0
  BY NothingLeftToDo DEF Inv2
<1>3. QED
  BY <1>1, <1>2 DEF Begun

(* The messages to a board never pile up: two at most wait in its socket,  *)
(* a trailing order and the next query, whatever the timing.               *)
THEOREM QueueBound == Spec => []OrdersDoNotPileUp
BY QueueOfTwo, SpecRecord, PTL

(* No trailing order comes between the ports of a record and resets the    *)
(* FPGA under it: a record is sent from one capture                        *)
(* (client_funcs.h:404-411).                                               *)
THEOREM RecordIntegrity == Spec => []RecordFromOneCapture
BY OneCapture, SpecRecord, PTL

(* A board that times out on an order has sent nothing of its record.      *)
THEOREM WholeOrNotAtAll == Spec => NeverGivesUpMidRecord
<1>1. Inv2 /\ [Next]_vars =>
        [\A b \in Boards :
           BoardTimeout(b) /\ HoldsOrder(b) =>
             \A p \in Ports : Sent(b, p) = 0]_vars
  BY GivingUpStep
<1>2. QED
  BY <1>1, SpecRecord, PTL DEF Spec, NeverGivesUpMidRecord

(* All this still holds when the script goes on without an answer, as long *)
(* as it does so only after every board has timed out.                     *)
THEOREM PatientRecords ==
  PatientSpec => /\ []OrdersDoNotPileUp
                 /\ []RecordFromOneCapture
                 /\ NeverGivesUpMidRecord
<1>1. Inv2 /\ [Continue \/ PatientGiveUp]_retryVars =>
        [\A b \in Boards :
           BoardTimeout(b) /\ HoldsOrder(b) =>
             \A p \in Ports : Sent(b, p) = 0]_vars
  BY GivingUpStep
<1>2. QED
  BY <1>1, QueueOfTwo, OneCapture, PatientSpecRecord, PTL
     DEF PatientSpec, NeverGivesUpMidRecord
=============================================================================
