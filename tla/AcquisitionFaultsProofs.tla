------------------------ MODULE AcquisitionFaultsProofs ------------------------
(***************************************************************************)
(* The acquisition with boards and servers that end, for every set of      *)
(* boards, record length and packet size and any number of faults and      *)
(* restarts: as long as the server runs, and has told the script nothing   *)
(* but in answer to a query it has read, no segment is overrun and a       *)
(* notification means that every board counted has delivered everything.   *)
(***************************************************************************)
EXTENDS AcquisitionProofs, AcquisitionFaults

-----------------------------------------------------------------------------
(* The invariant *)

(* A message of a board's queue that it will handle as an order for data:  *)
(* it ends at a message to close.                                          *)
Comes(q, i) == /\ Orders(q[i])
               /\ \A j \in 1..i : q[j] # Close
Awaits(b) == \E i \in 1..Len(comm[b]) : Comes(comm[b], i)

(* The board has nothing to send and will have nothing without an order.   *)
Resting(b) == hps[b] # "sending" /\ ~HoldsOrder(b) /\ ~Awaits(b)

(* What BoardInv says of a board that runs, with the orders it will handle *)
(* for those in its queue.  Behind such an order there is only a Close.    *)
OrdersFit(b) ==
  \A i \in 1..Len(comm[b]) :
    Comes(comm[b], i) => /\ i = Len(comm[b]) \/ comm[b][i + 1] = Close
                         /\ hps[b] # "sending"
                         /\ ~HoldsOrder(b)
                         /\ OrderFits(b, comm[b][i])
NoOrderMeanwhile(b) ==
  recvIndividually = 1 /\ (\E p \in Ports : wire[b][p] # 0) => Resting(b)
RunInv(b) == /\ WholePackets(b)
             /\ InPortOrder(b)
             /\ OrdersFit(b)
             /\ HeldOrderFits(b)
             /\ SendingFits(b)
             /\ NoOrderMeanwhile(b)

(* A program that does not run does nothing; a packet it was sending may   *)
(* have lost its end.                                                      *)
EndedInv(b) == hps[b] = "idle" /\ comm[b] = <<>>

(* No counted board takes part in a pulse: none has been asked for, or all *)
(* of the last one has arrived.                                            *)
Still(b) == Resting(b) /\ \A p \in Ports : pidx[b][p] = 0 /\ wire[b][p] = 0
Rest == \A b \in counted : Still(b)

(* recvCount is the number of bytes that have come from the counted boards. *)
OfCounted(f) == [b \in Boards |-> IF b \in counted THEN f[b]
                                                   ELSE [p \in Ports |-> 0]]
RightCount == recvCount = Cardinality(DeliveredBy(OfCounted(pidx)))

(* The script: one query at a time, and a message to close behind it.      *)
(* The count may be that of a pulse given up until the next query is read. *)
Unread == ipcIn # <<>> /\ Head(ipcIn) \in {0, 1}
NoClose == \A b \in Boards : \A i \in 1..Len(comm[b]) : comm[b][i] # Close
ScriptInv ==
  /\ stage = "normal" =>
       \/ ui = "ready" /\ ipcIn = <<>> /\ ipcOut = 0 /\ Rest
       \/ ui = "waiting" /\ ipcIn \in {<<0>>, <<1>>} /\ ipcOut = 0
       \/ ui = "waiting" /\ ipcIn = <<>> /\ ipcOut = 0 /\ RightCount
       \/ ui = "waiting" /\ ipcIn = <<>> /\ ipcOut = 1 /\ Rest
  /\ stage # "normal" => ui = "ready"
  /\ stage = "closing" => ipcIn \in {<<>>, <<2>>, <<0, 2>>, <<1, 2>>}
  /\ stage = "starting" => ipcIn = <<>>
  /\ stage = "over" => ipcIn \in {<<3>>, <<0, 3>>, <<1, 3>>}
  /\ Unread => Rest
  /\ stage # "starting" => Rest \/ RightCount
  /\ NoClose \/ (stage = "closing" /\ ipcIn = <<>>)

(* Bytes come on connections; boards that run are connected and counted,   *)
(* or have just been started and have been told nothing.                   *)
LinkInv ==
  /\ \A b \in Boards, p \in Ports : <<b, p>> \in socks \/ wire[b][p] = 0
  /\ \A b \in Boards, p \in Ports :
       <<b, p>> \in socks => b \in counted /\ stage # "starting"
  /\ \A b \in alive :
       IF stage = "starting"
         THEN Still(b) /\ comm[b] = <<>>
         ELSE b \in counted /\ \A p \in Ports : <<b, p>> \in socks

FaultType ==
  /\ ui \in {"ready", "waiting"} /\ ipcOut \in Nat
  /\ recvIndividually \in {0, 1} /\ recvCount \in Nat
  /\ pidx \in [Boards -> [Ports -> Nat]] /\ wire \in [Boards -> [Ports -> Nat]]
  /\ comm \in [Boards -> Seq(Query \cup {Close})]
  /\ hps \in [Boards -> {"idle", "waiting", "sending", "resetting"}]
  /\ order \in [Boards -> Query] /\ port \in [Boards -> 0..NumPorts]
  /\ counted \subseteq Boards /\ alive \subseteq Boards /\ ending = {}
  /\ stage \in {"normal", "closing", "starting", "over"}

BoardsInv == \A b \in Boards : IF b \in alive THEN RunInv(b) ELSE EndedInv(b)

FaultInv == FaultType /\ ScriptInv /\ LinkInv /\ BoardsInv /\ StaysInSegment
FaultIInv == up /\ ~misled => FaultInv

-----------------------------------------------------------------------------
(* Queues *)

Message == Query \cup {Close}

(* Taking a message that is not a Close: what follows it comes as before.  *)
LEMMA MessageTaken ==
  ASSUME NEW q \in Seq(Message), q # <<>>, Head(q) # Close,
         NEW t, t = Tail(q)
  PROVE  /\ t \in Seq(Message) /\ Head(q) \in Query /\ Len(q) \in Nat \ {0}
         /\ Len(t) = Len(q) - 1
         /\ Orders(Head(q)) => Comes(q, 1)
         /\ \A i \in 1..Len(t) : /\ i + 1 \in 1..Len(q) /\ t[i] = q[i + 1]
                                 /\ Comes(t, i) => Comes(q, i + 1)
<1>1. /\ Len(q) \in Nat \ {0} /\ Len(t) = Len(q) - 1 /\ t \in Seq(Message)
      /\ Head(q) = q[1] /\ Head(q) \in Message
      /\ \A i \in 1..Len(t) : i + 1 \in 1..Len(q) /\ t[i] = q[i + 1]
  <2>1. Len(q) \in Nat \ {0} /\ t \in Seq(Message) /\ Len(t) = Len(q) - 1
        /\ \A i \in 1..Len(t) : t[i] = q[i + 1]
    BY HeadTailProperties, EmptySeq
  <2>2. Head(q) = q[1] /\ Head(q) \in Message
    BY <2>1
  <2>3. \A i \in 1..Len(t) : i + 1 \in 1..Len(q)
    BY <2>1
  <2>4. QED
    BY <2>1, <2>2, <2>3
<1>2. Head(q) \in Query
  BY <1>1 DEF Message
<1>3. Orders(Head(q)) => Comes(q, 1)
  <2>1. \A j \in 1..1 : j = 1
    OBVIOUS
  <2>2. QED
    BY <1>1, <2>1 DEF Comes
<1>4. ASSUME NEW i \in 1..Len(t), Comes(t, i)
      PROVE  Comes(q, i + 1)
  <2>1. Orders(q[i + 1])
    BY <1>1, <1>4 DEF Comes
  <2>2. ASSUME NEW j \in 1..(i + 1)
        PROVE  q[j] # Close
    <3>1. CASE j = 1
      BY <1>1, <3>1
    <3>2. CASE j # 1
      <4>1. j - 1 \in 1..i /\ j - 1 \in 1..Len(t) /\ (j - 1) + 1 = j
        BY <1>1, <3>2
      <4>2. t[j - 1] = q[j] /\ t[j - 1] # Close
        BY <1>1, <1>4, <4>1 DEF Comes
      <4>3. QED
        BY <4>2
    <3>3. QED
      BY <3>1, <3>2
  <2>3. QED
    BY <2>1, <2>2 DEF Comes
<1>5. QED
  BY <1>1, <1>2, <1>3, <1>4

(* A message at the end: what comes has come before, or it is this one.    *)
LEMMA MessageAppended ==
  ASSUME NEW q \in Seq(Message), NEW m \in Message, NEW a, a = Append(q, m)
  PROVE  /\ a \in Seq(Message) /\ Len(q) \in Nat /\ Len(a) = Len(q) + 1
         /\ a[Len(q) + 1] = m
         /\ \A i \in 1..Len(q) : a[i] = q[i]
         /\ \A i \in 1..Len(a) :
              Comes(a, i) => \/ i \in 1..Len(q) /\ Comes(q, i)
                             \/ i = Len(a) /\ Orders(m) /\ m # Close
<1>1. /\ a \in Seq(Message) /\ Len(q) \in Nat /\ Len(a) = Len(q) + 1
      /\ a[Len(q) + 1] = m
      /\ \A i \in 1..Len(q) : a[i] = q[i]
  BY AppendProperties, LenProperties
<1>2. ASSUME NEW i \in 1..Len(a), Comes(a, i)
      PROVE  \/ i \in 1..Len(q) /\ Comes(q, i)
             \/ i = Len(a) /\ Orders(m) /\ m # Close
  <2>1. CASE i = Len(q) + 1
    <3>1. i \in 1..i
      BY <1>1
    <3>2. QED
      BY <1>1, <1>2, <2>1, <3>1 DEF Comes
  <2>2. CASE i # Len(q) + 1
    <3>1. i \in 1..Len(q) /\ \A j \in 1..i : j \in 1..Len(q)
      BY <1>1, <2>2
    <3>2. QED
      BY <1>1, <1>2, <3>1 DEF Comes
  <2>3. QED
    BY <2>1, <2>2
<1>3. QED
  BY <1>1, <1>2

(* An empty queue.                                                         *)
LEMMA NothingComes ==
  ASSUME NEW b, comm[b] = <<>>
  PROVE  ~Awaits(b)
BY DEF Awaits

-----------------------------------------------------------------------------
(* One board *)

(* A board whose own state and sockets do not change keeps its invariant.  *)
Same(b) == /\ pidx'[b] = pidx[b] /\ wire'[b] = wire[b] /\ comm'[b] = comm[b]
           /\ hps'[b] = hps[b] /\ order'[b] = order[b] /\ port'[b] = port[b]

(* A board that keeps its queue and its state rests as before.             *)
LEMMA SameResting ==
  ASSUME NEW b, comm'[b] = comm[b], hps'[b] = hps[b], order'[b] = order[b]
  PROVE  Resting(b)' <=> Resting(b)
BY DEF Resting, HoldsOrder, Awaits, Comes, Orders, Trailing, Close

(* What is said of one board depends on that board's own state only.       *)
LEMMA SameRuns ==
  ASSUME NEW b \in Boards, Same(b)
  PROVE  /\ Still(b) => Still(b)'
         /\ EndedInv(b) => EndedInv(b)'
         /\ RunInv(b) /\ recvIndividually' = recvIndividually => RunInv(b)'
<1>1. Resting(b)' <=> Resting(b)
  BY SameResting DEF Same
<1>2. Still(b) => Still(b)'
  BY <1>1 DEF Same, Still
<1>3. EndedInv(b) => EndedInv(b)'
  BY DEF Same, EndedInv
<1>4. ASSUME RunInv(b), recvIndividually' = recvIndividually
      PROVE  RunInv(b)'
  <2>1. \A p \in Ports : Sent(b, p)' = Sent(b, p)
    BY DEF Same, Sent
  <2>2. WholePackets(b)' /\ InPortOrder(b)'
    BY <1>4, <2>1 DEF RunInv, WholePackets, InPortOrder, Same
  <2>3. OrdersFit(b)'
    BY <1>4, <2>1 DEF RunInv, OrdersFit, OrderFits, HoldsOrder, Comes, Orders,
                      Trailing, Close, Same
  <2>4. HeldOrderFits(b)'
    BY <1>4, <2>1 DEF RunInv, HeldOrderFits, OrderFits, HoldsOrder, Orders,
                      Trailing, Same
  <2>5. SendingFits(b)'
    BY <1>4, <2>1 DEF RunInv, SendingFits, Orders, Trailing, Same
  <2>6. NoOrderMeanwhile(b)'
    BY <1>1, <1>4 DEF RunInv, NoOrderMeanwhile, Same
  <2>7. QED
    BY <2>2, <2>3, <2>4, <2>5, <2>6 DEF RunInv
<1>5. QED
  BY <1>2, <1>3, <1>4

(* A board at rest without a byte under way is fit to run.                 *)
LEMMA StillRuns ==
  ASSUME NEW b \in Boards, Still(b)
  PROVE  /\ RunInv(b)
         /\ \A p \in Ports : Sent(b, p) = 0
<1>1. \A p \in Ports : pidx[b][p] = 0 /\ wire[b][p] = 0 /\ Sent(b, p) = 0
  BY DEF Still, Sent
<1>2. hps[b] # "sending" /\ ~HoldsOrder(b) /\ ~Awaits(b) /\ Resting(b)
  BY DEF Still, Resting
<1>3. QED
  BY <1>1, <1>2 DEF RunInv, WholePackets, InPortOrder, OrdersFit, HeldOrderFits,
                    SendingFits, NoOrderMeanwhile, Awaits

(* The same of the state after a step.                                     *)
LEMMA StillRunsNext ==
  ASSUME NEW b \in Boards, Still(b)'
  PROVE  RunInv(b)'
<1>1. \A p \in Ports : pidx'[b][p] = 0 /\ wire'[b][p] = 0 /\ Sent(b, p)' = 0
  BY DEF Still, Sent
<1>2. hps'[b] # "sending" /\ ~HoldsOrder(b)' /\ ~Awaits(b)' /\ Resting(b)'
  BY DEF Still, Resting
<1>3. QED
  BY <1>1, <1>2 DEF RunInv, WholePackets, InPortOrder, OrdersFit, HeldOrderFits,
                    SendingFits, NoOrderMeanwhile, Awaits

(* What a step of board b may do to its queue and its sockets.             *)
Modest(b) ==
  /\ Resting(b) => Resting(b)' /\ wire'[b] = wire[b]
  /\ comm[b] = <<>> => comm'[b] = <<>>
  /\ \A i \in 1..Len(comm'[b]) : \E j \in 1..Len(comm[b]) : comm'[b][i] = comm[b][j]

(* A step of board b: it keeps its invariant and touches no other board.   *)
Alone(b) ==
  /\ RunInv(b)' /\ Modest(b)
  /\ uiVars' = uiVars /\ serverVars' = serverVars
  /\ comm' \in [Boards -> Seq(Message)]
  /\ wire' \in [Boards -> [Ports -> Nat]]
  /\ hps' \in [Boards -> {"idle", "waiting", "sending", "resetting"}]
  /\ order' \in [Boards -> Query] /\ port' \in [Boards -> 0..NumPorts]
  /\ \A c \in Boards \ {b} : Same(c)

(* Taking a message: if it is an order, no other comes behind it.          *)
LEMMA TakeAlone ==
  ASSUME FaultType, NEW b \in Boards, RunInv(b), BoardTake(b), ~Closing(b)
  PROVE  Alone(b)
<1> DEFINE q == comm[b]
<1>1. /\ q \in Seq(Message) /\ q # <<>> /\ Head(q) # Close
      /\ hps \in [Boards -> {"idle", "waiting", "sending", "resetting"}]
      /\ order \in [Boards -> Query] /\ comm \in [Boards -> Seq(Message)]
  BY DEF FaultType, Message, BoardTake, Closing
<1> HIDE DEF q
<1>2. PICK t : t = Tail(q)
  OBVIOUS
<1>3. /\ t \in Seq(Message) /\ Head(q) \in Query /\ Len(q) \in Nat \ {0}
      /\ Len(t) = Len(q) - 1
      /\ Orders(Head(q)) => Comes(q, 1)
      /\ \A i \in 1..Len(t) : /\ i + 1 \in 1..Len(q) /\ t[i] = q[i + 1]
                              /\ Comes(t, i) => Comes(q, i + 1)
  BY <1>1, <1>2, MessageTaken
<1>4. PICK h \in Query : h = Head(q)
  BY <1>3
<1>5. /\ hps[b] = "idle"
      /\ order' = [order EXCEPT ![b] = h]
      /\ comm' = [comm EXCEPT ![b] = t]
      /\ hps' = [hps EXCEPT ![b] = "waiting"]
      /\ uiVars' = uiVars /\ serverVars' = serverVars
      /\ wire' = wire /\ port' = port
  BY <1>2, <1>4 DEF BoardTake, q
<1>6. order'[b] = h /\ comm'[b] = t /\ hps'[b] = "waiting"
  BY <1>1, <1>5
<1>7. recvIndividually' = recvIndividually /\ pidx' = pidx
  BY <1>5 DEF serverVars
<1>8. \A p \in Ports : Sent(b, p)' = Sent(b, p)
  BY <1>5, <1>7 DEF Sent
<1>9. h = q[1]
  BY <1>1, <1>4, HeadTailProperties, EmptySeq
<1>10. ASSUME Orders(h)
       PROVE  /\ OrderFits(b, h) /\ Awaits(b)
              /\ ~Awaits(b)'
  <2>1. Comes(q, 1) /\ 1 \in 1..Len(q)
    BY <1>3, <1>4, <1>10
  <2>2. (1 = Len(q) \/ q[2] = Close) /\ OrderFits(b, q[1])
    <3>1. (1 = Len(q) \/ q[1 + 1] = Close) /\ OrderFits(b, q[1])
      BY <2>1 DEF RunInv, OrdersFit, q
    <3>2. 1 + 1 = 2
      OBVIOUS
    <3>3. QED
      BY <3>1, <3>2
  <2>3. ASSUME NEW i \in 1..Len(t), Comes(t, i)
        PROVE  FALSE
    <3>1. Comes(q, i + 1) /\ i + 1 \in 1..Len(q) /\ i \in Nat \ {0}
      BY <1>3, <2>3
    <3>2. Len(q) # 1 /\ 2 \in 1..(i + 1)
      BY <1>3, <3>1
    <3>3. q[2] # Close
      BY <3>1, <3>2 DEF Comes
    <3>4. QED
      BY <2>2, <3>2, <3>3
  <2>4. ~Awaits(b)'
    BY <1>6, <2>3 DEF Awaits, Comes, Orders, Trailing, Close
  <2>5. QED
    BY <1>9, <2>1, <2>2, <2>4 DEF Awaits, q
<1>11. HoldsOrder(b)' <=> Orders(h)
  BY <1>6 DEF HoldsOrder, Orders, Trailing
<1>12. Awaits(b)' => Awaits(b)
  <2>1. ASSUME NEW i \in 1..Len(t), Comes(t, i)
        PROVE  Awaits(b)
    BY <1>3, <2>1 DEF Awaits, q
  <2>2. QED
    BY <1>6, <2>1 DEF Awaits, Comes, Orders, Trailing, Close
<1>13. Resting(b) => Resting(b)'
  BY <1>6, <1>10, <1>11, <1>12 DEF Resting
<1>14. RunInv(b)'
  <2>1. WholePackets(b)' /\ InPortOrder(b)' /\ SendingFits(b)'
    BY <1>6, <1>7, <1>8 DEF RunInv, WholePackets, InPortOrder, SendingFits
  <2>2. OrdersFit(b)'
    <3> SUFFICES ASSUME NEW i \in 1..Len(t), Comes(t, i)
                 PROVE  /\ i = Len(t) \/ t[i + 1] = Close
                        /\ ~Orders(h)
                        /\ OrderFits(b, t[i])'
      BY <1>6, <1>11 DEF OrdersFit, Comes, Orders, Trailing, Close
    <3>1. /\ i + 1 \in 1..Len(q) /\ Comes(q, i + 1) /\ t[i] = q[i + 1]
      BY <1>3
    <3>2. (i + 1 = Len(q) \/ q[i + 2] = Close) /\ OrderFits(b, q[i + 1])
      <4>1. (i + 1) + 1 = i + 2
        OBVIOUS
      <4>2. QED
        BY <3>1, <4>1 DEF RunInv, OrdersFit, q
    <3>3. i = Len(t) \/ t[i + 1] = Close
      <4>1. CASE i + 1 = Len(q)
        BY <1>3, <4>1
      <4>2. CASE i + 1 # Len(q)
        <5>1. i + 1 \in 1..Len(t) /\ (i + 1) + 1 = i + 2
          BY <1>3, <3>1, <4>2
        <5>2. t[i + 1] = q[i + 2]
          BY <1>3, <5>1
        <5>3. QED
          BY <3>2, <4>2, <5>2
      <4>3. QED
        BY <4>1, <4>2
    <3>4. ~Orders(h)
      <4>1. Orders(h) => ~Awaits(b)'
        BY <1>10
      <4>2. Awaits(b)'
        BY <1>6 DEF Awaits, Comes, Orders, Trailing, Close
      <4>3. QED
        BY <4>1, <4>2
    <3>5. OrderFits(b, t[i])'
      BY <1>6, <1>7, <1>8, <3>1, <3>2 DEF OrderFits
    <3>6. QED
      BY <3>3, <3>4, <3>5
  <2>3. HeldOrderFits(b)'
    BY <1>6, <1>7, <1>8, <1>10, <1>11 DEF HeldOrderFits, OrderFits
  <2>4. NoOrderMeanwhile(b)'
    BY <1>5, <1>7, <1>13 DEF RunInv, NoOrderMeanwhile
  <2>5. QED
    BY <2>1, <2>2, <2>3, <2>4 DEF RunInv
<1>15. Modest(b)
  <2>1. \A i \in 1..Len(comm'[b]) :
          \E j \in 1..Len(comm[b]) : comm'[b][i] = comm[b][j]
    BY <1>3, <1>6 DEF q
  <2>2. QED
    BY <1>1, <1>5, <1>13, <2>1 DEF Modest, q
<1>16. /\ comm' \in [Boards -> Seq(Message)] /\ order' \in [Boards -> Query]
       /\ hps' \in [Boards -> {"idle", "waiting", "sending", "resetting"}]
       /\ \A c \in Boards \ {b} : Same(c)
  <2>1. comm' \in [Boards -> Seq(Message)] /\ order' \in [Boards -> Query]
        /\ hps' \in [Boards -> {"idle", "waiting", "sending", "resetting"}]
    BY <1>1, <1>3, <1>5
  <2>2. \A c \in Boards \ {b} : Same(c)
    BY <1>1, <1>5, <1>7 DEF Same
  <2>3. QED
    BY <2>1, <2>2
<1>17. QED
  BY <1>5, <1>14, <1>15, <1>16 DEF Alone, FaultType

(* Finding a record: an order in hand becomes a record being sent.         *)
LEMMA ReadyAlone ==
  ASSUME FaultType, NEW b \in Boards, RunInv(b), BoardReady(b)
  PROVE  Alone(b)
<1>1. /\ hps \in [Boards -> {"idle", "waiting", "sending", "resetting"}]
      /\ order \in [Boards -> Query] /\ port \in [Boards -> 0..NumPorts]
      /\ hps[b] = "waiting" /\ order[b] \in Query
      /\ order[b].each \in {0, 1} /\ order[b].idx \in 0..NumPorts
      /\ comm \in [Boards -> Seq(Message)]
  BY DEF FaultType, Query, Message, BoardReady
<1>2. /\ uiVars' = uiVars /\ serverVars' = serverVars
      /\ recvIndividually' = recvIndividually /\ pidx' = pidx
      /\ wire' = wire /\ comm' = comm /\ order' = order
  BY DEF BoardReady, serverVars, netVars
<1>3. /\ \A p \in Ports : Sent(b, p)' = Sent(b, p)
      /\ Awaits(b)' <=> Awaits(b)
  BY <1>2 DEF Sent, Awaits, Comes, Orders, Trailing, Close
<1>4. WholePackets(b)' /\ InPortOrder(b)'
  BY <1>2, <1>3 DEF RunInv, WholePackets, InPortOrder
<1>5. CASE Trailing(order[b])
  <2>1. hps' = [hps EXCEPT ![b] = "idle"] /\ port' = port /\ hps'[b] = "idle"
    BY <1>1, <1>5 DEF BoardReady
  <2>2. ~HoldsOrder(b)' /\ ~HoldsOrder(b)
    BY <1>5, <2>1 DEF HoldsOrder, Orders
  <2>3. Resting(b)' <=> Resting(b)
    BY <1>1, <1>3, <2>1, <2>2 DEF Resting
  <2>4. RunInv(b)'
    <3>1. OrdersFit(b)'
      BY <1>2, <1>3, <2>1, <2>2 DEF RunInv, OrdersFit, OrderFits, Comes, Orders,
                                    Trailing, Close
    <3>2. HeldOrderFits(b)' /\ SendingFits(b)' /\ NoOrderMeanwhile(b)'
      BY <1>2, <2>1, <2>2, <2>3 DEF RunInv, HeldOrderFits, SendingFits,
                                    NoOrderMeanwhile
    <3>3. QED
      BY <1>4, <3>1, <3>2 DEF RunInv
  <2>5. Modest(b)
    BY <1>2, <2>3 DEF Modest
  <2>6. \A c \in Boards \ {b} : Same(c)
    BY <1>1, <1>2, <2>1 DEF Same
  <2>7. hps' \in [Boards -> {"idle", "waiting", "sending", "resetting"}]
    BY <1>1, <2>1
  <2>8. QED
    BY <1>1, <1>2, <2>1, <2>4, <2>5, <2>6, <2>7 DEF Alone, FaultType
<1>6. CASE Orders(order[b])
  <2> DEFINE n == IF order[b].each = 1 THEN order[b].idx + 1 ELSE 1
  <2>1. n \in Ports /\ n \in 0..NumPorts
    BY <1>1, <1>6, ConstantFacts DEF Orders, Trailing
  <2>2. hps' = [hps EXCEPT ![b] = "sending"] /\ port' = [port EXCEPT ![b] = n]
    BY <1>6 DEF BoardReady, Orders
  <2>3. hps'[b] = "sending" /\ port'[b] = n
    BY <1>1, <2>2
  <2>4. HoldsOrder(b) /\ OrderFits(b, order[b])
    BY <1>1, <1>6 DEF HoldsOrder, RunInv, HeldOrderFits
  <2>5. ~Resting(b) /\ ~Awaits(b)
    BY <2>4 DEF Resting, Awaits, RunInv, OrdersFit
  <2>6. \A p \in Ports :
          /\ p < n => pidx[b][p] = ServerLen(p) /\ Sent(b, p) = ServerLen(p)
          /\ p >= n => Sent(b, p) = 0
    <3>1. \A p \in Ports :
            /\ p < n => pidx[b][p] = ServerLen(p)
            /\ p >= n => Sent(b, p) = 0
      BY <1>1, <2>4, ConstantFacts DEF OrderFits
    <3>2. ASSUME NEW p \in Ports, p < n
          PROVE  Sent(b, p) = ServerLen(p)
      <4>1. pidx[b][p] = ServerLen(p) /\ ServerLen(p) \in Nat \ {0}
        BY <3>1, <3>2, ConstantFacts
      <4>2. Sent(b, p) \in {0, ServerLen(p)} /\ wire[b][p] \in Nat
        BY DEF RunInv, WholePackets, FaultType
      <4>3. QED
        BY <4>1, <4>2 DEF Sent
    <3>3. QED
      BY <3>1, <3>2
  <2>7. RunInv(b)'
    <3>1. OrdersFit(b)' /\ HeldOrderFits(b)'
      BY <1>3, <2>3, <2>5 DEF OrdersFit, Awaits, HeldOrderFits, HoldsOrder
    <3>2. NoOrderMeanwhile(b)'
      BY <1>2, <2>5 DEF RunInv, NoOrderMeanwhile
    <3>3. SendingFits(b)'
      <4>1. /\ order[b].each = recvIndividually
            /\ order[b].each = 1 => n = order[b].idx + 1
        BY <2>4 DEF OrderFits
      <4> HIDE DEF n
      <4>2. QED
        BY <1>2, <1>3, <1>6, <2>1, <2>3, <2>6, <4>1
           DEF SendingFits, Orders, Trailing
    <3>4. QED
      BY <1>4, <3>1, <3>2, <3>3 DEF RunInv
  <2>8. Modest(b)
    BY <1>2, <2>5 DEF Modest
  <2> HIDE DEF n
  <2>9. \A c \in Boards \ {b} : Same(c)
    BY <1>1, <1>2, <2>2 DEF Same
  <2>10. /\ hps' \in [Boards -> {"idle", "waiting", "sending", "resetting"}]
         /\ port' \in [Boards -> 0..NumPorts]
    BY <1>1, <2>1, <2>2
  <2>11. QED
    BY <1>1, <1>2, <2>7, <2>8, <2>9, <2>10 DEF Alone, FaultType
<1>7. QED
  BY <1>5, <1>6 DEF Orders

(* Timing out and resetting the FPGA: what is in hand is dropped.          *)
LEMMA DropAlone ==
  ASSUME FaultType, NEW b \in Boards, RunInv(b), BoardTimeout(b) \/ BoardReset(b)
  PROVE  Alone(b)
<1>1. /\ hps \in [Boards -> {"idle", "waiting", "sending", "resetting"}]
      /\ comm \in [Boards -> Seq(Message)]
  BY DEF FaultType, Message
<1>2. /\ uiVars' = uiVars /\ serverVars' = serverVars
      /\ recvIndividually' = recvIndividually /\ pidx' = pidx
      /\ wire' = wire /\ comm' = comm /\ order' = order /\ port' = port
  BY DEF BoardTimeout, BoardReset, serverVars, netVars
<1>3. PICK h \in {"resetting", "idle"} : hps' = [hps EXCEPT ![b] = h]
  BY DEF BoardTimeout, BoardReset
<1>4. /\ hps'[b] \in {"resetting", "idle"}
      /\ hps' \in [Boards -> {"idle", "waiting", "sending", "resetting"}]
      /\ \A c \in Boards \ {b} : Same(c)
  <2>1. hps' \in [Boards -> {"idle", "waiting", "sending", "resetting"}]
    BY <1>1, <1>3
  <2>2. QED
    BY <1>1, <1>2, <1>3, <2>1 DEF Same
<1>5. /\ \A p \in Ports : Sent(b, p)' = Sent(b, p)
      /\ Awaits(b)' <=> Awaits(b)
      /\ ~HoldsOrder(b)'
  BY <1>2, <1>4 DEF Sent, Awaits, Comes, Orders, Trailing, Close, HoldsOrder
<1>6. Resting(b) => Resting(b)'
  BY <1>4, <1>5 DEF Resting
<1>7. RunInv(b)'
  <2>1. WholePackets(b)' /\ InPortOrder(b)'
    BY <1>2, <1>5 DEF RunInv, WholePackets, InPortOrder
  <2>2. OrdersFit(b)'
    BY <1>2, <1>4, <1>5 DEF RunInv, OrdersFit, OrderFits, Comes, Orders,
                            Trailing, Close
  <2>3. HeldOrderFits(b)' /\ SendingFits(b)' /\ NoOrderMeanwhile(b)'
    BY <1>2, <1>4, <1>5, <1>6 DEF RunInv, HeldOrderFits, SendingFits,
                                  NoOrderMeanwhile
  <2>4. QED
    BY <2>1, <2>2, <2>3 DEF RunInv
<1>8. Modest(b)
  BY <1>2, <1>6 DEF Modest
<1>9. QED
  BY <1>1, <1>2, <1>4, <1>7, <1>8 DEF Alone, FaultType

(* Sending a packet: a whole one, on the next port.                        *)
LEMMA SendAlone ==
  ASSUME FaultType, NEW b \in Boards, RunInv(b), BoardSend(b)
  PROVE  Alone(b)
<1>0. PICK n \in 0..NumPorts : port[b] = n
  BY DEF FaultType
<1>1. /\ hps \in [Boards -> {"idle", "waiting", "sending", "resetting"}]
      /\ port \in [Boards -> 0..NumPorts] /\ comm \in [Boards -> Seq(Message)]
      /\ wire \in [Boards -> [Ports -> Nat]] /\ pidx \in [Boards -> [Ports -> Nat]]
      /\ order \in [Boards -> Query] /\ order[b].each \in {0, 1}
      /\ recvIndividually \in {0, 1}
  BY DEF FaultType, Query, Message
<1>2. /\ uiVars' = uiVars /\ serverVars' = serverVars
      /\ recvIndividually' = recvIndividually /\ pidx' = pidx
      /\ comm' = comm /\ order' = order
      /\ hps[b] = "sending"
      /\ wire' = [wire EXCEPT ![b][n] = wire[b][n] + ClientLen(n)]
  BY <1>0 DEF BoardSend, serverVars
<1>3. /\ order[b].each = recvIndividually
      /\ Orders(order[b])
      /\ n \in Ports
      /\ order[b].each = 1 => n = order[b].idx + 1
      /\ \A p \in Ports :
           /\ p < n => Sent(b, p) = ServerLen(p)
           /\ p < n /\ recvIndividually = 1 => pidx[b][p] = ServerLen(p)
           /\ p >= n => Sent(b, p) = 0
  BY <1>0, <1>2 DEF RunInv, SendingFits
<1>4. ClientLen(n) = ServerLen(n) /\ ServerLen(n) \in Nat \ {0}
  BY <1>3, ConstantFacts
<1>5. Sent(b, n) = 0 /\ pidx[b][n] = 0 /\ wire[b][n] = 0
  BY <1>1, <1>3, ConstantFacts DEF Sent
<1>6. /\ wire'[b][n] = ServerLen(n)
      /\ \A p \in Ports : p # n => wire'[b][p] = wire[b][p]
      /\ wire' \in [Boards -> [Ports -> Nat]]
      /\ \A c \in Boards \ {b} : wire'[c] = wire[c]
  BY <1>1, <1>2, <1>3, <1>4, <1>5
<1>7. /\ Sent(b, n)' = ServerLen(n)
      /\ \A p \in Ports : p # n => Sent(b, p)' = Sent(b, p)
  BY <1>2, <1>4, <1>5, <1>6 DEF Sent
<1>8. ~Awaits(b) /\ ~Awaits(b)' /\ ~Resting(b)
  <2>1. ~Awaits(b)
    BY <1>2 DEF RunInv, OrdersFit, Awaits
  <2>2. QED
    BY <1>2, <2>1 DEF Awaits, Comes, Orders, Trailing, Close, Resting
<1>9. n \in Nat /\ n <= NumPorts /\ NumPorts \in Nat /\ \A p \in Ports : p \in Nat
  BY <1>3, ConstantFacts
<1>10. WholePackets(b)'
  BY <1>7 DEF RunInv, WholePackets
<1>11. InPortOrder(b)'
  <2> SUFFICES ASSUME NEW p \in Ports, NEW q \in Ports, q < p, Sent(b, p)' # 0
               PROVE  /\ Sent(b, q)' = ServerLen(q)
                      /\ recvIndividually = 1 => pidx[b][q] = ServerLen(q)
    BY <1>2 DEF InPortOrder
  <2>1. p <= n
    <3> SUFFICES ASSUME p > n PROVE FALSE
      BY <1>9
    <3>1. p # n /\ p >= n
      BY <1>9
    <3>2. QED
      BY <1>3, <1>7, <3>1
  <2>2. q < n /\ q # n
    BY <2>1, <1>9
  <2>3. QED
    BY <1>3, <1>7, <2>2
<1>12. OrdersFit(b)'
  BY <1>8 DEF OrdersFit, Awaits
<1>13. Modest(b)
  BY <1>2, <1>8 DEF Modest
<1>14. CASE order[b].each = 0 /\ n # NumPorts
  <2>1. hps' = hps /\ port' = [port EXCEPT ![b] = n + 1]
    BY <1>0, <1>1, <1>14 DEF BoardSend
  <2>2. port'[b] = n + 1 /\ hps'[b] = "sending" /\ n + 1 \in Ports
    BY <1>0, <1>1, <1>2, <1>9, <1>14, <2>1, ConstantFacts
  <2>3. HeldOrderFits(b)' /\ NoOrderMeanwhile(b)'
    BY <1>2, <1>3, <1>14, <2>2 DEF HeldOrderFits, HoldsOrder, NoOrderMeanwhile
  <2>4. SendingFits(b)'
    <3>1. \A p \in Ports :
            /\ p < n + 1 => Sent(b, p)' = ServerLen(p)
            /\ p >= n + 1 => Sent(b, p)' = 0
      BY <1>3, <1>7, <1>9
    <3>2. recvIndividually' # 1 /\ order'[b] = order[b]
      BY <1>2, <1>3, <1>14
    <3>3. QED
      BY <1>2, <1>3, <1>14, <2>2, <3>1, <3>2 DEF SendingFits, Orders, Trailing
  <2>5. RunInv(b)'
    BY <1>10, <1>11, <1>12, <2>3, <2>4 DEF RunInv
  <2>6. port' \in [Boards -> 0..NumPorts]
    BY <1>1, <2>1, <2>2, ConstantFacts
  <2>7. \A c \in Boards \ {b} : Same(c)
    BY <1>1, <1>2, <1>6, <2>1 DEF Same
  <2>8. QED
    BY <1>1, <1>2, <1>6, <1>13, <2>1, <2>5, <2>6, <2>7 DEF Alone
<1>15. CASE order[b].each = 1 \/ n = NumPorts
  <2>1. port' = port /\ \E h \in {"idle", "resetting"} : hps' = [hps EXCEPT ![b] = h]
    BY <1>0, <1>1, <1>15 DEF BoardSend
  <2>2. PICK h \in {"idle", "resetting"} : hps' = [hps EXCEPT ![b] = h]
    BY <2>1
  <2>3. /\ hps'[b] \in {"idle", "resetting"}
        /\ \A c \in Boards \ {b} : hps'[c] = hps[c]
        /\ hps' \in [Boards -> {"idle", "waiting", "sending", "resetting"}]
    BY <1>1, <2>2
  <2>4. HeldOrderFits(b)' /\ SendingFits(b)' /\ Resting(b)'
    BY <1>8, <2>3 DEF HeldOrderFits, HoldsOrder, SendingFits, Resting
  <2>5. RunInv(b)'
    BY <1>10, <1>11, <1>12, <2>4 DEF RunInv, NoOrderMeanwhile
  <2>6. \A c \in Boards \ {b} : Same(c)
    BY <1>2, <1>6, <2>1, <2>3 DEF Same
  <2>7. QED
    BY <1>1, <1>2, <1>6, <1>13, <2>1, <2>3, <2>5, <2>6 DEF Alone
<1>16. QED
  BY <1>1, <1>14, <1>15

(* A board that runs, in any of its steps.                                 *)
LEMMA StepAlone ==
  ASSUME FaultType, NEW b \in Boards, RunInv(b), BoardStep(b),
         ~(hps[b] = "idle" /\ Closing(b))
  PROVE  Alone(b)
<1>1. CASE BoardTake(b)
  <2>1. hps[b] = "idle"
    BY <1>1 DEF BoardTake
  <2>2. QED
    BY <1>1, <2>1, TakeAlone
<1>2. CASE BoardReady(b)
  BY <1>2, ReadyAlone
<1>3. CASE BoardTimeout(b) \/ BoardReset(b)
  BY <1>3, DropAlone
<1>4. CASE BoardSend(b)
  BY <1>4, SendAlone
<1>5. QED
  BY <1>1, <1>2, <1>3, <1>4 DEF BoardStep

-----------------------------------------------------------------------------
(* What a step leaves alone *)

(* A sum of what boards do: nothing but them and their sockets changes.    *)
LEMMA CountFrame ==
  ASSUME counted' = counted, pidx' = pidx
  PROVE  /\ OfCounted(pidx)' = OfCounted(pidx)
         /\ recvCount' = recvCount => (RightCount' <=> RightCount)
<1>1. OfCounted(pidx)' = OfCounted(pidx)
  BY DEF OfCounted
<1>2. DeliveredBy(OfCounted(pidx))' = DeliveredBy(OfCounted(pidx))
  BY <1>1 DEF DeliveredBy
<1>3. QED
  BY <1>1, <1>2 DEF RightCount

(* The boards as they are, with what the server knows of them.             *)
LEMMA BoardsFrame ==
  ASSUME netVars' = netVars, boardVars' = boardVars, pidx' = pidx
  PROVE  /\ \A b \in Boards : Same(b)
         /\ counted' = counted => (Rest => Rest')
         /\ NoClose => NoClose'
         /\ StaysInSegment => StaysInSegment'
         /\ BoardsInv /\ alive' = alive /\ recvIndividually' = recvIndividually
              => BoardsInv'
<1>1. /\ comm' = comm /\ wire' = wire /\ hps' = hps /\ order' = order
      /\ port' = port
  BY DEF netVars, boardVars
<1>2. \A b \in Boards : Same(b)
  BY <1>1 DEF Same
<1>3. \A b \in Boards : /\ Still(b) => Still(b)'
                        /\ EndedInv(b) => EndedInv(b)'
                        /\ RunInv(b) /\ recvIndividually' = recvIndividually
                             => RunInv(b)'
  BY <1>2, SameRuns
<1>4. counted' = counted => (Rest => Rest')
  <2> SUFFICES ASSUME counted' = counted, Rest, NEW b \in counted PROVE Still(b)'
    BY DEF Rest
  <2>1. Still(b)
    BY DEF Rest
  <2>2. Resting(b)' <=> Resting(b)
    BY <1>1, SameResting
  <2>3. QED
    BY <1>1, <2>1, <2>2 DEF Still
<1>5. NoClose => NoClose'
  BY <1>1 DEF NoClose, Close
<1>6. StaysInSegment => StaysInSegment'
  BY <1>1 DEF StaysInSegment, Sent
<1>7. BoardsInv /\ alive' = alive /\ recvIndividually' = recvIndividually
        => BoardsInv'
  BY <1>3 DEF BoardsInv
<1>8. QED
  BY <1>2, <1>4, <1>5, <1>6, <1>7

(* A connection is lost only by a board that has ended, when nothing is    *)
(* left on it.                                                             *)
LinksLost == /\ socks' \subseteq socks
             /\ \A c : \A p \in Ports :
                  <<c, p>> \in socks \ socks' => c \notin alive /\ wire'[c][p] = 0

(* The boards and their sockets as they are.                               *)
LEMMA LinksFrame ==
  ASSUME LinkInv, comm' = comm, wire' = wire, hps' = hps, order' = order,
         pidx' = pidx, counted' = counted, alive' = alive,
         LinksLost, stage' = "starting" <=> stage = "starting"
  PROVE  LinkInv'
<1>1. ASSUME NEW b PROVE Still(b) => Still(b)'
  <2>1. Resting(b)' <=> Resting(b)
    BY SameResting
  <2>2. QED
    BY <2>1 DEF Still
<1>2. QED
  BY <1>1 DEF LinkInv, LinksLost

-----------------------------------------------------------------------------
(* The start, and the steps of the script *)

(* Initially every board is still and the script has asked for nothing.    *)
LEMMA FaultInitInv == FaultInit => FaultIInv
<1> SUFFICES ASSUME FaultInit PROVE FaultInv
  BY DEF FaultIInv
<1>1. FaultType
  <2>1. TypeOK
    BY InitInv DEF FaultInit, Inv
  <2>2. comm = [b \in Boards |-> <<>>]
    BY DEF FaultInit, Init
  <2>3. comm \in [Boards -> Seq(Query \cup {Close})]
    BY <2>2
  <2>4. QED
    BY <2>1, <2>3 DEF FaultInit, TypeOK, FaultType
<1>2. ASSUME NEW b \in Boards PROVE Still(b) /\ comm[b] = <<>>
  <2>1. hps[b] = "idle" /\ comm[b] = <<>>
        /\ \A p \in Ports : pidx[b][p] = 0 /\ wire[b][p] = 0
    BY DEF FaultInit, Init
  <2>2. ~Awaits(b)
    BY <2>1, NothingComes
  <2>3. QED
    BY <2>1, <2>2 DEF Still, Resting, HoldsOrder
<1>3. ScriptInv
  <2>1. Rest /\ counted = Boards /\ NoClose
    BY <1>2 DEF FaultInit, Rest, NoClose
  <2>2. ui = "ready" /\ ipcIn = <<>> /\ ipcOut = 0 /\ stage = "normal"
    BY DEF FaultInit, Init
  <2>3. QED
    BY <2>1, <2>2 DEF ScriptInv, Unread
<1>4. LinkInv
  <2>1. /\ socks = Boards \X (0..NumPorts) /\ counted = Boards /\ alive = Boards
        /\ stage = "normal"
    BY DEF FaultInit
  <2>2. \A p \in Ports : p \in 0..NumPorts
    BY ConstantFacts
  <2>3. QED
    BY <2>1, <2>2 DEF LinkInv
<1>5. BoardsInv
  BY <1>2, StillRuns DEF BoardsInv, FaultInit
<1>6. StaysInSegment
  <2>1. \A b \in Boards, p \in Ports : Sent(b, p) = 0
    BY <1>2, StillRuns
  <2>2. QED
    BY <2>1, ConstantFacts DEF StaysInSegment
<1>7. QED
  BY <1>1, <1>3, <1>4, <1>5, <1>6 DEF FaultInv

(* What the script adds to a query it has sent.                            *)
LEMMA SecondMessage ==
  \A x, y \in Nat : /\ Append(<<x>>, y) = <<x, y>>
                    /\ Tail(<<x, y>>) = <<y>>
                    /\ Head(<<y>>) = y
<1> SUFFICES ASSUME NEW x \in Nat, NEW y \in Nat
             PROVE  /\ Append(<<x>>, y) = <<x, y>>
                    /\ Tail(<<x, y>>) = <<y>>
                    /\ Head(<<y>>) = y
  OBVIOUS
<1> DEFINE a == Append(<<x>>, y)
<1>1. <<x>> \in Seq(Nat) /\ Len(<<x>>) = 1 /\ <<x>>[1] = x
  OBVIOUS
<1>2. a \in Seq(Nat) /\ Len(a) = 1 + 1 /\ a[1] = x /\ a[1 + 1] = y
  BY <1>1, AppendProperties
<1>3. /\ <<x, y>> \in Seq(Nat) /\ Len(<<x, y>>) = 2 /\ <<x, y>>[1] = x
      /\ <<x, y>>[2] = y
  OBVIOUS
<1>4. 1 + 1 = 2 /\ \A i \in 1..2 : i = 1 \/ i = 2
  OBVIOUS
<1> HIDE DEF a
<1>5. Len(a) = Len(<<x, y>>) /\ \A i \in 1..Len(a) : a[i] = <<x, y>>[i]
  BY <1>2, <1>3, <1>4
<1>6. a = <<x, y>>
  BY <1>2, <1>3, <1>5, SeqEqual
<1>7. Tail(<<x, y>>) = <<y>>
  <2> DEFINE s == <<x, y>>
             t == Tail(s)
  <2>1. t \in Seq(Nat) /\ Len(t) = 1 /\ t[1] = s[1 + 1]
    <3>1. s \in Seq(Nat) /\ s # <<>> /\ Len(s) = 2
      BY <1>3
    <3> HIDE DEF s
    <3>2. Tail(s) \in Seq(Nat) /\ Len(Tail(s)) = Len(s) - 1
          /\ \A i \in 1..Len(Tail(s)) : Tail(s)[i] = s[i + 1]
      BY <3>1, HeadTailProperties, EmptySeq
    <3> HIDE DEF t
    <3>3. t \in Seq(Nat) /\ Len(t) = 1 /\ \A i \in 1..Len(t) : t[i] = s[i + 1]
      BY <3>1, <3>2 DEF t
    <3>4. 1 \in 1..Len(t)
      BY <3>3
    <3>5. QED
      BY <3>3, <3>4
  <2>2. t[1] = y
    BY <1>3, <1>4, <2>1
  <2>3. <<y>> \in Seq(Nat) /\ Len(<<y>>) = 1 /\ <<y>>[1] = y
    OBVIOUS
  <2> HIDE DEF t
  <2>4. \A i \in 1..Len(t) : t[i] = <<y>>[i]
    BY <2>1, <2>2, <2>3
  <2>5. t = <<y>>
    BY <2>1, <2>3, <2>4, SeqEqual
  <2>6. QED
    BY <2>5 DEF t
<1>8. QED
  BY <1>6, <1>7 DEF a

(* A query, its notification and the script's giving up: nothing but the   *)
(* script and its sockets changes.                                         *)
LEMMA ScriptFrame ==
  ASSUME FaultInv, netVars' = netVars, boardVars' = boardVars,
         serverVars' = serverVars, serverState' = serverState,
         alive' = alive, ending' = ending, stage # "starting",
         ui' \in {"ready", "waiting"}, ipcOut' \in Nat,
         stage' \in {"normal", "closing", "over"}, ScriptInv'
  PROVE  FaultInv'
<1>1. /\ recvIndividually' = recvIndividually /\ recvCount' = recvCount
      /\ pidx' = pidx /\ comm' = comm /\ wire' = wire /\ hps' = hps
      /\ order' = order /\ port' = port
      /\ socks' = socks /\ counted' = counted
  BY DEF netVars, boardVars, serverVars, serverState
<1>2. FaultType'
  BY <1>1 DEF FaultInv, FaultType, Close
<1>3. LinkInv'
  BY <1>1, LinksFrame DEF FaultInv, LinksLost
<1>4. BoardsInv' /\ StaysInSegment'
  BY <1>1, BoardsFrame DEF FaultInv
<1>5. QED
  BY <1>2, <1>3, <1>4 DEF FaultInv

(* A query, unread, in an idle system.                                     *)
LEMMA FaultUIQueryInv ==
  ASSUME FaultInv, NEW each \in {0, 1}, FaultUIQuery(each)
  PROVE  FaultInv'
<1>1. /\ stage = "normal" /\ stage' = "normal" /\ ui = "ready" /\ ui' = "waiting"
      /\ ipcIn' = Append(ipcIn, each) /\ ipcOut' = ipcOut
      /\ serverVars' = serverVars /\ netVars' = netVars /\ boardVars' = boardVars
      /\ serverState' = serverState /\ alive' = alive /\ ending' = ending
  BY DEF FaultUIQuery, UIQuery, scriptState
<1>2. ipcIn = <<>> /\ ipcOut = 0 /\ Rest /\ NoClose
  BY <1>1 DEF FaultInv, ScriptInv
<1>3. ipcIn' \in {<<0>>, <<1>>}
  BY <1>1, <1>2
<1>4. Rest' /\ NoClose'
  BY <1>1, <1>2, BoardsFrame DEF serverVars, serverState
<1>5. ScriptInv'
  BY <1>1, <1>2, <1>3, <1>4 DEF ScriptInv
<1>6. QED
  BY <1>1, <1>2, <1>5, ScriptFrame DEF FaultInv, FaultType

(* The script reads its notification: all has arrived, so all is still.    *)
LEMMA FaultUIResumeInv ==
  ASSUME FaultInv, FaultUIResume
  PROVE  FaultInv'
<1>1. /\ stage = "normal" /\ stage' = "normal" /\ ui = "waiting" /\ ui' = "ready"
      /\ ipcIn' = ipcIn /\ ipcOut > 0 /\ ipcOut' = ipcOut - 1
      /\ serverVars' = serverVars /\ netVars' = netVars /\ boardVars' = boardVars
      /\ serverState' = serverState /\ alive' = alive /\ ending' = ending
  BY DEF FaultUIResume, UIResume, scriptState
<1>2. ipcIn = <<>> /\ ipcOut = 1 /\ Rest /\ NoClose
  BY <1>1 DEF FaultInv, ScriptInv
<1>3. Rest' /\ NoClose'
  BY <1>1, <1>2, BoardsFrame DEF serverVars, serverState
<1>4. ScriptInv'
  BY <1>1, <1>2, <1>3 DEF ScriptInv, Unread
<1>5. QED
  BY <1>1, <1>2, <1>4, ScriptFrame

(* closeFPGA and shutdown, behind a query perhaps.                         *)
LEMMA UIQuitsInv ==
  ASSUME FaultInv, UIClose
  PROVE  FaultInv'
<1>1. /\ stage = "normal" /\ ui' = "ready" /\ ipcOut' = ipcOut
      /\ serverVars' = serverVars /\ netVars' = netVars /\ boardVars' = boardVars
      /\ serverState' = serverState /\ alive' = alive /\ ending' = ending
      /\ \/ stage' = "closing" /\ ipcIn' = Append(ipcIn, 2)
         \/ stage' = "over" /\ ipcIn' = Append(ipcIn, 3)
  BY DEF UIClose, CloseProgram, ShutdownServer
<1>2. /\ ipcIn \in {<<>>, <<0>>, <<1>>} /\ NoClose
      /\ ipcIn \in {<<0>>, <<1>>} => Rest
      /\ Rest \/ RightCount
  BY <1>1 DEF FaultInv, ScriptInv, Unread
<1>3. /\ Rest => Rest'
      /\ RightCount => RightCount'
      /\ NoClose'
  BY <1>1, <1>2, BoardsFrame, CountFrame DEF serverVars, serverState
<1>4. CASE stage' = "closing"
  <2>1. ipcIn' = Append(ipcIn, 2)
    BY <1>1, <1>4
  <2>2. /\ ipcIn' \in {<<2>>, <<0, 2>>, <<1, 2>>}
        /\ ipcIn = <<>> => Head(ipcIn') = 2
    <3>1. CASE ipcIn = <<>>
      BY <2>1, <3>1
    <3>2. CASE ipcIn = <<0>>
      BY <2>1, <3>2, SecondMessage
    <3>3. CASE ipcIn = <<1>>
      BY <2>1, <3>3, SecondMessage
    <3>4. QED
      BY <1>2, <3>1, <3>2, <3>3
  <2>3. QED
    BY <1>1, <1>2, <1>3, <1>4, <2>2, ScriptFrame
       DEF ScriptInv, Unread, FaultInv, FaultType
<1>5. CASE stage' = "over"
  <2>1. ipcIn' = Append(ipcIn, 3)
    BY <1>1, <1>5
  <2>2. /\ ipcIn' \in {<<3>>, <<0, 3>>, <<1, 3>>}
        /\ ipcIn = <<>> => Head(ipcIn') = 3
    <3>1. CASE ipcIn = <<>>
      BY <2>1, <3>1
    <3>2. CASE ipcIn = <<0>>
      BY <2>1, <3>2, SecondMessage
    <3>3. CASE ipcIn = <<1>>
      BY <2>1, <3>3, SecondMessage
    <3>4. QED
      BY <1>2, <3>1, <3>2, <3>3
  <2>3. QED
    BY <1>1, <1>2, <1>3, <1>5, <2>2, ScriptFrame
       DEF ScriptInv, Unread, FaultInv, FaultType
<1>6. QED
  BY <1>1, <1>4, <1>5

(* Only when all the boards have ended and the server has noticed.         *)
LEMMA StartAgainInv ==
  ASSUME FaultInv, StartAgain
  PROVE  FaultInv'
<1>1. /\ stage = "closing" /\ stage' = "starting" /\ ipcIn = <<>>
      /\ alive = {} /\ socks = {}
      /\ ui' = ui /\ ipcIn' = ipcIn /\ ipcOut' = ipcOut
      /\ recvIndividually' = recvIndividually /\ recvCount' = recvCount
      /\ pidx' = pidx /\ comm' = comm /\ wire' = wire /\ hps' = hps
      /\ order' = order /\ port' = port
      /\ socks' = socks /\ counted' = counted
      /\ alive' = alive /\ ending' = ending
  BY DEF StartAgain, vars, uiVars, netVars, boardVars, serverVars, serverState
<1>2. FaultType'
  BY <1>1 DEF FaultInv, FaultType, Close
<1>3. netVars' = netVars /\ pidx' = pidx /\ boardVars' = boardVars
  BY DEF StartAgain, vars, serverVars
<1>4. BoardsInv' /\ StaysInSegment'
  BY <1>1, <1>3, BoardsFrame DEF FaultInv
<1>5. NoClose
  BY <1>1 DEF FaultInv, BoardsInv, EndedInv, NoClose
<1>6. ScriptInv'
  <2>1. NoClose'
    BY <1>3, <1>5, BoardsFrame
  <2>2. ui' = "ready" /\ ipcIn' = <<>> /\ stage' = "starting"
    BY <1>1 DEF FaultInv, ScriptInv
  <2>3. QED
    BY <2>1, <2>2 DEF ScriptInv, Unread
<1>7. LinkInv'
  BY <1>1 DEF FaultInv, LinkInv
<1>8. QED
  BY <1>2, <1>4, <1>6, <1>7 DEF FaultInv

(* A board comes back with nothing in its queue or on its sockets, which   *)
(* are new ones, rewound: it is at rest.                                   *)
LEMMA RestartInv ==
  ASSUME FaultInv, NEW b \in Boards, Restart(b)
  PROVE  FaultInv'
<1>1. /\ stage = "starting" /\ stage' = "starting"
      /\ b \notin alive /\ \A p \in 0..NumPorts : <<b, p>> \notin socks
      /\ alive' = alive \cup {b} /\ socks' = socks \cup {<<b, 0>>}
      /\ pidx' = [pidx EXCEPT ![b] = [p \in Ports |-> 0]]
      /\ ui' = ui /\ ipcIn' = ipcIn /\ ipcOut' = ipcOut
      /\ recvIndividually' = recvIndividually /\ recvCount' = recvCount
      /\ comm' = comm /\ wire' = wire /\ hps' = hps
      /\ order' = order /\ port' = port
      /\ counted' = counted /\ ending' = ending
  BY DEF Restart, CommPort, uiVars, netVars, boardVars, scriptState
<1>2. /\ pidx \in [Boards -> [Ports -> Nat]]
      /\ pidx' \in [Boards -> [Ports -> Nat]]
      /\ pidx'[b] = [p \in Ports |-> 0]
      /\ \A c \in Boards : c # b => pidx'[c] = pidx[c]
  BY <1>1 DEF FaultInv, FaultType
<1>3. FaultType'
  BY <1>1, <1>2 DEF FaultInv, FaultType, Close
<1>4. \A p \in Ports : wire[b][p] = 0
  <2>1. \A p \in Ports : p \in 0..NumPorts
    BY ConstantFacts
  <2>2. QED
    BY <1>1, <2>1 DEF FaultInv, LinkInv
<1>5. hps[b] = "idle" /\ comm[b] = <<>>
  BY <1>1 DEF FaultInv, BoardsInv, EndedInv
<1>6. Still(b)' /\ comm'[b] = <<>>
  <2>1. Resting(b)
    BY <1>5, NothingComes DEF Resting, HoldsOrder
  <2>2. Resting(b)'
    BY <1>1, <2>1, SameResting
  <2>3. QED
    BY <1>1, <1>2, <1>4, <1>5, <2>2 DEF Still
<1>7. \A c \in Boards : c # b => Same(c)
  BY <1>1, <1>2 DEF Same
<1>8. ScriptInv'
  <2>1. NoClose /\ ui = "ready" /\ ipcIn = <<>>
    BY <1>1 DEF FaultInv, ScriptInv
  <2>2. NoClose'
    BY <1>1, <2>1 DEF NoClose, Close
  <2>3. QED
    BY <1>1, <2>1, <2>2 DEF ScriptInv, Unread
<1>9. LinkInv'
  <2>1. \A p \in Ports : p # 0
    BY ConstantFacts
  <2>2. ASSUME NEW c \in alive'
        PROVE  Still(c)' /\ comm'[c] = <<>>
    <3>1. CASE c = b
      BY <1>6, <3>1
    <3>2. CASE c # b
      <4>1. c \in alive /\ c \in Boards /\ Still(c) /\ comm[c] = <<>>
        BY <1>1, <3>2 DEF FaultInv, LinkInv, FaultType
      <4>2. QED
        BY <1>1, <1>7, <3>2, <4>1, SameRuns
    <3>3. QED
      BY <3>1, <3>2
  <2>3. QED
    BY <1>1, <2>1, <2>2 DEF FaultInv, LinkInv
<1>10. BoardsInv'
  <2> SUFFICES ASSUME NEW c \in Boards
               PROVE  IF c \in alive' THEN RunInv(c)' ELSE EndedInv(c)'
    BY DEF BoardsInv
  <2>1. CASE c = b
    <3>1. RunInv(b)'
      BY <1>6, StillRunsNext
    <3>2. QED
      BY <1>1, <2>1, <3>1
  <2>2. CASE c # b
    BY <1>1, <1>7, <2>2, SameRuns DEF FaultInv, BoardsInv
  <2>3. QED
    BY <2>1, <2>2
<1>11. StaysInSegment'
  <2> SUFFICES ASSUME NEW c \in Boards, NEW p \in Ports
               PROVE  Sent(c, p)' <= ServerLen(p)
    BY DEF StaysInSegment, ServerLen
  <2>1. CASE c = b
    BY <1>1, <1>2, <1>4, <2>1, ConstantFacts DEF Sent
  <2>2. CASE c # b
    BY <1>1, <1>2, <2>2 DEF Sent, FaultInv, StaysInSegment
  <2>3. QED
    BY <2>1, <2>2
<1>12. QED
  BY <1>3, <1>8, <1>9, <1>10, <1>11 DEF FaultInv

(* The boards started again are those that count now, and they are at rest. *)
LEMMA UpdateInv ==
  ASSUME FaultInv, Update
  PROVE  FaultInv'
<1>1. /\ stage = "starting" /\ stage' = "normal" /\ alive # {}
      /\ ipcOut' = 0 /\ counted' = alive /\ socks' = alive \X (0..NumPorts)
      /\ ui' = ui /\ ipcIn' = ipcIn
      /\ serverVars' = serverVars /\ netVars' = netVars /\ boardVars' = boardVars
      /\ alive' = alive /\ ending' = ending
  BY DEF Update
<1>2. /\ recvIndividually' = recvIndividually /\ recvCount' = recvCount
      /\ pidx' = pidx /\ comm' = comm /\ wire' = wire /\ hps' = hps
      /\ order' = order /\ port' = port
  BY <1>1 DEF netVars, boardVars, serverVars
<1>3. FaultType'
  BY <1>1, <1>2 DEF FaultInv, FaultType, Close
<1>4. BoardsInv' /\ StaysInSegment' /\ (NoClose => NoClose')
  BY <1>1, <1>2, BoardsFrame DEF FaultInv
<1>5. \A b \in alive : Still(b)' /\ b \in Boards
  <2>1. \A b \in alive : Still(b) /\ b \in Boards
    BY <1>1 DEF FaultInv, LinkInv, FaultType
  <2>2. QED
    BY <1>1, <1>2, <2>1, BoardsFrame, SameRuns
<1>6. ScriptInv'
  <2>1. NoClose /\ ui = "ready" /\ ipcIn = <<>>
    BY <1>1 DEF FaultInv, ScriptInv
  <2>2. Rest'
    BY <1>1, <1>5 DEF Rest
  <2>3. QED
    BY <1>1, <1>4, <2>1, <2>2 DEF ScriptInv, Unread
<1>7. LinkInv'
  <2>1. \A b \in Boards, p \in Ports : wire[b][p] = 0
    BY <1>1 DEF FaultInv, LinkInv
  <2>2. \A p \in Ports : p \in 0..NumPorts
    BY ConstantFacts
  <2>3. QED
    BY <1>1, <1>2, <2>1, <2>2 DEF LinkInv
<1>8. QED
  BY <1>3, <1>4, <1>6, <1>7 DEF FaultInv

-----------------------------------------------------------------------------
(* The boards *)

(* A step that changes none of what the invariant speaks of.               *)
LEMMA NothingChanges ==
  ASSUME FaultInv,
         ui' = ui, ipcIn' = ipcIn, ipcOut' = ipcOut,
         recvIndividually' = recvIndividually, recvCount' = recvCount,
         pidx' = pidx, comm' = comm, wire' = wire, hps' = hps,
         order' = order, port' = port,
         counted' = counted, alive' = alive, ending' = ending, stage' = stage,
         LinksLost
  PROVE  FaultInv'
<1>1. FaultType'
  BY DEF FaultInv, FaultType, Close
<1>2. LinkInv'
  BY LinksFrame DEF FaultInv
<1>3. \A b \in Boards : Same(b)
  BY DEF Same
<1>4. \A b \in Boards : Still(b) => Still(b)'
  BY <1>3, SameRuns
<1>5. ScriptInv'
  <2>1. Rest => Rest'
    BY <1>4 DEF Rest, FaultInv, FaultType
  <2>2. RightCount' <=> RightCount
    BY CountFrame
  <2>3. NoClose => NoClose'
    BY DEF NoClose, Close
  <2>4. QED
    BY <2>1, <2>2, <2>3 DEF FaultInv, ScriptInv, Unread
<1>6. BoardsInv'
  BY <1>3, SameRuns DEF FaultInv, BoardsInv
<1>7. StaysInSegment'
  BY DEF FaultInv, StaysInSegment, Sent
<1>8. QED
  BY <1>1, <1>2, <1>5, <1>6, <1>7 DEF FaultInv

(* Each step of a board that runs.                                         *)
LEMMA RunningInv ==
  ASSUME FaultInv, NEW b \in Boards, b \in alive, BoardStep(b),
         ~(hps[b] = "idle" /\ Closing(b)),
         serverState' = serverState, alive' = alive, ending' = ending,
         scriptState' = scriptState
  PROVE  FaultInv'
<1>1. Alone(b)
  BY StepAlone DEF FaultInv, BoardsInv
<1>2. /\ ui' = ui /\ ipcIn' = ipcIn /\ ipcOut' = ipcOut
      /\ recvIndividually' = recvIndividually /\ recvCount' = recvCount
      /\ pidx' = pidx /\ socks' = socks /\ counted' = counted
      /\ stage' = stage /\ RunInv(b)' /\ Modest(b)
      /\ \A c \in Boards : c # b => Same(c)
  BY <1>1 DEF Alone, uiVars, serverVars, serverState, scriptState
<1>3. FaultType'
  <2>1. comm' \in [Boards -> Seq(Query \cup {Close})]
    BY <1>1 DEF Alone, Message
  <2>2. QED
    BY <1>1, <1>2, <2>1 DEF FaultInv, FaultType, Alone, Close
<1>4. Still(b) => Still(b)'
  BY <1>2 DEF Still, Modest
<1>5. \A c \in Boards : Still(c) => Still(c)'
  BY <1>2, <1>4, SameRuns
<1>6. ScriptInv'
  <2>1. Rest => Rest'
    BY <1>2, <1>5 DEF Rest, FaultInv, FaultType
  <2>2. RightCount' <=> RightCount
    BY <1>2, CountFrame
  <2>3. NoClose => NoClose'
    <3> SUFFICES ASSUME NoClose, NEW c \in Boards, NEW i \in 1..Len(comm'[c])
                 PROVE  comm'[c][i] # Close
      BY DEF NoClose, Close
    <3>1. CASE c = b
      BY <1>2, <3>1 DEF Modest, NoClose
    <3>2. CASE c # b
      BY <1>2, <3>2 DEF Same, NoClose
    <3>3. QED
      BY <3>1, <3>2
  <2>4. QED
    BY <1>2, <2>1, <2>2, <2>3 DEF FaultInv, ScriptInv, Unread
<1>7. LinkInv'
  <2>1. ASSUME NEW c \in Boards, NEW p \in Ports, <<c, p>> \notin socks
        PROVE  wire'[c][p] = 0
    <3>1. wire[c][p] = 0
      BY <2>1 DEF FaultInv, LinkInv
    <3>2. CASE c = b
      <4>1. Still(b)
        BY <2>1, <3>2 DEF FaultInv, LinkInv
      <4>2. QED
        BY <1>2, <3>1, <3>2, <4>1 DEF Still, Modest
    <3>3. CASE c # b
      BY <1>2, <3>1, <3>3 DEF Same
    <3>4. QED
      BY <3>2, <3>3
  <2>2. ASSUME NEW c \in alive, stage = "starting"
        PROVE  Still(c)' /\ comm'[c] = <<>>
    <3>1. Still(c) /\ comm[c] = <<>> /\ c \in Boards
      BY <2>2 DEF FaultInv, LinkInv, FaultType
    <3>2. QED
      BY <1>2, <1>5, <3>1 DEF Same, Modest
  <2>3. QED
    BY <1>2, <2>1, <2>2 DEF FaultInv, LinkInv
<1>8. BoardsInv'
  <2> SUFFICES ASSUME NEW c \in Boards
               PROVE  IF c \in alive THEN RunInv(c)' ELSE EndedInv(c)'
    BY DEF BoardsInv
  <2>1. CASE c = b
    BY <1>2, <2>1
  <2>2. CASE c # b
    BY <1>2, <2>2, SameRuns DEF FaultInv, BoardsInv
  <2>3. QED
    BY <2>1, <2>2
<1>9. StaysInSegment'
  <2> SUFFICES ASSUME NEW c \in Boards, NEW p \in Ports
               PROVE  Sent(c, p)' <= ServerLen(p)
    BY DEF StaysInSegment, ServerLen
  <2>1. CASE c = b
    <3>1. Sent(b, p)' \in {0, ServerLen(p)}
      BY <1>2 DEF RunInv, WholePackets, ServerLen
    <3>2. QED
      BY <2>1, <3>1, ConstantFacts
  <2>2. CASE c # b
    BY <1>2, <2>2 DEF Same, Sent, FaultInv, StaysInSegment
  <2>3. QED
    BY <2>1, <2>2
<1>10. QED
  BY <1>3, <1>6, <1>7, <1>8, <1>9 DEF FaultInv

(* A program's end, whatever of its last packets arrives.                  *)
LEMMA GoneInv ==
  ASSUME FaultInv, NEW b \in Boards, b \in alive, Gone(b),
         NEW left \in [Ports -> Nat], \A p \in Ports : left[p] <= wire[b][p],
         wire' = [wire EXCEPT ![b] = left],
         uiVars' = uiVars, serverVars' = serverVars, serverState' = serverState,
         stage' = stage
  PROVE  FaultInv'
<1>1. /\ ui' = ui /\ ipcIn' = ipcIn /\ ipcOut' = ipcOut
      /\ recvIndividually' = recvIndividually /\ recvCount' = recvCount
      /\ pidx' = pidx /\ socks' = socks /\ counted' = counted
      /\ alive' = alive \ {b} /\ ending' = ending \ {b}
      /\ comm' = [comm EXCEPT ![b] = <<>>] /\ hps' = [hps EXCEPT ![b] = "idle"]
      /\ order' = [order EXCEPT ![b] = [each |-> 0, idx |-> 0]]
      /\ port' = [port EXCEPT ![b] = 0]
  BY DEF uiVars, serverVars, serverState, Gone
<1>2. /\ comm \in [Boards -> Seq(Query \cup {Close})]
      /\ hps \in [Boards -> {"idle", "waiting", "sending", "resetting"}]
      /\ order \in [Boards -> Query] /\ port \in [Boards -> 0..NumPorts]
      /\ wire \in [Boards -> [Ports -> Nat]] /\ pidx \in [Boards -> [Ports -> Nat]]
  BY DEF FaultInv, FaultType
<1>3. /\ comm'[b] = <<>> /\ hps'[b] = "idle" /\ wire'[b] = left
      /\ \A c \in Boards : c # b => Same(c)
  BY <1>1, <1>2 DEF Same
<1>4. FaultType'
  <2>1. [each |-> 0, idx |-> 0] \in Query
    BY ConstantFacts DEF Query
  <2>2. /\ comm' \in [Boards -> Seq(Query \cup {Close})]
        /\ hps' \in [Boards -> {"idle", "waiting", "sending", "resetting"}]
        /\ order' \in [Boards -> Query]
    BY <1>1, <1>2, <2>1
  <2>3. wire' \in [Boards -> [Ports -> Nat]]
    BY <1>2
  <2>4. port' \in [Boards -> 0..NumPorts]
    BY <1>1, <1>2, ConstantFacts
  <2>5. QED
    BY <1>1, <2>2, <2>3, <2>4 DEF FaultInv, FaultType, Close
<1>5. Resting(b)'
  BY <1>3 DEF Resting, HoldsOrder, Awaits
<1>6. Still(b) => Still(b)'
  <2> SUFFICES ASSUME Still(b), NEW p \in Ports
               PROVE  pidx'[b][p] = 0 /\ wire'[b][p] = 0
    BY <1>5 DEF Still
  <2>1. pidx[b][p] = 0 /\ wire[b][p] = 0
    BY DEF Still
  <2>2. left[p] \in Nat /\ left[p] <= 0
    BY <2>1
  <2>3. QED
    BY <1>1, <1>3, <2>1, <2>2
<1>7. \A c \in Boards : Still(c) => Still(c)'
  BY <1>3, <1>6, SameRuns
<1>8. ScriptInv'
  <2>1. Rest => Rest'
    BY <1>1, <1>7 DEF Rest, FaultInv, FaultType
  <2>2. RightCount' <=> RightCount
    BY <1>1, CountFrame
  <2>3. NoClose => NoClose'
    <3> SUFFICES ASSUME NoClose, NEW c \in Boards, NEW i \in 1..Len(comm'[c])
                 PROVE  comm'[c][i] # Close
      BY DEF NoClose, Close
    <3>1. CASE c = b
      BY <1>3, <3>1
    <3>2. CASE c # b
      BY <1>3, <3>2 DEF Same, NoClose
    <3>3. QED
      BY <3>1, <3>2
  <2>4. QED
    BY <1>1, <2>1, <2>2, <2>3 DEF FaultInv, ScriptInv, Unread
<1>9. LinkInv'
  <2>1. ASSUME NEW c \in Boards, NEW p \in Ports, <<c, p>> \notin socks
        PROVE  wire'[c][p] = 0
    <3>1. wire[c][p] = 0
      BY <2>1 DEF FaultInv, LinkInv
    <3>2. CASE c = b
      <4>1. left[p] \in Nat /\ left[p] <= 0
        BY <3>1, <3>2
      <4>2. QED
        BY <1>3, <3>2, <4>1
    <3>3. CASE c # b
      BY <1>3, <3>1, <3>3 DEF Same
    <3>4. QED
      BY <3>2, <3>3
  <2>2. ASSUME NEW c \in alive', stage = "starting"
        PROVE  Still(c)' /\ comm'[c] = <<>>
    <3>1. Still(c) /\ comm[c] = <<>> /\ c \in Boards /\ c # b
      BY <1>1, <2>2 DEF FaultInv, LinkInv, FaultType
    <3>2. QED
      BY <1>3, <1>7, <3>1 DEF Same
  <2>3. QED
    BY <1>1, <2>1, <2>2 DEF FaultInv, LinkInv
<1>10. BoardsInv'
  <2> SUFFICES ASSUME NEW c \in Boards
               PROVE  IF c \in alive' THEN RunInv(c)' ELSE EndedInv(c)'
    BY DEF BoardsInv
  <2>1. CASE c = b
    BY <1>1, <1>3, <2>1 DEF EndedInv
  <2>2. CASE c # b
    BY <1>1, <1>3, <2>2, SameRuns DEF FaultInv, BoardsInv
  <2>3. QED
    BY <2>1, <2>2
<1>11. StaysInSegment'
  <2> SUFFICES ASSUME NEW c \in Boards, NEW p \in Ports
               PROVE  Sent(c, p)' <= ServerLen(p)
    BY DEF StaysInSegment, ServerLen
  <2>1. Sent(c, p) <= ServerLen(p)
    BY DEF FaultInv, StaysInSegment
  <2>2. CASE c = b
    <3>1. /\ pidx[b][p] \in Nat /\ wire[b][p] \in Nat /\ left[p] \in Nat
          /\ left[p] <= wire[b][p] /\ ServerLen(p) \in Nat
          /\ pidx[b][p] + wire[b][p] <= ServerLen(p)
      BY <1>2, <2>1, <2>2, ConstantFacts DEF Sent
    <3>2. pidx[b][p] + left[p] <= ServerLen(p)
      BY <3>1
    <3>3. QED
      BY <1>1, <1>3, <2>2, <3>2 DEF Sent
  <2>3. CASE c # b
    BY <1>3, <2>1, <2>3 DEF Same, Sent
  <2>4. QED
    BY <2>2, <2>3
<1>12. QED
  BY <1>4, <1>8, <1>9, <1>10, <1>11 DEF FaultInv

(* A board's program in all its steps, while the server runs.              *)
LEMMA FaultBoardInv ==
  ASSUME FaultInv, up, NEW b \in Boards, FaultBoard(b)
  PROVE  FaultInv'
<1>1. ~BoardEof(b) /\ ~BoardEnds(b)
  BY DEF BoardEof, BoardEnds, FaultInv, FaultType
<1>2. CASE BoardCloses(b)
  <2> DEFINE left == wire[b]
  <2>1. /\ b \in alive /\ Gone(b) /\ wire' = wire /\ uiVars' = uiVars
        /\ serverVars' = serverVars /\ serverState' = serverState
        /\ stage' = stage
    BY <1>2 DEF BoardCloses, scriptState
  <2>2. /\ left \in [Ports -> Nat] /\ \A p \in Ports : left[p] <= wire[b][p]
        /\ wire' = [wire EXCEPT ![b] = left]
    BY <2>1 DEF FaultInv, FaultType
  <2> HIDE DEF left
  <2>3. QED
    BY <2>1, <2>2, GoneInv
<1>3. CASE ~BoardCloses(b)
  BY <1>1, <1>3, RunningInv DEF FaultBoard
<1>4. QED
  BY <1>2, <1>3

(* A program ends at any moment: its queue goes, and some of its bytes.    *)
LEMMA BoardDiesInv ==
  ASSUME FaultInv, NEW b \in Boards, BoardDies(b)
  PROVE  FaultInv'
<1>1. /\ b \in alive /\ Gone(b) /\ uiVars' = uiVars
      /\ serverVars' = serverVars /\ serverState' = serverState
      /\ stage' = stage
  BY DEF BoardDies
<1>2. PICK left \in [Ports -> 0..PacketSize] :
        /\ \A p \in Ports : left[p] <= wire[b][p]
        /\ wire' = [wire EXCEPT ![b] = left]
  BY DEF BoardDies
<1>3. left \in [Ports -> Nat]
  BY <1>2, RecordAssumption
<1>4. QED
  BY <1>1, <1>2, <1>3, GoneInv

(* A trigger changes nothing the invariant speaks of.                      *)
LEMMA FaultCaptureInv ==
  ASSUME FaultInv, NEW b \in Boards, FaultCapture(b)
  PROVE  FaultInv'
<1>1. /\ ui' = ui /\ ipcIn' = ipcIn /\ ipcOut' = ipcOut
      /\ recvIndividually' = recvIndividually /\ recvCount' = recvCount
      /\ pidx' = pidx /\ comm' = comm /\ wire' = wire /\ hps' = hps
      /\ order' = order /\ port' = port
      /\ socks' = socks /\ counted' = counted
      /\ alive' = alive /\ ending' = ending /\ stage' = stage
  BY DEF FaultCapture, Capture, uiVars, netVars, serverVars, serverState,
         scriptState
<1>2. QED
  BY <1>1, NothingChanges DEF LinksLost

-----------------------------------------------------------------------------
(* The server's messages *)

(* The server finds a comm socket closed: no data socket changes.          *)
LEMMA ServerDropsCommInv ==
  ASSUME FaultInv, NEW b \in Boards, ServerDropsComm(b)
  PROVE  FaultInv'
<1>1. /\ ui' = ui /\ ipcIn' = ipcIn /\ ipcOut' = ipcOut
      /\ recvIndividually' = recvIndividually /\ recvCount' = recvCount
      /\ pidx' = pidx /\ comm' = comm /\ wire' = wire /\ hps' = hps
      /\ order' = order /\ port' = port
      /\ counted' = counted /\ alive' = alive /\ ending' = ending
      /\ stage' = stage /\ socks' = socks \ {<<b, 0>>}
  BY DEF ServerDropsComm, CommPort, vars, uiVars, serverVars, netVars, boardVars,
         scriptState
<1>2. LinksLost
  BY <1>1, ConstantFacts DEF LinksLost
<1>3. QED
  BY <1>1, <1>2, NothingChanges

(* What the boards find in their queues when the server has sent m.        *)
LEMMA SentMessage ==
  ASSUME FaultType, NEW B, NEW m \in Message, SendTo(B, m, comm)
  PROVE  /\ comm' \in [Boards -> Seq(Message)]
         /\ \A b \in Boards : b \notin B \cap alive => comm'[b] = comm[b]
         /\ \A b \in Boards : b \in B \cap alive => comm'[b] = Append(comm[b], m)
<1>1. comm \in [Boards -> Seq(Message)]
  BY DEF FaultType, Message
<1>2. comm' = [b \in Boards |-> IF b \in B \cap alive THEN Append(comm[b], m)
                                                      ELSE comm[b]]
  BY DEF SendTo
<1>3. \A b \in Boards : Append(comm[b], m) \in Seq(Message)
  BY <1>1, AppendProperties
<1>4. QED
  BY <1>1, <1>2, <1>3

(* A query reaches the boards that run while none takes part in a pulse.   *)
LEMMA QueryRuns ==
  ASSUME FaultType, NEW b \in Boards, Still(b), NEW m \in Query,
         m.idx = 0, m.each = recvIndividually',
         comm'[b] = Append(comm[b], m),
         pidx'[b] = pidx[b], wire'[b] = wire[b], hps'[b] = hps[b],
         order'[b] = order[b], port'[b] = port[b]
  PROVE  RunInv(b)'
<1>1. comm[b] \in Seq(Message) /\ m \in Message
  BY DEF FaultType, Message
<1>2. /\ Len(comm'[b]) = Len(comm[b]) + 1 /\ Len(comm[b]) \in Nat
      /\ comm'[b][Len(comm[b]) + 1] = m
      /\ \A i \in 1..Len(comm[b]) : comm'[b][i] = comm[b][i]
  BY <1>1, MessageAppended
<1>3. \A i \in 1..Len(comm'[b]) :
        Comes(comm'[b], i) => i = Len(comm'[b]) /\ comm'[b][i] = m
  <2> SUFFICES ASSUME NEW i \in 1..Len(comm'[b]), Comes(comm'[b], i),
                      i # Len(comm'[b])
               PROVE  FALSE
    BY <1>2
  <2>1. i \in 1..Len(comm[b]) /\ \A j \in 1..i : j \in 1..Len(comm[b])
    BY <1>2
  <2>2. Comes(comm[b], i)
    BY <1>2, <2>1 DEF Comes
  <2>3. QED
    BY <2>1, <2>2 DEF Still, Resting, Awaits
<1>4. \A p \in Ports : pidx'[b][p] = 0 /\ wire'[b][p] = 0 /\ Sent(b, p)' = 0
  BY DEF Still, Sent
<1>5. hps'[b] # "sending" /\ ~HoldsOrder(b)'
  BY DEF Still, Resting, HoldsOrder, Orders, Trailing
<1>6. OrderFits(b, m)'
  BY <1>4, ConstantFacts DEF OrderFits
<1>7. OrdersFit(b)'
  <2> SUFFICES ASSUME NEW i \in 1..Len(comm'[b]), Comes(comm'[b], i)
               PROVE  i = Len(comm'[b]) /\ OrderFits(b, comm[b][i])'
    BY <1>5 DEF OrdersFit, Comes, Orders, Trailing, Close
  <2>1. i = Len(comm'[b]) /\ comm'[b][i] = m
    BY <1>3
  <2>2. QED
    BY <1>6, <2>1 DEF OrderFits
<1>8. WholePackets(b)' /\ InPortOrder(b)' /\ NoOrderMeanwhile(b)'
  BY <1>4 DEF WholePackets, InPortOrder, NoOrderMeanwhile
<1>9. HeldOrderFits(b)' /\ SendingFits(b)'
  BY <1>5 DEF HeldOrderFits, SendingFits
<1>10. QED
  BY <1>7, <1>8, <1>9 DEF RunInv

(* The query is read: the count is cleared while every counted board is    *)
(* still, and those that run get their first order.                        *)
LEMMA FaultServerQueryInv ==
  ASSUME FaultInv, FaultServerQuery
  PROVE  FaultInv'
<1> DEFINE m == [each |-> Head(ipcIn), idx |-> 0]
<1>1. /\ ipcIn # <<>> /\ Head(ipcIn) \in {0, 1}
      /\ ipcIn' = Tail(ipcIn) /\ recvIndividually' = Head(ipcIn) /\ recvCount' = 0
      /\ SendTo(counted, m, comm)
      /\ ui' = ui /\ ipcOut' = ipcOut /\ pidx' = pidx /\ wire' = wire
      /\ hps' = hps /\ order' = order /\ port' = port
      /\ socks' = socks /\ counted' = counted /\ alive' = alive
      /\ ending' = ending /\ stage' = stage
  BY DEF FaultServerQuery, boardVars, scriptState
<1>2. m \in Query /\ m.idx = 0 /\ m.each = recvIndividually' /\ m # Close
  BY <1>1, ConstantFacts DEF Query, Close, CloseProgram
<1> HIDE DEF m
<1>3. /\ comm' \in [Boards -> Seq(Message)]
      /\ \A b \in Boards : b \notin counted \cap alive => comm'[b] = comm[b]
      /\ \A b \in Boards : b \in counted \cap alive =>
           comm'[b] = Append(comm[b], m)
  BY <1>1, <1>2, SentMessage DEF FaultInv, Message
<1>4. /\ Rest /\ stage # "starting" /\ NoClose
      /\ counted \subseteq Boards /\ alive \subseteq counted
      /\ pidx \in [Boards -> [Ports -> Nat]]
  BY <1>1 DEF FaultInv, ScriptInv, Unread, LinkInv, FaultType
<1>5. FaultType'
  BY <1>1, <1>3 DEF FaultInv, FaultType, Message, Close
<1>6. RightCount'
  <2>1. OfCounted(pidx)' = OfCounted(pidx)
    BY <1>1 DEF OfCounted
  <2>2. \A b \in Boards, p \in Ports : OfCounted(pidx)[b][p] = 0
    BY <1>4 DEF OfCounted, Rest, Still
  <2>3. Cardinality(DeliveredBy(OfCounted(pidx))) = 0
    BY <2>2, NothingDelivered
  <2>4. DeliveredBy(OfCounted(pidx))' = DeliveredBy(OfCounted(pidx))
    BY <2>1 DEF DeliveredBy
  <2>5. QED
    BY <1>1, <2>3, <2>4 DEF RightCount
<1>7. NoClose'
  <2> SUFFICES ASSUME NEW b \in Boards, NEW i \in 1..Len(comm'[b])
               PROVE  comm'[b][i] # Close
    BY DEF NoClose, Close
  <2>1. CASE comm'[b] = comm[b]
    BY <1>4, <2>1 DEF NoClose
  <2>2. CASE comm'[b] # comm[b]
    <3>1. comm'[b] = Append(comm[b], m) /\ comm[b] \in Seq(Message) /\ m \in Message
      BY <1>2, <1>3, <2>2 DEF FaultInv, FaultType, Message
    <3>2. /\ Len(comm'[b]) = Len(comm[b]) + 1 /\ Len(comm[b]) \in Nat
          /\ comm'[b][Len(comm[b]) + 1] = m
          /\ \A j \in 1..Len(comm[b]) : comm'[b][j] = comm[b][j]
      BY <3>1, MessageAppended
    <3>3. i = Len(comm[b]) + 1 \/ i \in 1..Len(comm[b])
      BY <3>2
    <3>4. QED
      BY <1>2, <1>4, <3>2, <3>3 DEF NoClose
  <2>3. QED
    BY <2>1, <2>2
<1>8. ScriptInv'
  <2>1. CASE stage = "normal"
    <3>1. ui = "waiting" /\ ipcIn \in {<<0>>, <<1>>} /\ ipcOut = 0
      BY <1>1, <2>1 DEF FaultInv, ScriptInv
    <3>2. ipcIn' = <<>>
      BY <1>1, <3>1
    <3>3. QED
      BY <1>1, <1>6, <1>7, <2>1, <3>1, <3>2 DEF ScriptInv, Unread
  <2>2. CASE stage = "closing"
    <3>1. ui = "ready" /\ ipcIn \in {<<0, 2>>, <<1, 2>>}
      <4>1. Head(<<2>>) = 2
        OBVIOUS
      <4>2. QED
        BY <1>1, <2>2, <4>1 DEF FaultInv, ScriptInv
    <3>2. ipcIn' = <<2>> /\ Head(<<2>>) = 2
      <4>1. Tail(<<0, 2>>) = <<2>> /\ Tail(<<1, 2>>) = <<2>> /\ Head(<<2>>) = 2
        BY SecondMessage
      <4>2. QED
        BY <1>1, <3>1, <4>1
    <3>3. ~Unread'
      BY <3>2 DEF Unread
    <3>4. QED
      BY <1>1, <1>6, <1>7, <2>2, <3>1, <3>2, <3>3 DEF ScriptInv
  <2>3. CASE stage = "over"
    <3>1. ui = "ready" /\ ipcIn \in {<<0, 3>>, <<1, 3>>}
      <4>1. Head(<<3>>) = 3
        OBVIOUS
      <4>2. QED
        BY <1>1, <2>3, <4>1 DEF FaultInv, ScriptInv
    <3>2. ipcIn' = <<3>> /\ Head(<<3>>) = 3
      <4>1. Tail(<<0, 3>>) = <<3>> /\ Tail(<<1, 3>>) = <<3>> /\ Head(<<3>>) = 3
        BY SecondMessage
      <4>2. QED
        BY <1>1, <3>1, <4>1
    <3>3. ~Unread'
      BY <3>2 DEF Unread
    <3>4. QED
      BY <1>1, <1>6, <1>7, <2>3, <3>1, <3>2, <3>3 DEF ScriptInv
  <2>4. QED
    BY <1>4, <2>1, <2>2, <2>3 DEF FaultInv, FaultType
<1>9. LinkInv'
  BY <1>1, <1>4 DEF FaultInv, LinkInv
<1>10. BoardsInv'
  <2> SUFFICES ASSUME NEW b \in Boards
               PROVE  IF b \in alive THEN RunInv(b)' ELSE EndedInv(b)'
    BY <1>1 DEF BoardsInv
  <2>1. CASE b \in alive
    <3>1. b \in counted /\ Still(b) /\ comm'[b] = Append(comm[b], m)
      BY <1>3, <1>4, <2>1 DEF Rest
    <3>2. QED
      BY <1>1, <1>2, <2>1, <3>1, QueryRuns DEF FaultInv
  <2>2. CASE b \notin alive
    BY <1>1, <1>3, <2>2 DEF FaultInv, BoardsInv, EndedInv
  <2>3. QED
    BY <2>1, <2>2
<1>11. StaysInSegment'
  BY <1>1 DEF FaultInv, StaysInSegment, Sent
<1>12. QED
  BY <1>5, <1>8, <1>9, <1>10, <1>11 DEF FaultInv

(* A message to close follows what the board still has to do.              *)
LEMMA CloseRuns ==
  ASSUME FaultType, NEW b \in Boards, comm'[b] = Append(comm[b], Close),
         recvIndividually' = recvIndividually, pidx'[b] = pidx[b],
         wire'[b] = wire[b], hps'[b] = hps[b],
         order'[b] = order[b], port'[b] = port[b]
  PROVE  /\ Resting(b) => Resting(b)'
         /\ RunInv(b) => RunInv(b)'
<1> DEFINE q == comm[b]
           a == comm'[b]
<1>1. q \in Seq(Message) /\ Close \in Message
  BY DEF FaultType, Message
<1>2. /\ Len(a) = Len(q) + 1 /\ Len(q) \in Nat
      /\ a[Len(q) + 1] = Close
      /\ \A i \in 1..Len(q) : a[i] = q[i]
      /\ \A i \in 1..Len(a) : Comes(a, i) => i \in 1..Len(q) /\ Comes(q, i)
  BY <1>1, MessageAppended
<1>3. Resting(b) => Resting(b)'
  <2>1. Awaits(b)' => Awaits(b)
    BY <1>2 DEF Awaits, Comes, Orders, Trailing, Close
  <2>2. QED
    BY <2>1 DEF Resting, HoldsOrder, Orders, Trailing
<1>4. ASSUME RunInv(b) PROVE RunInv(b)'
  <2>1. \A p \in Ports : Sent(b, p)' = Sent(b, p)
    BY DEF Sent
  <2>2. HoldsOrder(b)' <=> HoldsOrder(b)
    BY DEF HoldsOrder, Orders, Trailing
  <2>3. OrdersFit(b)'
    <3> SUFFICES ASSUME NEW i \in 1..Len(a), Comes(a, i)
                 PROVE  /\ a[i + 1] = Close
                        /\ hps[b] # "sending" /\ ~HoldsOrder(b)
                        /\ OrderFits(b, comm[b][i])'
      BY <2>2 DEF OrdersFit, Comes, Orders, Trailing, Close
    <3>1. /\ i \in 1..Len(q) /\ a[i] = q[i]
          /\ i = Len(q) \/ q[i + 1] = Close
          /\ hps[b] # "sending" /\ ~HoldsOrder(b) /\ OrderFits(b, q[i])
      BY <1>2, <1>4 DEF RunInv, OrdersFit
    <3>2. a[i + 1] = Close
      <4>1. CASE i = Len(q)
        BY <1>2, <4>1
      <4>2. CASE i # Len(q)
        <5>1. i + 1 \in 1..Len(q)
          BY <1>2, <3>1, <4>2
        <5>2. QED
          BY <1>2, <3>1, <4>2, <5>1
      <4>3. QED
        BY <4>1, <4>2
    <3>3. OrderFits(b, comm[b][i])'
      BY <2>1, <3>1 DEF OrderFits
    <3>4. QED
      BY <3>1, <3>2, <3>3
  <2>4. WholePackets(b)' /\ InPortOrder(b)'
    BY <1>4, <2>1 DEF RunInv, WholePackets, InPortOrder
  <2>5. HeldOrderFits(b)'
    BY <1>4, <2>1, <2>2 DEF RunInv, HeldOrderFits, OrderFits
  <2>6. SendingFits(b)'
    BY <1>4, <2>1 DEF RunInv, SendingFits, Orders, Trailing
  <2>7. NoOrderMeanwhile(b)'
    BY <1>3, <1>4 DEF RunInv, NoOrderMeanwhile
  <2>8. QED
    BY <2>3, <2>4, <2>5, <2>6, <2>7 DEF RunInv
<1>5. QED
  BY <1>3, <1>4

(* The message to close goes behind whatever order a board has.            *)
LEMMA ServerCloseInv ==
  ASSUME FaultInv, ServerClose, up'
  PROVE  FaultInv'
<1>1. /\ ipcIn # <<>> /\ Head(ipcIn) = 2
      /\ ipcIn' = Tail(ipcIn)
      /\ SendTo(counted, Close, comm)
      /\ ui' = ui /\ ipcOut' = ipcOut /\ pidx' = pidx /\ wire' = wire
      /\ recvIndividually' = recvIndividually /\ recvCount' = recvCount
      /\ hps' = hps /\ order' = order /\ port' = port
      /\ socks' = socks /\ counted' = counted /\ alive' = alive
      /\ ending' = ending /\ stage' = stage
  BY DEF ServerClose, CloseProgram, ShutdownServer, boardVars, scriptState,
         serverVars
<1>2. /\ comm' \in [Boards -> Seq(Message)]
      /\ \A b \in Boards : b \notin counted \cap alive => comm'[b] = comm[b]
      /\ \A b \in Boards : b \in counted \cap alive =>
           comm'[b] = Append(comm[b], Close)
  BY <1>1, SentMessage DEF FaultInv, Message
<1>3. ipcIn = <<2>> /\ stage = "closing"
  <2>1. /\ Head(<<0>>) = 0 /\ Head(<<1>>) = 1 /\ Head(<<0, 2>>) = 0
        /\ Head(<<1, 2>>) = 1 /\ Head(<<3>>) = 3 /\ Head(<<0, 3>>) = 0
        /\ Head(<<1, 3>>) = 1
    OBVIOUS
  <2>2. /\ stage = "normal" => ipcIn \in {<<>>, <<0>>, <<1>>}
        /\ stage = "closing" => ipcIn \in {<<>>, <<2>>, <<0, 2>>, <<1, 2>>}
        /\ stage = "starting" => ipcIn = <<>>
        /\ stage = "over" => ipcIn \in {<<3>>, <<0, 3>>, <<1, 3>>}
        /\ stage \in {"normal", "closing", "starting", "over"}
    BY DEF FaultInv, ScriptInv, FaultType
  <2>3. QED
    BY <1>1, <2>1, <2>2
<1>4. FaultType'
  BY <1>1, <1>2 DEF FaultInv, FaultType, Message, Close
<1>5. \A b \in Boards : /\ Still(b) => Still(b)'
                        /\ RunInv(b) => RunInv(b)'
  <2> SUFFICES ASSUME NEW b \in Boards
               PROVE  /\ Still(b) => Still(b)'
                      /\ RunInv(b) => RunInv(b)'
    OBVIOUS
  <2>1. CASE comm'[b] = comm[b]
    BY <1>1, <2>1, SameRuns DEF Same
  <2>2. CASE comm'[b] # comm[b]
    <3>1. comm'[b] = Append(comm[b], Close)
      BY <1>2, <2>2
    <3>2. QED
      BY <1>1, <3>1, CloseRuns DEF FaultInv, Still
  <2>3. QED
    BY <2>1, <2>2
<1>6. ScriptInv'
  <2>1. ipcIn' = <<>> /\ ui = "ready" /\ (Rest \/ RightCount)
    BY <1>1, <1>3 DEF FaultInv, ScriptInv
  <2>2. Rest => Rest'
    BY <1>1, <1>5 DEF Rest, FaultInv, FaultType
  <2>3. RightCount => RightCount'
    BY <1>1, CountFrame
  <2>4. QED
    BY <1>1, <1>3, <2>1, <2>2, <2>3 DEF ScriptInv, Unread
<1>7. LinkInv'
  BY <1>1, <1>3 DEF FaultInv, LinkInv
<1>8. BoardsInv'
  BY <1>1, <1>2, <1>5 DEF FaultInv, BoardsInv, EndedInv
<1>9. StaysInSegment'
  BY <1>1 DEF FaultInv, StaysInSegment, Sent
<1>10. QED
  BY <1>4, <1>6, <1>7, <1>8, <1>9 DEF FaultInv

-----------------------------------------------------------------------------
(* The bytes of the counted boards *)

(* Once their number is the total, each of them has delivered everything.  *)
LEMMA AllCountedDelivered ==
  ASSUME counted \subseteq Boards, NEW f \in Readings,
         Cardinality(DeliveredBy(OfCounted(f))) = CountedTotal,
         NEW b \in counted, NEW p \in Ports
  PROVE  f[b][p] = ServerLen(p)
<1> DEFINE g == OfCounted(f)
           U == counted \X (0..(RecLen - 1))
<1>1. /\ f \in [Boards -> [Ports -> Nat]]
      /\ \A c \in Boards, q \in Ports : f[c][q] <= ServerLen(q)
      /\ \A q \in Ports : ServerLen(q) \in Nat
  BY ConstantFacts DEF Readings
<1>2. /\ g \in [Boards -> [Ports -> Nat]]
      /\ \A c \in Boards : c \notin counted => \A q \in Ports : g[c][q] = 0
      /\ \A c \in counted : c \in Boards /\ g[c] = f[c]
      /\ \A c \in Boards, q \in Ports : g[c][q] <= ServerLen(q)
  BY <1>1 DEF OfCounted
<1>3. g \in Readings
  BY <1>2 DEF Readings
<1> HIDE DEF g
<1>4. DeliveredBy(g) \subseteq U
  <2> SUFFICES ASSUME NEW u \in DeliveredBy(g) PROVE u \in U
    OBVIOUS
  <2>1. u \in Units /\ u[1] \in Boards /\ u = <<u[1], u[2]>>
    BY <1>3, DeliveredInUnits, DeliveredShape
  <2>2. u[2] \in 0..(RecLen - 1)
    BY <2>1 DEF Units
  <2>3. <<u[1], u[2]>> \in DeliveredBy(g)
    BY <2>1, Zenon
  <2>4. \A c \in Boards : \A x : <<c, x>> \in DeliveredBy(g) =>
          \E q \in Ports : \E i \in 0..(PacketSize - 1) :
             i < g[c][q] /\ x = RecordOffset(q, i)
    BY DeliveredMember
  <2>5. PICK q \in Ports, i \in 0..(PacketSize - 1) : i < g[u[1]][q]
    BY <2>1, <2>3, <2>4
  <2>6. u[1] \in counted
    BY <1>2, <2>1, <2>5, RecordAssumption
  <2>7. QED
    BY <2>1, <2>2, <2>6
<1>5. IsFiniteSet(U) /\ Cardinality(U) = CountedTotal
  <2>1. IsFiniteSet(0..(RecLen - 1)) /\ Cardinality(0..(RecLen - 1)) = RecLen
    BY FS_Interval, RecordAssumption
  <2>2. IsFiniteSet(counted) /\ Cardinality(counted) \in Nat
    BY BoardsAssumption, FS_Subset, FS_CardinalityType
  <2>3. IsFiniteSet(U) /\ Cardinality(U) = Cardinality(counted) * RecLen
    BY <2>1, <2>2, FS_Product
  <2>4. Cardinality(counted) * RecLen = RecLen * Cardinality(counted)
    BY <2>2, RecordAssumption
  <2>5. QED
    BY <2>3, <2>4 DEF CountedTotal
<1>6. DeliveredBy(g) = U
  <2>1. Cardinality(DeliveredBy(g)) = Cardinality(U)
    BY <1>5 DEF g
  <2> HIDE DEF U
  <2>2. QED
    BY <1>4, <1>5, <2>1, FS_Subset
<1> DEFINE last == ServerLen(p) - 1
<1>7. /\ ServerLen(p) \in 1..PacketSize /\ PacketSize \in Nat
      /\ last \in 0..(ServerLen(p) - 1) /\ last \in 0..(PacketSize - 1)
  BY ServerLenRange, RecordAssumption
<1>8. <<b, RecordOffset(p, last)>> \in DeliveredBy(g)
  BY <1>6, <1>7, OffsetInRecord
<1>9. PICK q \in Ports, j \in 0..(PacketSize - 1) :
         j < g[b][q] /\ RecordOffset(p, last) = RecordOffset(q, j)
  BY <1>2, <1>8, DeliveredMember
<1>10. q = p /\ j = last
  BY <1>7, <1>9, OffsetInjective
<1>11. f[b][p] \in Nat /\ f[b][p] <= ServerLen(p) /\ last < f[b][p]
  BY <1>1, <1>2, <1>9, <1>10
<1>12. QED
  BY <1>7, <1>11

(* The k bytes of a recv from a counted board are new.                     *)
LEMMA CountedArrival ==
  ASSUME counted \subseteq Boards, NEW f \in Readings, NEW b \in counted,
         NEW p \in Ports, NEW k \in Nat \ {0}, f[b][p] + k <= ServerLen(p),
         NEW g, Advances(f, g, b, p, k)
  PROVE  /\ g \in Readings
         /\ Cardinality(DeliveredBy(OfCounted(g)))
              = Cardinality(DeliveredBy(OfCounted(f))) + k
<1>1. b \in Boards /\ f \in [Boards -> [Ports -> Nat]]
      /\ \A c \in Boards, q \in Ports : f[c][q] <= ServerLen(q)
  BY DEF Readings
<1>2. g \in Readings
  BY <1>1, Arrival
<1>3. \A c \in Boards, q \in Ports :
        /\ OfCounted(f)[c][q] = IF c \in counted THEN f[c][q] ELSE 0
        /\ OfCounted(g)[c][q] = IF c \in counted THEN g[c][q] ELSE 0
  BY DEF OfCounted
<1>4. OfCounted(f) \in [Boards -> [Ports -> Nat]]
      /\ OfCounted(g) \in [Boards -> [Ports -> Nat]]
  BY <1>1 DEF OfCounted, Advances
<1>5. OfCounted(f) \in Readings
  <2>1. ASSUME NEW c \in Boards, NEW q \in Ports
        PROVE  OfCounted(f)[c][q] <= ServerLen(q)
    <3>1. 0 <= ServerLen(q) /\ f[c][q] <= ServerLen(q)
      BY <1>1, ConstantFacts
    <3>2. QED
      BY <1>3, <3>1
  <2>2. QED
    BY <1>4, <2>1 DEF Readings
<1>6. Advances(OfCounted(f), OfCounted(g), b, p, k)
  BY <1>1, <1>3, <1>4 DEF Advances
<1>7. OfCounted(f)[b][p] + k <= ServerLen(p)
  BY <1>1, <1>3
<1>8. Cardinality(DeliveredBy(OfCounted(g)))
        = Cardinality(DeliveredBy(OfCounted(f))) + k
  BY <1>1, <1>5, <1>6, <1>7, Arrival
<1>9. QED
  BY <1>2, <1>8

-----------------------------------------------------------------------------
(* The server receives *)

(* A board that has sent its last port has no order left.                  *)
LEMMA RestsAfterLast ==
  ASSUME FaultType, NEW b \in Boards, RunInv(b), Sent(b, NumPorts) # 0
  PROVE  Resting(b)
<1>1. NumPorts \in Ports /\ NumPorts \in Nat \ {0} /\ Ports = 1..NumPorts
  BY ConstantFacts
<1>2. ASSUME NEW m \in Query, Orders(m), OrderFits(b, m)
      PROVE  FALSE
  <2>1. m.each \in {0, 1} /\ m.idx \in 0..NumPorts
    BY DEF Query
  <2>2. NumPorts > m.idx
    BY <1>1, <1>2, <2>1 DEF Orders, Trailing, OrderFits
  <2>3. QED
    BY <1>1, <1>2, <2>2 DEF OrderFits
<1>3. hps[b] # "sending"
  <2> SUFFICES ASSUME hps[b] = "sending" PROVE FALSE
    OBVIOUS
  <2>1. port[b] \in Ports /\ \A p \in Ports : p >= port[b] => Sent(b, p) = 0
    BY DEF RunInv, SendingFits
  <2>2. NumPorts >= port[b]
    BY <1>1, <2>1
  <2>3. QED
    BY <1>1, <2>1, <2>2
<1>4. ~HoldsOrder(b)
  <2>1. order[b] \in Query
    BY DEF FaultType
  <2>2. QED
    BY <1>2, <2>1 DEF RunInv, HeldOrderFits, HoldsOrder
<1>5. ~Awaits(b)
  <2> SUFFICES ASSUME NEW i \in 1..Len(comm[b]), Comes(comm[b], i) PROVE FALSE
    BY DEF Awaits
  <2>1. comm[b] \in Seq(Message)
    BY DEF FaultType, Message
  <2>2. comm[b][i] \in Message
    BY <2>1
  <2>3. Len(comm[b]) \in Nat /\ i \in 1..i
    BY <2>1
  <2>4. comm[b][i] # Close /\ Orders(comm[b][i])
    BY <2>3 DEF Comes
  <2>5. comm[b][i] \in Query
    BY <2>2, <2>4 DEF Message
  <2>6. OrderFits(b, comm[b][i])
    BY DEF RunInv, OrdersFit
  <2>7. QED
    BY <1>2, <2>4, <2>5, <2>6
<1>6. QED
  BY <1>3, <1>4, <1>5 DEF Resting

(* When bytes of port p are under way from a board that runs, the record   *)
(* has been sent up to p and no order is about; in one-at-a-time mode p is *)
(* the only port under way and the board rests.                            *)
LEMMA ArrivalAt ==
  ASSUME FaultType, NEW b \in Boards, RunInv(b), NEW p \in Ports, wire[b][p] # 0
  PROVE  /\ Sent(b, p) = ServerLen(p)
         /\ pidx[b][p] # ServerLen(p)
         /\ ~HoldsOrder(b) /\ ~Awaits(b)
         /\ recvIndividually = 1 =>
              /\ \A q \in Ports : q < p => pidx[b][q] = ServerLen(q)
              /\ \A q \in Ports : q > p => Sent(b, q) = 0
              /\ \A q \in Ports : q # p => wire[b][q] = 0
              /\ Resting(b)
<1>1. \A q \in Ports : /\ pidx[b][q] \in Nat /\ wire[b][q] \in Nat
                       /\ ServerLen(q) \in Nat \ {0} /\ q \in Nat \ {0}
  <2>1. \A q \in Ports : pidx[b][q] \in Nat /\ wire[b][q] \in Nat
    BY DEF FaultType
  <2>2. \A q \in Ports : ServerLen(q) \in Nat \ {0}
    BY ConstantFacts
  <2>3. \A q \in Ports : q \in Nat \ {0}
    BY ConstantFacts
  <2>4. QED
    BY <2>1, <2>2, <2>3
<1>2. Sent(b, p) = ServerLen(p) /\ pidx[b][p] # ServerLen(p) /\ Sent(b, p) # 0
  <2>1. Sent(b, p) \in {0, ServerLen(p)} /\ ServerLen(p) \in Nat \ {0}
    BY <1>1 DEF RunInv, WholePackets
  <2>2. wire[b][p] \in Nat \ {0} /\ pidx[b][p] \in Nat
    BY <1>1
  <2>3. QED
    BY <2>1, <2>2 DEF Sent
<1>3. \A q \in Ports :
        q < p => /\ Sent(b, q) = ServerLen(q)
                 /\ recvIndividually = 1 => pidx[b][q] = ServerLen(q)
  BY <1>2 DEF RunInv, InPortOrder
<1>4. ASSUME recvIndividually = 1
      PROVE  /\ \A q \in Ports : q > p => Sent(b, q) = 0
             /\ \A q \in Ports : q # p => wire[b][q] = 0
             /\ Resting(b)
  <2>1. ASSUME NEW q \in Ports, q > p
        PROVE  Sent(b, q) = 0
    <3>1. p < q
      BY <1>1, <2>1
    <3>2. QED
      BY <1>2, <1>4, <3>1 DEF RunInv, InPortOrder
  <2>2. ASSUME NEW q \in Ports, q # p
        PROVE  wire[b][q] = 0
    <3>1. CASE q < p
      <4>1. pidx[b][q] = ServerLen(q) /\ Sent(b, q) = ServerLen(q)
        BY <1>3, <1>4, <3>1
      <4>2. /\ pidx[b][q] \in Nat /\ wire[b][q] \in Nat
            /\ pidx[b][q] + wire[b][q] = pidx[b][q]
        BY <1>1, <4>1 DEF Sent
      <4>3. QED
        BY <4>2
    <3>2. CASE q > p
      <4>1. Sent(b, q) = 0 /\ pidx[b][q] \in Nat /\ wire[b][q] \in Nat
        BY <1>1, <2>1, <3>2
      <4>2. QED
        BY <4>1 DEF Sent
    <3>3. p \in Nat /\ q \in Nat
      BY <1>1
    <3>4. QED
      BY <2>2, <3>1, <3>2, <3>3
  <2>3. Resting(b)
    BY <1>4 DEF RunInv, NoOrderMeanwhile
  <2>4. QED
    BY <2>1, <2>2, <2>3
<1>5. ASSUME recvIndividually = 0
      PROVE  ~HoldsOrder(b) /\ ~Awaits(b)
  <2>1. ASSUME NEW m, OrderFits(b, m) PROVE FALSE
    <3>1. m.idx = 0 /\ p > 0
      BY <1>1, <1>5, <2>1 DEF OrderFits
    <3>2. Sent(b, p) = 0
      BY <2>1, <3>1 DEF OrderFits
    <3>3. QED
      BY <1>2, <3>2
  <2>2. QED
    BY <2>1 DEF RunInv, HeldOrderFits, OrdersFit, Awaits
<1>6. recvIndividually \in {0, 1}
  BY DEF FaultType
<1>7. QED
  BY <1>2, <1>3, <1>4, <1>5, <1>6 DEF Resting

(* A recv of k bytes from port p of a board, which leaves its indexes at n. *)
Takes(b, p, k, n) ==
  /\ k <= wire[b][p]
  /\ n \in [Ports -> Nat] /\ n[p] = pidx[b][p] + k
  /\ wire'[b] \in [Ports -> Nat] /\ wire'[b][p] = wire[b][p] - k
  /\ \A q \in Ports : q # p => n[q] = pidx[b][q] /\ wire'[b][q] = wire[b][q]
  /\ recvIndividually' = recvIndividually
  /\ hps'[b] = hps[b] /\ order'[b] = order[b] /\ port'[b] = port[b]

(* The order for the next packet, if the board runs to get one.            *)
NextOrdered(b, p, n) ==
  \/ comm'[b] = comm[b]
  \/ /\ recvIndividually = 1 /\ n[p] = ServerLen(p)
     /\ comm'[b] = Append(comm[b], [each |-> 1, idx |-> p])

(* What is new in the queue of a board that runs.                          *)
LEMMA NextOrder ==
  ASSUME FaultType, NEW b \in Boards, RunInv(b), NEW p \in Ports, wire[b][p] # 0,
         NEW n, NextOrdered(b, p, n),
         NEW i \in 1..Len(comm'[b]), Comes(comm'[b], i)
  PROVE  /\ i = Len(comm'[b])
         /\ comm'[b][i] = [each |-> 1, idx |-> p]
         /\ recvIndividually = 1 /\ n[p] = ServerLen(p)
         /\ p # NumPorts
<1> DEFINE m == [each |-> 1, idx |-> p]
<1>1. comm[b] \in Seq(Message) /\ m \in Message
  BY ConstantFacts DEF FaultType, Message, Query
<1>2. ~Awaits(b)
  BY ArrivalAt
<1>3. comm'[b] # comm[b]
  <2> SUFFICES ASSUME comm'[b] = comm[b] PROVE FALSE
    OBVIOUS
  <2>1. Awaits(b)
    BY DEF Awaits
  <2>2. QED
    BY <1>2, <2>1
<1>4. /\ recvIndividually = 1 /\ n[p] = ServerLen(p)
      /\ comm'[b] = Append(comm[b], m)
  BY <1>3 DEF NextOrdered
<1> HIDE DEF m
<1>5. /\ Len(comm'[b]) = Len(comm[b]) + 1 /\ Len(comm[b]) \in Nat
      /\ comm'[b][Len(comm[b]) + 1] = m
      /\ \A j \in 1..Len(comm[b]) : comm'[b][j] = comm[b][j]
  BY <1>1, <1>4, MessageAppended
<1>6. i = Len(comm'[b])
  <2> SUFFICES ASSUME i # Len(comm'[b]) PROVE FALSE
    OBVIOUS
  <2>1. i \in 1..Len(comm[b]) /\ \A j \in 1..i : j \in 1..Len(comm[b])
    BY <1>5
  <2>2. Comes(comm[b], i)
    BY <1>5, <2>1 DEF Comes
  <2>3. QED
    BY <1>2, <2>1, <2>2 DEF Awaits
<1>7. comm'[b][i] = m /\ Orders(m)
  BY <1>5, <1>6 DEF Comes
<1>8. p # NumPorts
  BY <1>7 DEF m, Orders, Trailing
<1>9. QED
  BY <1>4, <1>6, <1>7, <1>8 DEF m

(* More is to come: the board's invariant holds with the new indexes.      *)
LEMMA ReceivedRuns ==
  ASSUME FaultType, NEW b \in Boards, RunInv(b), NEW p \in Ports, wire[b][p] # 0,
         NEW k \in Nat \ {0}, NEW n, Takes(b, p, k, n), NextOrdered(b, p, n),
         pidx'[b] = n
  PROVE  RunInv(b)'
<1>1. \A q \in Ports : /\ pidx[b][q] \in Nat /\ wire[b][q] \in Nat
                       /\ n[q] \in Nat /\ wire'[b][q] \in Nat
                       /\ ServerLen(q) \in Nat \ {0} /\ q \in Nat \ {0}
  <2>1. \A q \in Ports : /\ pidx[b][q] \in Nat /\ wire[b][q] \in Nat
                         /\ n[q] \in Nat /\ wire'[b][q] \in Nat
    BY DEF FaultType, Takes
  <2>2. \A q \in Ports : ServerLen(q) \in Nat \ {0}
    BY ConstantFacts
  <2>3. \A q \in Ports : q \in Nat \ {0}
    BY ConstantFacts
  <2>4. QED
    BY <2>1, <2>2, <2>3
<1>2. /\ Sent(b, p) = ServerLen(p)
      /\ pidx[b][p] # ServerLen(p)
      /\ ~HoldsOrder(b) /\ ~Awaits(b)
      /\ recvIndividually = 1 =>
           /\ \A q \in Ports : q < p => pidx[b][q] = ServerLen(q)
           /\ \A q \in Ports : q > p => Sent(b, q) = 0
           /\ \A q \in Ports : q # p => wire[b][q] = 0
           /\ Resting(b)
  BY ArrivalAt
<1>3. /\ recvIndividually' = recvIndividually /\ hps'[b] = hps[b]
      /\ order'[b] = order[b] /\ port'[b] = port[b]
  BY DEF Takes
<1>4. \A q \in Ports : Sent(b, q)' = Sent(b, q)
  <2> SUFFICES ASSUME NEW q \in Ports PROVE n[q] + wire'[b][q] = Sent(b, q)
    BY DEF Sent
  <2>1. CASE q = p
    <3>1. n[q] = pidx[b][q] + k /\ wire'[b][q] = wire[b][q] - k
      BY <2>1 DEF Takes
    <3>2. QED
      BY <1>1, <3>1 DEF Sent
  <2>2. CASE q # p
    BY <2>2 DEF Takes, Sent
  <2>3. QED
    BY <2>1, <2>2
<1>5. \A q \in Ports : pidx[b][q] = ServerLen(q) => pidx'[b][q] = ServerLen(q)
  BY <1>2 DEF Takes
<1>6. WholePackets(b)' /\ InPortOrder(b)'
  BY <1>3, <1>4, <1>5 DEF RunInv, WholePackets, InPortOrder
<1>7. ~HoldsOrder(b)' /\ HeldOrderFits(b)'
  BY <1>2, <1>3 DEF HeldOrderFits, HoldsOrder, Orders, Trailing
<1>8. SendingFits(b)'
  <2> SUFFICES ASSUME hps[b] = "sending" PROVE SendingFits(b)'
    BY <1>3 DEF SendingFits
  <2>1. recvIndividually # 1
    BY <1>2 DEF Resting
  <2>2. QED
    BY <1>3, <1>4, <2>1 DEF RunInv, SendingFits, Orders, Trailing
<1>9. OrdersFit(b)'
  <2> SUFFICES ASSUME NEW i \in 1..Len(comm'[b]), Comes(comm'[b], i)
               PROVE  /\ i = Len(comm'[b])
                      /\ hps[b] # "sending"
                      /\ OrderFits(b, comm[b][i])'
    BY <1>3, <1>7 DEF OrdersFit, Comes, Orders, Trailing, Close
  <2> DEFINE m == [each |-> 1, idx |-> p]
  <2>1. /\ i = Len(comm'[b]) /\ comm'[b][i] = m
        /\ recvIndividually = 1 /\ n[p] = ServerLen(p)
    BY NextOrder
  <2>2. m.each = 1 /\ m.idx = p
    OBVIOUS
  <2> HIDE DEF m
  <2>3. hps[b] # "sending"
    BY <1>2, <2>1 DEF Resting
  <2>4. ASSUME NEW q \in Ports, q <= p PROVE pidx'[b][q] = ServerLen(q)
    <3>1. CASE q = p
      BY <2>1, <3>1
    <3>2. CASE q < p
      BY <1>2, <1>5, <2>1, <3>2
    <3>3. QED
      BY <1>1, <2>4, <3>1, <3>2
  <2>5. \A q \in Ports : q > p => Sent(b, q)' = 0
    BY <1>2, <1>4, <2>1
  <2>6. OrderFits(b, comm[b][i])'
    <3>1. comm'[b][i].each = recvIndividually' /\ comm'[b][i].idx = p
          /\ comm'[b][i].each # 0
      BY <1>3, <2>1, <2>2
    <3>2. QED
      BY <2>4, <2>5, <3>1 DEF OrderFits
  <2>7. QED
    BY <2>1, <2>3, <2>6
<1>10. NoOrderMeanwhile(b)'
  <2> SUFFICES ASSUME recvIndividually = 1, NEW q \in Ports, wire'[b][q] # 0
               PROVE  Resting(b)'
    BY <1>3 DEF NoOrderMeanwhile
  <2>1. q = p
    BY <1>2 DEF Takes
  <2>2. n[p] # ServerLen(p)
    <3>1. n[p] + wire'[b][p] = ServerLen(p)
      BY <1>2, <1>4 DEF Sent
    <3>2. QED
      BY <1>1, <2>1, <3>1
  <2>3. ~Awaits(b)'
    <3>1. \A i \in 1..Len(comm'[b]) : ~Comes(comm'[b], i)
      BY <2>2, NextOrder
    <3>2. QED
      BY <3>1 DEF Awaits, Comes, Orders, Trailing, Close
  <2>4. QED
    BY <1>2, <1>3, <1>7, <2>3 DEF Resting
<1>11. QED
  BY <1>6, <1>7, <1>8, <1>9, <1>10 DEF RunInv

(* Everything has come: the board has nothing left to do.                  *)
LEMMA ReceivedRests ==
  ASSUME FaultType, NEW b \in Boards, RunInv(b), NEW p \in Ports, wire[b][p] # 0,
         NEW k \in Nat \ {0}, NEW n, Takes(b, p, k, n), NextOrdered(b, p, n),
         \A q \in Ports : n[q] = ServerLen(q)
  PROVE  Resting(b)'
<1>1. NumPorts \in Ports /\ ServerLen(NumPorts) \in Nat \ {0}
      /\ \A q \in Ports : q <= NumPorts /\ q \in Nat /\ NumPorts \in Nat
  BY ConstantFacts
<1>2. pidx[b][NumPorts] \in Nat /\ wire[b][NumPorts] \in Nat
      /\ pidx[b][p] \in Nat /\ wire[b][p] \in Nat
  BY <1>1 DEF FaultType
<1>3. Sent(b, NumPorts) # 0
  <2>1. CASE p = NumPorts
    BY <1>2, <2>1 DEF Sent
  <2>2. CASE p # NumPorts
    <3>1. pidx[b][NumPorts] = ServerLen(NumPorts)
      BY <1>1, <2>2 DEF Takes
    <3>2. QED
      BY <1>1, <1>2, <3>1 DEF Sent
  <2>3. QED
    BY <2>1, <2>2
<1>4. Resting(b)
  BY <1>3, RestsAfterLast
<1>5. ~Awaits(b)'
  <2>1. ASSUME NEW i \in 1..Len(comm'[b]), Comes(comm'[b], i) PROVE FALSE
    <3>1. recvIndividually = 1 /\ p # NumPorts
      BY <2>1, NextOrder
    <3>2. NumPorts > p
      BY <1>1, <3>1
    <3>3. Sent(b, NumPorts) = 0
      BY <1>1, <3>1, <3>2, ArrivalAt
    <3>4. QED
      BY <1>3, <3>3
  <2>2. QED
    BY <2>1 DEF Awaits, Comes, Orders, Trailing, Close
<1>6. hps'[b] # "sending" /\ ~HoldsOrder(b)'
  BY <1>4 DEF Takes, Resting, HoldsOrder, Orders, Trailing
<1>7. QED
  BY <1>5, <1>6 DEF Resting

(* The server counts a pulse complete, with every counted board at rest    *)
(* and nothing on its wires.                                               *)
LEMMA PulseEnds ==
  ASSUME FaultInv, stage # "starting", stage = "normal" => Active,
         wire' \in [Boards -> [Ports -> Nat]],
         \A c \in Boards, q \in Ports : wire'[c][q] <= wire[c][q],
         \A c \in counted, q \in Ports : wire'[c][q] = 0,
         comm' \in [Boards -> Seq(Message)],
         \A c \in Boards \ alive : comm'[c] = <<>>,
         \A c \in counted : Resting(c)',
         NoClose => NoClose',
         pidx' = [c \in Boards |-> [q \in Ports |-> 0]],
         recvCount' = 0, ipcOut' = ipcOut + 1,
         ui' = ui, ipcIn' = ipcIn, recvIndividually' = recvIndividually,
         hps' = hps, order' = order, port' = port,
         counted' = counted, alive' = alive, ending' = ending,
         stage' = stage, LinksLost
  PROVE  FaultInv'
<1>1. FaultType'
  <2>1. comm' \in [Boards -> Seq(Query \cup {Close})]
    BY DEF Message
  <2>2. pidx' \in [Boards -> [Ports -> Nat]]
    OBVIOUS
  <2>3. QED
    BY <2>1, <2>2 DEF FaultInv, FaultType, Close
<1>2. /\ counted \subseteq Boards /\ alive \subseteq counted
      /\ \A c \in Boards, q \in Ports : wire[c][q] \in Nat /\ wire'[c][q] \in Nat
  BY DEF FaultInv, FaultType, LinkInv
<1>3. \A c \in counted : Still(c)'
  BY <1>2 DEF Still
<1>4. ScriptInv'
  <2>1. Rest'
    BY <1>3 DEF Rest
  <2>2. QED
    BY <2>1 DEF FaultInv, ScriptInv, Active
<1>5. LinkInv'
  <2>1. ASSUME NEW c \in Boards, NEW q \in Ports, <<c, q>> \notin socks'
        PROVE  wire'[c][q] = 0
    <3>1. CASE <<c, q>> \in socks
      BY <2>1, <3>1 DEF LinksLost
    <3>2. CASE <<c, q>> \notin socks
      <4>1. wire[c][q] = 0 /\ wire'[c][q] <= wire[c][q]
        BY <3>2 DEF FaultInv, LinkInv
      <4>2. QED
        BY <1>2, <4>1
    <3>3. QED
      BY <3>1, <3>2
  <2>2. QED
    BY <2>1 DEF FaultInv, LinkInv, LinksLost
<1>6. BoardsInv'
  <2> SUFFICES ASSUME NEW c \in Boards
               PROVE  IF c \in alive THEN RunInv(c)' ELSE EndedInv(c)'
    BY DEF BoardsInv
  <2>1. CASE c \in alive
    BY <1>2, <1>3, <2>1, StillRunsNext
  <2>2. CASE c \notin alive
    BY <2>2 DEF FaultInv, BoardsInv, EndedInv
  <2>3. QED
    BY <2>1, <2>2
<1>7. StaysInSegment'
  <2> SUFFICES ASSUME NEW c \in Boards, NEW q \in Ports
               PROVE  pidx'[c][q] + wire'[c][q] <= ServerLen(q)
    BY DEF StaysInSegment, Sent, ServerLen
  <2>1. pidx[c][q] \in Nat /\ pidx[c][q] + wire[c][q] <= ServerLen(q)
    BY DEF FaultInv, FaultType, StaysInSegment, Sent
  <2>2. pidx'[c][q] = 0 /\ wire'[c][q] <= wire[c][q] /\ ServerLen(q) \in Nat
    BY ConstantFacts
  <2>3. QED
    BY <1>2, <2>1, <2>2
<1>8. QED
  BY <1>1, <1>4, <1>5, <1>6, <1>7 DEF FaultInv

(* No socket has been given more than its segment holds.                   *)
LEMMA SegmentReadings ==
  ASSUME FaultInv
  PROVE  pidx \in Readings
<1>1. pidx \in [Boards -> [Ports -> Nat]] /\ wire \in [Boards -> [Ports -> Nat]]
  BY DEF FaultInv, FaultType
<1>2. ASSUME NEW c \in Boards, NEW q \in Ports
      PROVE  pidx[c][q] <= ServerLen(q)
  <2>1. /\ pidx[c][q] \in Nat /\ wire[c][q] \in Nat /\ ServerLen(q) \in Nat
        /\ pidx[c][q] + wire[c][q] <= ServerLen(q)
    BY <1>1, ConstantFacts DEF FaultInv, StaysInSegment, Sent
  <2>2. QED
    BY <2>1
<1>3. QED
  BY <1>1, <1>2 DEF Readings

(* What a recv does, with the new indexes as a constant g.  It comes from  *)
(* a counted board, in a pulse that has been asked for.                    *)
LEMMA RecvEffect ==
  ASSUME FaultInv, NEW b \in Boards, NEW p \in Ports, FaultServerData(b, p), up'
  PROVE  \E k \in Nat \ {0} : \E g \in Readings :
           /\ b \in counted /\ stage # "starting" /\ (stage = "normal" => Active)
           /\ wire[b][p] # 0
           /\ Takes(b, p, k, g[b])
           /\ wire' \in [Boards -> [Ports -> Nat]]
           /\ \A c \in Boards : c # b => /\ g[c] = pidx[c] /\ wire'[c] = wire[c]
                                         /\ comm'[c] = comm[c]
           /\ comm' \in [Boards -> Seq(Message)]
           /\ b \notin alive => comm'[b] = comm[b]
           /\ NextOrdered(b, p, g[b])
           /\ recvCount + k = Cardinality(DeliveredBy(OfCounted(g)))
           /\ Complete(recvCount + k, g, FALSE)
           /\ UNCHANGED <<ui, ipcIn, recvIndividually, boardVars, up, socks,
                          counted, alive, ending, stage>>
<1>1. PICK k \in {n \in 1..ServerLen(p) : n <= wire[b][p]} :
        LET filled == [pidx EXCEPT ![b][p] = pidx[b][p] + k]
            whole  == recvIndividually = 1 /\ filled[b][p] = ServerLen(p)
        IN  /\ <<b, p>> \in socks
            /\ \/ /\ wire' = [wire EXCEPT ![b][p] = wire[b][p] - k]
                  /\ SendTo(IF whole THEN {b} ELSE {}, [each |-> 1, idx |-> p],
                            comm)
                  /\ Complete(recvCount + k, filled, FALSE)
                  /\ UNCHANGED <<ui, ipcIn, recvIndividually, boardVars, up,
                                 socks, counted, alive, ending, stage>>
               \/ ServerEnds
  BY DEF FaultServerData
<1>2. PICK g : g = [pidx EXCEPT ![b][p] = pidx[b][p] + k]
  OBVIOUS
<1>3. PICK B : B = IF recvIndividually = 1 /\ g[b][p] = ServerLen(p)
                     THEN {b} ELSE {}
  OBVIOUS
<1>4. ~ServerEnds
  BY DEF ServerEnds
<1> DEFINE m == [each |-> 1, idx |-> p]
<1>5. /\ <<b, p>> \in socks
      /\ wire' = [wire EXCEPT ![b][p] = wire[b][p] - k]
      /\ SendTo(B, m, comm)
      /\ Complete(recvCount + k, g, FALSE)
      /\ UNCHANGED <<ui, ipcIn, recvIndividually, boardVars, up, socks,
                     counted, alive, ending, stage>>
  BY <1>1, <1>2, <1>3, <1>4, Zenon
<1>6. /\ pidx \in [Boards -> [Ports -> Nat]]
      /\ wire \in [Boards -> [Ports -> Nat]]
      /\ counted \subseteq Boards
  BY DEF FaultInv, FaultType
<1>7. k \in Nat \ {0} /\ k <= wire[b][p] /\ wire[b][p] # 0 /\ wire[b][p] \in Nat
  BY <1>6, ConstantFacts
<1>8. pidx \in Readings
  BY SegmentReadings
<1>9. /\ g \in [Boards -> [Ports -> Nat]]
      /\ g[b][p] = pidx[b][p] + k
      /\ \A c \in Boards, q \in Ports : c # b \/ q # p => g[c][q] = pidx[c][q]
      /\ \A c \in Boards : c # b => g[c] = pidx[c]
  BY <1>2, <1>6, <1>7
<1>10. pidx[b][p] + k <= ServerLen(p)
  <2>1. /\ pidx[b][p] \in Nat /\ ServerLen(p) \in Nat
        /\ pidx[b][p] + wire[b][p] <= ServerLen(p)
    BY <1>6, ConstantFacts DEF FaultInv, StaysInSegment, Sent
  <2>2. QED
    BY <1>7, <2>1
<1>11. b \in counted /\ stage # "starting"
  BY <1>5 DEF FaultInv, LinkInv
<1>12. g \in Readings
       /\ Cardinality(DeliveredBy(OfCounted(g)))
            = Cardinality(DeliveredBy(OfCounted(pidx))) + k
  <2>1. Advances(pidx, g, b, p, k)
    BY <1>9 DEF Advances
  <2>2. QED
    BY <1>6, <1>7, <1>8, <1>10, <1>11, <2>1, CountedArrival
<1>13. ~Rest /\ RightCount /\ (stage = "normal" => Active)
  <2>1. ~Rest
    BY <1>7, <1>11 DEF Rest, Still
  <2>2. QED
    BY <1>11, <2>1 DEF FaultInv, ScriptInv, Active, Unread
<1>14. recvCount + k = Cardinality(DeliveredBy(OfCounted(g)))
  BY <1>12, <1>13 DEF RightCount
<1>15. /\ wire' \in [Boards -> [Ports -> Nat]]
       /\ wire'[b][p] = wire[b][p] - k
       /\ \A q \in Ports : q # p => wire'[b][q] = wire[b][q]
       /\ \A c \in Boards : c # b => wire'[c] = wire[c]
  BY <1>5, <1>6, <1>7
<1>16. Takes(b, p, k, g[b])
  BY <1>5, <1>7, <1>9, <1>15 DEF Takes, boardVars
<1>17. m \in Message
  BY ConstantFacts DEF Message, Query
<1> HIDE DEF m
<1>18. /\ comm' \in [Boards -> Seq(Message)]
       /\ \A c \in Boards : c \notin B \cap alive => comm'[c] = comm[c]
       /\ \A c \in Boards : c \in B \cap alive => comm'[c] = Append(comm[c], m)
  BY <1>5, <1>17, SentMessage DEF FaultInv
<1>19. B \subseteq {b} /\ (B # {} => recvIndividually = 1 /\ g[b][p] = ServerLen(p))
  BY <1>3
<1>20. NextOrdered(b, p, g[b])
  <2>1. CASE b \in B \cap alive
    BY <1>18, <1>19, <2>1 DEF NextOrdered, m
  <2>2. CASE b \notin B \cap alive
    BY <1>18, <2>2 DEF NextOrdered
  <2>3. QED
    BY <2>1, <2>2
<1>21. \A c \in Boards : c # b => comm'[c] = comm[c]
  BY <1>18, <1>19
<1>22. b \notin alive => comm'[b] = comm[b]
  BY <1>18
<1>23. QED
  BY <1>5, <1>7, <1>9, <1>11, <1>12, <1>13, <1>14, <1>15, <1>16, <1>18, <1>20,
     <1>21, <1>22, Zenon

(* An order for the next packet is not a message to close.                 *)
LEMMA NoCloseOrdered ==
  ASSUME FaultType, NEW b \in Boards, NEW p \in Ports, NEW n,
         NextOrdered(b, p, n),
         \A c \in Boards : c # b => comm'[c] = comm[c]
  PROVE  NoClose => NoClose'
<1> SUFFICES ASSUME NoClose, NEW c \in Boards, NEW i \in 1..Len(comm'[c])
             PROVE  comm'[c][i] # Close
  BY DEF NoClose, Close
<1> DEFINE m == [each |-> 1, idx |-> p]
<1>1. m # Close
  BY DEF Close, CloseProgram
<1>2. comm[b] \in Seq(Message) /\ m \in Message
  BY ConstantFacts DEF FaultType, Message, Query
<1>3. CASE comm'[c] = comm[c]
  BY <1>3 DEF NoClose
<1>4. CASE comm'[c] # comm[c]
  <2>1. c = b /\ comm'[b] = Append(comm[b], m)
    BY <1>4 DEF NextOrdered
  <2> HIDE DEF m
  <2>2. /\ Len(comm'[b]) = Len(comm[b]) + 1 /\ Len(comm[b]) \in Nat
        /\ comm'[b][Len(comm[b]) + 1] = m
        /\ \A j \in 1..Len(comm[b]) : comm'[b][j] = comm[b][j]
    BY <1>2, <2>1, MessageAppended
  <2>3. i = Len(comm[b]) + 1 \/ i \in 1..Len(comm[b])
    BY <2>1, <2>2
  <2>4. QED
    BY <1>1, <2>1, <2>2, <2>3 DEF NoClose
<1>5. QED
  BY <1>3, <1>4

(* Receiving bytes: either more are to come, or these were the last of all *)
(* the counted boards and each of them has nothing left to do.             *)
LEMMA FaultServerDataInv ==
  ASSUME FaultInv, NEW b \in Boards, NEW p \in Ports, FaultServerData(b, p), up'
  PROVE  FaultInv'
<1>1. PICK k \in Nat \ {0}, g \in Readings :
        /\ b \in counted /\ stage # "starting" /\ (stage = "normal" => Active)
        /\ wire[b][p] # 0
        /\ Takes(b, p, k, g[b])
        /\ wire' \in [Boards -> [Ports -> Nat]]
        /\ \A c \in Boards : c # b => /\ g[c] = pidx[c] /\ wire'[c] = wire[c]
                                      /\ comm'[c] = comm[c]
        /\ comm' \in [Boards -> Seq(Message)]
        /\ b \notin alive => comm'[b] = comm[b]
        /\ NextOrdered(b, p, g[b])
        /\ recvCount + k = Cardinality(DeliveredBy(OfCounted(g)))
        /\ Complete(recvCount + k, g, FALSE)
        /\ UNCHANGED <<ui, ipcIn, recvIndividually, boardVars, up, socks,
                       counted, alive, ending, stage>>
  BY RecvEffect
<1>2. /\ ui' = ui /\ ipcIn' = ipcIn /\ recvIndividually' = recvIndividually
      /\ hps' = hps /\ order' = order /\ port' = port
      /\ counted' = counted /\ alive' = alive /\ ending' = ending
      /\ stage' = stage /\ socks' = socks
  BY <1>1 DEF boardVars
<1>3. /\ counted \subseteq Boards /\ alive \subseteq counted
      /\ pidx \in [Boards -> [Ports -> Nat]] /\ wire \in [Boards -> [Ports -> Nat]]
      /\ g \in [Boards -> [Ports -> Nat]] /\ recvCount \in Nat
      /\ \A q \in Ports : ServerLen(q) \in Nat \ {0}
  BY <1>1, ConstantFacts DEF FaultInv, FaultType, LinkInv, Readings
<1>4. ASSUME NEW c \in Boards, NEW q \in Ports
      PROVE  /\ g[c][q] + wire'[c][q] = Sent(c, q)
             /\ wire'[c][q] <= wire[c][q]
  <2>1. CASE c = b /\ q = p
    <3>1. /\ g[b][p] = pidx[b][p] + k /\ wire'[b][p] = wire[b][p] - k
          /\ k \in Nat /\ pidx[b][p] \in Nat /\ wire[b][p] \in Nat
      BY <1>1, <1>3 DEF Takes
    <3>2. QED
      BY <2>1, <3>1 DEF Sent
  <2>2. CASE c # b \/ q # p
    <3>1. g[c][q] = pidx[c][q] /\ wire'[c][q] = wire[c][q]
      BY <1>1, <2>2 DEF Takes
    <3>2. QED
      BY <1>3, <3>1 DEF Sent
  <2>3. QED
    BY <2>1, <2>2
<1>5. NoClose => NoClose'
  BY <1>1, NoCloseOrdered DEF FaultInv
<1>6. \A c \in Boards \ alive : comm'[c] = <<>> /\ hps[c] = "idle" /\ EndedInv(c)'
  <2> SUFFICES ASSUME NEW c \in Boards, c \notin alive
               PROVE  comm'[c] = <<>> /\ hps[c] = "idle" /\ EndedInv(c)'
    OBVIOUS
  <2>1. comm[c] = <<>> /\ hps[c] = "idle"
    BY DEF FaultInv, BoardsInv, EndedInv
  <2>2. comm'[c] = comm[c] /\ hps'[c] = hps[c]
    BY <1>1, <1>2
  <2>3. QED
    BY <2>1, <2>2 DEF EndedInv
<1>7. CASE recvCount + k = CountedTotal
  <2>1. /\ ipcOut' = ipcOut + 1 /\ recvCount' = 0
        /\ pidx' = [c \in Boards |-> [q \in Ports |-> 0]]
    BY <1>1, <1>7 DEF Complete
  <2>2. \A c \in counted, q \in Ports : g[c][q] = ServerLen(q)
    BY <1>1, <1>3, <1>7, AllCountedDelivered
  <2>3. ASSUME NEW c \in counted, NEW q \in Ports PROVE wire'[c][q] = 0
    <3>1. Sent(c, q) <= ServerLen(q) /\ c \in Boards
      BY <1>3 DEF FaultInv, StaysInSegment
    <3>2. /\ ServerLen(q) \in Nat /\ wire'[c][q] \in Nat
          /\ ServerLen(q) + wire'[c][q] <= ServerLen(q)
      BY <1>1, <1>3, <1>4, <2>2, <3>1
    <3>3. QED
      BY <3>2
  <2>4. ASSUME NEW c \in counted PROVE Resting(c)'
    <3>1. CASE c \notin alive
      <4>1. comm'[c] = <<>> /\ hps'[c] = "idle"
        BY <1>2, <1>3, <1>6, <3>1
      <4>2. QED
        BY <4>1 DEF Resting, HoldsOrder, Awaits
    <3>2. CASE c \in alive /\ c = b
      <4>1. RunInv(b)
        BY <3>2 DEF FaultInv, BoardsInv
      <4>2. \A q \in Ports : g[b][q] = ServerLen(q)
        BY <1>1, <2>2
      <4>3. QED
        BY <1>1, <3>2, <4>1, <4>2, ReceivedRests DEF FaultInv
    <3>3. CASE c \in alive /\ c # b
      <4>1. RunInv(c) /\ c \in Boards
        BY <1>3, <3>3 DEF FaultInv, BoardsInv
      <4>2. Sent(c, NumPorts) # 0
        <5>1. NumPorts \in Ports
          BY ConstantFacts
        <5>2. Sent(c, NumPorts) = g[c][NumPorts] + wire'[c][NumPorts]
          BY <1>4, <4>1, <5>1
        <5>3. QED
          BY <1>3, <2>2, <2>3, <5>1, <5>2
      <4>3. Resting(c)
        BY <4>1, <4>2, RestsAfterLast DEF FaultInv
      <4>4. QED
        BY <1>1, <1>2, <3>3, <4>1, <4>3, SameResting
    <3>4. QED
      BY <3>1, <3>2, <3>3
  <2>5. LinksLost
    BY <1>2 DEF LinksLost
  <2>6. QED
    BY <1>1, <1>2, <1>4, <1>5, <1>6, <2>1, <2>3, <2>4, <2>5, PulseEnds
<1>8. CASE recvCount + k # CountedTotal
  <2>1. ipcOut' = ipcOut /\ recvCount' = recvCount + k /\ pidx' = g
    BY <1>1, <1>8 DEF Complete
  <2>2. FaultType'
    <3>1. comm' \in [Boards -> Seq(Query \cup {Close})]
      BY <1>1 DEF Message
    <3>2. QED
      BY <1>1, <1>2, <1>3, <2>1, <3>1 DEF FaultInv, FaultType, Close
  <2>3. RightCount'
    <3>1. OfCounted(pidx)' = OfCounted(g)
      BY <1>2, <2>1 DEF OfCounted
    <3>2. DeliveredBy(OfCounted(pidx))' = DeliveredBy(OfCounted(g))
      BY <3>1 DEF DeliveredBy
    <3>3. QED
      BY <1>1, <2>1, <3>2 DEF RightCount
  <2>4. ~Unread
    <3>1. ~Rest
      BY <1>1 DEF Rest, Still
    <3>2. QED
      BY <3>1 DEF FaultInv, ScriptInv
  <2>5. ScriptInv'
    <3>1. stage = "normal" => ui = "waiting" /\ ipcIn = <<>> /\ ipcOut = 0
      BY <1>1 DEF Active
    <3>2. ~Unread'
      BY <1>2, <2>4 DEF Unread
    <3>3. QED
      BY <1>2, <1>5, <2>1, <2>3, <3>1, <3>2 DEF FaultInv, ScriptInv
  <2>6. LinkInv'
    <3>1. ASSUME NEW c \in Boards, NEW q \in Ports, <<c, q>> \notin socks
          PROVE  wire'[c][q] = 0
      <4>1. wire[c][q] = 0 /\ wire'[c][q] <= wire[c][q] /\ wire'[c][q] \in Nat
        BY <1>1, <1>4, <3>1 DEF FaultInv, LinkInv
      <4>2. QED
        BY <4>1
    <3>2. QED
      BY <1>1, <1>2, <3>1 DEF FaultInv, LinkInv
  <2>7. BoardsInv'
    <3> SUFFICES ASSUME NEW c \in Boards
                 PROVE  IF c \in alive THEN RunInv(c)' ELSE EndedInv(c)'
      BY <1>2 DEF BoardsInv
    <3>1. CASE c \notin alive
      BY <1>6, <3>1
    <3>2. CASE c \in alive /\ c = b
      <4>1. RunInv(b)
        BY <3>2 DEF FaultInv, BoardsInv
      <4>2. pidx'[b] = g[b]
        BY <2>1
      <4>3. QED
        BY <1>1, <3>2, <4>1, <4>2, ReceivedRuns DEF FaultInv
    <3>3. CASE c \in alive /\ c # b
      <4>1. RunInv(c)
        BY <3>3 DEF FaultInv, BoardsInv
      <4>2. Same(c)
        BY <1>1, <1>2, <2>1, <3>3 DEF Same
      <4>3. QED
        BY <1>2, <3>3, <4>1, <4>2, SameRuns
    <3>4. QED
      BY <3>1, <3>2, <3>3
  <2>8. StaysInSegment'
    <3> SUFFICES ASSUME NEW c \in Boards, NEW q \in Ports
                 PROVE  g[c][q] + wire'[c][q] <= ServerLen(q)
      BY <2>1 DEF StaysInSegment, Sent, ServerLen
    <3>1. QED
      BY <1>4 DEF FaultInv, StaysInSegment
  <2>9. QED
    BY <2>2, <2>5, <2>6, <2>7, <2>8 DEF FaultInv
<1>9. QED
  BY <1>7, <1>8

(* A closed connection is noticed.  The count it is tested against can be  *)
(* complete only when every counted board has delivered, or rests.         *)
LEMMA ServerDropsInv ==
  ASSUME FaultInv, NEW b \in Boards, NEW p \in Ports, ServerDrops(b, p), up',
         ~misled'
  PROVE  FaultInv'
<1>1. PICK B : /\ <<b, p>> \in socks /\ b \notin alive /\ wire[b][p] = 0
               /\ socks' = socks \ {<<b, p>>}
               /\ SendTo(B, [each |-> 1, idx |-> p], comm)
               /\ Complete(recvCount, pidx, B \notin {{}, {b}})
               /\ ui' = ui /\ ipcIn' = ipcIn
               /\ recvIndividually' = recvIndividually /\ wire' = wire
               /\ hps' = hps /\ order' = order /\ port' = port
               /\ counted' = counted /\ alive' = alive /\ ending' = ending
               /\ stage' = stage
  BY DEF ServerDrops, ServerEnds, boardVars
<1>2. comm' = comm
  <2>1. B \in {{}, {b}}
    BY <1>1 DEF Complete
  <2>2. B \cap alive = {}
    BY <1>1, <2>1
  <2>3. comm' = [c \in Boards |-> comm[c]]
    BY <1>1, <2>2 DEF SendTo
  <2>4. QED
    BY <2>3 DEF FaultInv, FaultType
<1>3. LinksLost
  BY <1>1 DEF LinksLost
<1>4. CASE recvCount # CountedTotal
  <2>1. pidx' = pidx /\ recvCount' = recvCount /\ ipcOut' = ipcOut
    BY <1>1, <1>4 DEF Complete
  <2>2. QED
    BY <1>1, <1>2, <1>3, <2>1, NothingChanges
<1>5. CASE recvCount = CountedTotal
  <2>1. /\ ipcOut' = ipcOut + 1 /\ recvCount' = 0
        /\ pidx' = [c \in Boards |-> [q \in Ports |-> 0]]
        /\ ~Early
    BY <1>1, <1>5 DEF Complete
  <2>2. stage # "starting" /\ (stage = "normal" => Active)
    BY <1>1, <2>1 DEF Early, FaultInv, LinkInv
  <2>3. /\ counted \subseteq Boards
        /\ pidx \in [Boards -> [Ports -> Nat]] /\ wire \in [Boards -> [Ports -> Nat]]
        /\ comm \in [Boards -> Seq(Message)]
        /\ \A q \in Ports : ServerLen(q) \in Nat \ {0}
    BY ConstantFacts DEF FaultInv, FaultType, Message
  <2>4. ASSUME NEW c \in counted, NEW q \in Ports
        PROVE  Resting(c) /\ wire[c][q] = 0
    <3>1. CASE Rest
      BY <3>1 DEF Rest, Still
    <3>2. CASE RightCount
      <4>1. pidx \in Readings
        BY SegmentReadings
      <4>2. \A r \in Ports : pidx[c][r] = ServerLen(r)
        BY <1>5, <2>3, <3>2, <4>1, AllCountedDelivered DEF RightCount
      <4>3. \A r \in Ports : wire[c][r] = 0
        <5> SUFFICES ASSUME NEW r \in Ports PROVE wire[c][r] = 0
          OBVIOUS
        <5>1. /\ pidx[c][r] + wire[c][r] <= ServerLen(r)
              /\ wire[c][r] \in Nat /\ ServerLen(r) \in Nat
          BY <2>3 DEF FaultInv, StaysInSegment, Sent
        <5>2. QED
          BY <4>2, <5>1
      <4>4. Resting(c)
        <5>1. CASE c \in alive
          <6>1. RunInv(c) /\ NumPorts \in Ports
            BY <2>3, <5>1, ConstantFacts DEF FaultInv, BoardsInv
          <6>2. Sent(c, NumPorts) # 0
            BY <2>3, <4>2, <4>3, <6>1 DEF Sent
          <6>3. QED
            BY <2>3, <6>1, <6>2, RestsAfterLast DEF FaultInv
        <5>2. CASE c \notin alive
          <6>1. hps[c] = "idle" /\ comm[c] = <<>>
            BY <2>3, <5>2 DEF FaultInv, BoardsInv, EndedInv
          <6>2. QED
            BY <6>1, NothingComes DEF Resting, HoldsOrder
        <5>3. QED
          BY <5>1, <5>2
      <4>5. QED
        BY <4>3, <4>4
    <3>3. QED
      BY <2>2, <3>1, <3>2 DEF FaultInv, ScriptInv
  <2>5. \A c \in counted : Resting(c)'
    <3>1. \A c \in counted : Resting(c)
      BY <2>4, ConstantFacts
    <3>2. QED
      BY <1>1, <1>2, <3>1, SameResting
  <2>6. \A c \in Boards, q \in Ports : wire'[c][q] <= wire[c][q]
    BY <1>1, <2>3
  <2>7. NoClose => NoClose'
    BY <1>2 DEF NoClose, Close
  <2>8. \A c \in Boards \ alive : comm'[c] = <<>>
    BY <1>2 DEF FaultInv, BoardsInv, EndedInv
  <2>9. \A c \in counted, q \in Ports : wire'[c][q] = 0
    BY <1>1, <2>4
  <2>10. QED
    BY <1>1, <1>2, <1>3, <2>1, <2>2, <2>3, <2>5, <2>6, <2>7, <2>8, <2>9,
       PulseEnds
<1>6. QED
  BY <1>4, <1>5

-----------------------------------------------------------------------------
(* Every step keeps the invariant as long as the server runs and has not   *)
(* misled the script; neither comes back.                                  *)
LEMMA FaultNextInv ==
  ASSUME FaultIInv, [FaultNext]_faultVars
  PROVE  FaultIInv'
<1> SUFFICES ASSUME up', ~misled' PROVE FaultInv'
  BY DEF FaultIInv
<1>1. CASE UNCHANGED faultVars
  <2>1. /\ ui' = ui /\ ipcIn' = ipcIn /\ ipcOut' = ipcOut
        /\ recvIndividually' = recvIndividually /\ recvCount' = recvCount
        /\ pidx' = pidx /\ comm' = comm /\ wire' = wire /\ hps' = hps
        /\ order' = order /\ port' = port /\ socks' = socks
        /\ counted' = counted /\ alive' = alive /\ ending' = ending
        /\ stage' = stage /\ misled' = misled /\ up' = up
    BY <1>1 DEF faultVars, vars, uiVars, serverVars, netVars, boardVars,
                serverState, scriptState
  <2>2. QED
    BY <2>1, NothingChanges DEF FaultIInv, LinksLost
<1>2. ASSUME NEW each \in {0, 1}, FaultUIQuery(each) PROVE FaultInv'
  <2>1. up /\ ~misled
    BY <1>2 DEF FaultUIQuery, serverState, scriptState
  <2>2. QED
    BY <1>2, <2>1, FaultUIQueryInv DEF FaultIInv
<1>3. CASE FaultUIResume
  <2>1. up /\ ~misled
    BY <1>3 DEF FaultUIResume, serverState, scriptState
  <2>2. QED
    BY <1>3, <2>1, FaultUIResumeInv DEF FaultIInv
<1>4. CASE UIClose
  <2>1. up /\ ~misled
    BY <1>4 DEF UIClose, serverState
  <2>2. QED
    BY <1>4, <2>1, UIQuitsInv DEF FaultIInv
<1>5. CASE StartAgain
  <2>1. up /\ ~misled
    BY <1>5 DEF StartAgain
  <2>2. QED
    BY <1>5, <2>1, StartAgainInv DEF FaultIInv
<1>6. CASE Update
  <2>1. up /\ ~misled
    BY <1>6 DEF Update
  <2>2. QED
    BY <1>6, <2>1, UpdateInv DEF FaultIInv
<1>7. ASSUME NEW b \in Boards, Restart(b) PROVE FaultInv'
  <2>1. up /\ ~misled
    BY <1>7 DEF Restart, scriptState
  <2>2. QED
    BY <1>7, <2>1, RestartInv DEF FaultIInv
<1>8. CASE ServerMessage
  <2>1. CASE FaultServerQuery
    <3>1. up /\ ~misled
      BY <2>1 DEF FaultServerQuery, scriptState
    <3>2. QED
      BY <2>1, <3>1, FaultServerQueryInv DEF FaultIInv
  <2>2. CASE ServerClose
    <3>1. up /\ ~misled
      BY <2>2 DEF ServerClose, scriptState
    <3>2. QED
      BY <2>2, <3>1, ServerCloseInv DEF FaultIInv
  <2>3. ~ServerBreaks
    BY DEF ServerBreaks, ServerEnds
  <2>4. QED
    BY <1>8, <2>1, <2>2, <2>3 DEF ServerMessage
<1>9. ASSUME NEW b \in Boards, NEW p \in Ports, ServerSocket(b, p)
      PROVE  FaultInv'
  <2>1. CASE FaultServerData(b, p)
    <3>1. ~ServerEnds
      BY DEF ServerEnds
    <3>2. up /\ \E n, f, a : Complete(n, f, a)
      BY <2>1, <3>1 DEF FaultServerData
    <3>3. ~misled
      BY <3>2 DEF Complete
    <3>4. QED
      BY <2>1, <3>2, <3>3, FaultServerDataInv DEF FaultIInv
  <2>2. CASE ServerDrops(b, p)
    <3>1. up /\ \E a : Complete(recvCount, pidx, a)
      BY <2>2 DEF ServerDrops, ServerEnds
    <3>2. ~misled
      BY <3>1 DEF Complete
    <3>3. QED
      BY <2>2, <3>1, <3>2, ServerDropsInv DEF FaultIInv
  <2>3. QED
    BY <1>9, <2>1, <2>2 DEF ServerSocket
<1>10. ASSUME NEW b \in Boards, ServerDropsComm(b) PROVE FaultInv'
  <2>1. up /\ ~misled
    BY <1>10 DEF ServerDropsComm, scriptState
  <2>2. QED
    BY <1>10, <2>1, ServerDropsCommInv DEF FaultIInv
<1>11. ASSUME NEW b \in Boards, FaultBoard(b) PROVE FaultInv'
  <2>1. up /\ ~misled
    <3>1. UNCHANGED <<serverState, scriptState>>
      BY <1>11 DEF FaultBoard, BoardCloses, BoardEof, BoardEnds
    <3>2. up' = up /\ misled' = misled
      BY <3>1 DEF serverState, scriptState
    <3>3. QED
      BY <3>2
  <2>2. QED
    BY <1>11, <2>1, FaultBoardInv DEF FaultIInv
<1>12. ASSUME NEW b \in Boards, BoardDies(b) PROVE FaultInv'
  <2>1. up /\ ~misled
    BY <1>12 DEF BoardDies, serverState
  <2>2. QED
    BY <1>12, <2>1, BoardDiesInv DEF FaultIInv
<1>13. ASSUME NEW b \in Boards, FaultCapture(b) PROVE FaultInv'
  <2>1. up /\ ~misled
    BY <1>13 DEF FaultCapture, serverState, scriptState
  <2>2. QED
    BY <1>13, <2>1, FaultCaptureInv DEF FaultIInv
<1>14. ~UIEndOfFile
  BY DEF UIEndOfFile, serverState
<1>15. QED
  BY <1>1, <1>2, <1>3, <1>4, <1>5, <1>6, <1>7, <1>8, <1>9, <1>10, <1>11,
     <1>12, <1>13, <1>14 DEF FaultNext

(* With boards and servers that end and start again at any moment, what is *)
(* queued, under way, held and counted keeps fitting together as long as   *)
(* the server runs and the script's answers have come after its queries.   *)
THEOREM FaultInvariance == FaultSpec => []FaultIInv
BY FaultInitInv, FaultNextInv, PTL DEF FaultSpec

(* However boards and pulses end, nothing is written past a segment of the *)
(* data array (cServer.c:302, 865).                                        *)
THEOREM SegmentsAreKept == FaultSpec => []SegmentsKept
<1>1. FaultIInv => SegmentsKept
  BY DEF FaultIInv, FaultInv, SegmentsKept
<1>2. QED
  BY <1>1, FaultInvariance, PTL

(* The step that answers a script which waits for it finds every packet of *)
(* every counted board delivered.                                          *)
LEMMA ToldStep ==
  ASSUME FaultIInv, [FaultNext]_faultVars, Active, ~misled, ipcOut' > ipcOut,
         NEW c \in counted, NEW q \in Ports
  PROVE  pidx[c][q] + (wire[c][q] - wire'[c][q]) = ServerLen(q)
<1>1. ipcOut = 0 /\ ipcOut' # 0 /\ ui = "waiting"
  BY DEF Active
<1>2. PICK b \in Boards, p \in Ports : ServerSocket(b, p)
  <2>1. ~Update /\ ~FaultUIResume /\ ~UIEndOfFile
    BY <1>1 DEF Update, FaultUIResume, UIResume, UIEndOfFile
  <2>2. /\ ~UIClose /\ ~StartAgain
        /\ \A each \in {0, 1} : ~FaultUIQuery(each)
    BY <1>1 DEF UIClose, StartAgain, FaultUIQuery, UIQuery, vars, uiVars
  <2>3. /\ \A b \in Boards : ~Restart(b) /\ ~ServerDropsComm(b)
        /\ ~ServerMessage /\ ~UNCHANGED faultVars
    BY <1>1 DEF Restart, ServerDropsComm, ServerMessage, FaultServerQuery,
                ServerClose, ServerBreaks, ServerEnds, faultVars, vars, uiVars
  <2>4. \A b \in Boards : ~FaultBoard(b) /\ ~BoardDies(b) /\ ~FaultCapture(b)
    BY <1>1 DEF FaultBoard, BoardCloses, BoardEof, BoardEnds, BoardDies,
                FaultCapture, Capture, BoardStep, BoardTake, BoardReady,
                BoardTimeout, BoardSend, BoardReset, uiVars
  <2>5. QED
    BY <2>1, <2>2, <2>3, <2>4 DEF FaultNext
<1>3. up /\ up' /\ FaultInv
  <2>1. ~ServerEnds
    BY <1>1 DEF ServerEnds, vars, uiVars
  <2>2. up /\ up'
    BY <1>2, <2>1 DEF ServerSocket, FaultServerData, ServerDrops
  <2>3. QED
    BY <2>2 DEF FaultIInv
<1>4. /\ counted \subseteq Boards /\ c \in Boards
      /\ pidx \in [Boards -> [Ports -> Nat]] /\ wire \in [Boards -> [Ports -> Nat]]
      /\ stage = "normal" /\ (Rest \/ RightCount)
  BY <1>1, <1>3 DEF FaultInv, FaultType, ScriptInv, LinkInv
<1>5. CASE FaultServerData(b, p)
  <2>1. PICK k \in Nat \ {0}, g \in Readings :
          /\ Takes(b, p, k, g[b])
          /\ \A x \in Boards : x # b => /\ g[x] = pidx[x] /\ wire'[x] = wire[x]
                                    /\ comm'[x] = comm[x]
          /\ recvCount + k = Cardinality(DeliveredBy(OfCounted(g)))
          /\ Complete(recvCount + k, g, FALSE)
    BY <1>3, <1>5, RecvEffect
  <2>2. recvCount + k = CountedTotal
    BY <1>1, <2>1 DEF Complete
  <2>3. g[c][q] = ServerLen(q)
    BY <1>4, <2>1, <2>2, AllCountedDelivered
  <2>4. pidx[c][q] \in Nat /\ wire[c][q] \in Nat
    BY <1>4
  <2>5. CASE c = b /\ q = p
    <3>1. wire'[c][q] = wire[c][q] - k /\ g[c][q] = pidx[c][q] + k
      BY <2>1, <2>5 DEF Takes
    <3>2. QED
      BY <2>3, <2>4, <3>1
  <2>6. CASE c # b \/ q # p
    <3>1. wire'[c][q] = wire[c][q] /\ g[c][q] = pidx[c][q]
      BY <1>4, <2>1, <2>6 DEF Takes
    <3>2. QED
      BY <2>3, <2>4, <3>1
  <2>7. QED
    BY <2>5, <2>6
<1>6. CASE ServerDrops(b, p)
  <2>1. /\ \E a : Complete(recvCount, pidx, a)
        /\ wire' = wire /\ <<b, p>> \in socks
    BY <1>3, <1>6 DEF ServerDrops, ServerEnds
  <2>2. recvCount = CountedTotal
    BY <1>1, <2>1 DEF Complete
  <2>3. RightCount
    BY <1>1, <1>3, <1>4 DEF FaultInv, ScriptInv, Active
  <2>4. pidx[c][q] = ServerLen(q)
    BY <1>3, <1>4, <2>2, <2>3, SegmentReadings, AllCountedDelivered
       DEF RightCount
  <2>5. /\ pidx[c][q] \in Nat /\ wire[c][q] \in Nat
        /\ wire'[c][q] = wire[c][q]
    BY <1>4, <2>1
  <2>6. QED
    BY <2>4, <2>5
<1>7. QED
  BY <1>2, <1>5, <1>6 DEF ServerSocket

(* While the script waits for its answer the server gives it only when     *)
(* every board it counts has delivered every packet, whatever connections  *)
(* have closed meanwhile (dataServer.py:202, cServer.c:885).               *)
THEOREM ToldMeansComplete == FaultSpec => ToldWhenComplete
<1>1. FaultIInv /\ [FaultNext]_faultVars =>
        [Active /\ ~misled /\ ipcOut' > ipcOut =>
           \A b \in counted, p \in Ports :
             pidx[b][p] + (wire[b][p] - wire'[b][p]) = ServerLen(p)]_faultVars
  BY ToldStep
<1>2. QED
  BY <1>1, FaultInvariance, PTL DEF FaultSpec, ToldWhenComplete
=============================================================================
