------------------------ MODULE AcquisitionInvariant ------------------------
(***************************************************************************)
(* The inductive invariant of the acquisition: what makes the bare byte    *)
(* count of the server enough to know that every packet is complete.       *)
(***************************************************************************)
EXTENDS Acquisition

(* One query is under way at most, and its notification is the only one.   *)
OneQueryAtATime ==
  \/ ui = "ready" /\ ipcIn = <<>> /\ ipcOut = 0
  \/ ui = "waiting" /\ Len(ipcIn) = 1 /\ ipcOut = 0
  \/ ui = "waiting" /\ ipcIn = <<>> /\ ipcOut \in {0, 1}

(* Between queries nothing is under way: every socket is rewound, every    *)
(* wire empty, and the only orders about are trailing ones.                *)
QuietBetweenQueries ==
  ~Active => /\ \A b \in Boards, p \in Ports : pidx[b][p] = 0 /\ wire[b][p] = 0
             /\ \A b \in Boards : /\ hps[b] # "sending"
                                  /\ ~HoldsOrder(b)
                                  /\ ~QueuedOrder(b)

(* During a query recvCount is the number of bytes that have arrived.      *)
CountIsDelivered == Active => recvCount = Cardinality(Delivered)

(* Packets go on the wire whole, and never more than one on a socket.      *)
WholePackets(b) == \A p \in Ports : Sent(b, p) \in {0, ServerLen(p)}

(* Ports are served in order: when p has been sent, so have those before   *)
(* it, and in one-at-a-time mode those have arrived.                       *)
InPortOrder(b) ==
  \A p, q \in Ports :
    q < p /\ Sent(b, p) # 0 =>
      /\ Sent(b, q) = ServerLen(q)
      /\ recvIndividually = 1 => pidx[b][q] = ServerLen(q)

(* The place an order has in the record: the ports up to idx have been     *)
(* sent, and have arrived, and the ones after it have not.                 *)
OrderFits(b, m) ==
  /\ m.each = recvIndividually
  /\ m.each = 0 => m.idx = 0
  /\ \A p \in Ports :
       /\ p <= m.idx => pidx[b][p] = ServerLen(p)
       /\ p > m.idx => Sent(b, p) = 0

(* An order for data is the last message of its queue and the only one, in *)
(* the queue or in hand, and it fits the record.                           *)
QueuedOrdersFit(b) ==
  \A i \in 1..Len(comm[b]) :
    Orders(comm[b][i]) => /\ i = Len(comm[b])
                          /\ hps[b] # "sending"
                          /\ ~HoldsOrder(b)
                          /\ OrderFits(b, comm[b][i])
HeldOrderFits(b) == HoldsOrder(b) => OrderFits(b, order[b])

(* A sending board is at the first port it has not sent.                   *)
SendingFits(b) ==
  hps[b] = "sending" =>
    /\ order[b].each = recvIndividually
    /\ Orders(order[b])
    /\ port[b] \in Ports
    /\ order[b].each = 1 => port[b] = order[b].idx + 1
    /\ \A p \in Ports :
         /\ p < port[b] => Sent(b, p) = ServerLen(p)
         /\ p < port[b] /\ recvIndividually = 1 => pidx[b][p] = ServerLen(p)
         /\ p >= port[b] => Sent(b, p) = 0

(* In one-at-a-time mode no order waits while a packet is under way.       *)
NoOrderDuringPacket(b) ==
  recvIndividually = 1 /\ (\E p \in Ports : wire[b][p] # 0) =>
    hps[b] # "sending" /\ ~HoldsOrder(b) /\ ~QueuedOrder(b)

BoardInv(b) == /\ WholePackets(b)
               /\ InPortOrder(b)
               /\ QueuedOrdersFit(b)
               /\ HeldOrderFits(b)
               /\ SendingFits(b)
               /\ NoOrderDuringPacket(b)

IInv == /\ OneQueryAtATime
        /\ QuietBetweenQueries
        /\ CountIsDelivered
        /\ \A b \in Boards : BoardInv(b)

-----------------------------------------------------------------------------
(* What keeps trailing orders and the FPGA's record apart.  It rests on    *)
(* IInv and adds what that leaves open: IInv says nothing of trailing      *)
(* orders, nor of transReady and taken.                                    *)

HoldsTrailing(b) == hps[b] = "waiting" /\ Trailing(order[b])
QueuedTrailing(b) == \E i \in 1..Len(comm[b]) : Trailing(comm[b][i])

(* One trailing order is about at most, ...                                *)
OneTrailing(b) ==
  /\ HoldsTrailing(b) => ~QueuedTrailing(b)
  /\ \A i, j \in 1..Len(comm[b]) :
       Trailing(comm[b][i]) /\ Trailing(comm[b][j]) => i = j

(* ... and none while a record is sent and not yet all there.              *)
NoTrailingMidRecord(b) ==
  (\E p \in Ports : Sent(b, p) # 0) /\ pidx[b][NumPorts] # ServerLen(NumPorts)
    => ~HoldsTrailing(b) /\ ~QueuedTrailing(b)

(* A board at work on an order has no message waiting behind it.           *)
OrderIsLast(b) == HoldsOrder(b) \/ hps[b] = "sending" => comm[b] = <<>>

(* The ports sent of the record in the FPGA are those sent of the query,   *)
(* until the last has been: then the FPGA is reset, and only then.         *)
Begun(b) == IF Sent(b, NumPorts) = 0 THEN {p \in Ports : Sent(b, p) # 0} ELSE {}
TakenIsSent(b) == IF hps[b] = "resetting" THEN Begun(b) = {}
                                          ELSE taken[b] = Begun(b)

(* The FPGA holds the record that is being sent.                           *)
RecordIsHeld(b) == /\ hps[b] = "sending" => transReady[b]
                   /\ hps[b] # "resetting" /\ taken[b] # {} => transReady[b]

RecordInv(b) == /\ OneTrailing(b)
                /\ NoTrailingMidRecord(b)
                /\ OrderIsLast(b)
                /\ TakenIsSent(b)
                /\ RecordIsHeld(b)

RInv == \A b \in Boards : RecordInv(b)
=============================================================================
