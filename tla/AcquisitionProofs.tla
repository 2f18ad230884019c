-------------------------- MODULE AcquisitionProofs --------------------------
(***************************************************************************)
(* The arithmetic of the record layout, and the safety of the acquisition  *)
(* for every set of boards, record length and packet size.  Inv is         *)
(* inductive: it holds initially and each action keeps it, and the         *)
(* properties of Acquisition follow from it.                               *)
(***************************************************************************)
EXTENDS AcquisitionInvariant, TLAPS, FiniteSetTheorems,
        SequenceTheorems

-----------------------------------------------------------------------------
(* The record layout: both programs cut the record at the same places, and *)
(* the pieces tile it.                                                     *)

(* Euclidean division, in the form the other lemmas use it.                *)
LEMMA Division ==
  ASSUME NEW a \in Nat, NEW d \in Nat \ {0}
  PROVE  /\ a \div d \in Nat
         /\ a % d \in 0..(d - 1)
         /\ a = d * (a \div d) + (a % d)
  OBVIOUS

(* A product of naturals is monotonic, and grows by d with each step.      *)
LEMMA Product ==
  ASSUME NEW d \in Nat \ {0}, NEW m \in Nat, NEW n \in Nat, m < n
  PROVE  /\ m * d \in Nat
         /\ n * d \in Nat
         /\ m * d + d <= n * d
  OBVIOUS

(* A smaller stride comes to a nearer place.                               *)
LEMMA Scaled ==
  ASSUME NEW k \in Nat, NEW m \in Nat, NEW n \in Nat, m <= n
  PROVE  /\ k * m \in Nat
         /\ k * m <= k * n
         /\ k * n \in Nat
         /\ k # 0 /\ m < n => k * m < k * n
<1>1. k * n = k * m + k * (n - m) /\ n - m \in Nat
  OBVIOUS
<1>2. k * m \in Nat /\ k * (n - m) \in Nat
  BY <1>1
<1>3. k # 0 /\ m < n => k * (n - m) # 0
  OBVIOUS
<1>4. QED
  BY <1>1, <1>2, <1>3

(* NumPorts packets are enough for the record and one less are not.        *)
LEMMA NumPortsBounds ==
  /\ NumPorts \in Nat \ {0}
  /\ (NumPorts - 1) * PacketSize \in Nat
  /\ (NumPorts - 1) * PacketSize < RecLen
  /\ RecLen <= (NumPorts - 1) * PacketSize + PacketSize
<1> DEFINE q == (RecLen - 1) \div PacketSize
<1>1. /\ q \in Nat
      /\ RecLen - 1 = PacketSize * q + ((RecLen - 1) % PacketSize)
      /\ (RecLen - 1) % PacketSize \in 0..(PacketSize - 1)
  <2>1. RecLen - 1 \in Nat /\ PacketSize \in Nat \ {0}
    BY RecordAssumption
  <2>2. QED
    BY <2>1, Division
<1>2. NumPorts = q + 1 /\ NumPorts - 1 = q
  BY <1>1 DEF NumPorts
<1>3. PacketSize * q = q * PacketSize /\ q * PacketSize \in Nat
  BY <1>1, RecordAssumption
<1>4. RecLen \in Nat /\ PacketSize \in Nat \ {0}
  BY RecordAssumption
<1> HIDE DEF q
<1>5. QED
  BY <1>1, <1>2, <1>3, <1>4

(* What the server's remainder rule comes to: every port but the last      *)
(* carries a whole packet, and the last one the rest of the record.        *)
LEMMA ServerLenClosed ==
  /\ \A p \in Ports : p < NumPorts => ServerLen(p) = PacketSize
  /\ ServerLen(NumPorts) = RecLen - (NumPorts - 1) * PacketSize
<1> DEFINE n == NumPorts
           k == RecLen \div PacketSize
           r == RecLen % PacketSize
<1>1. RecLen \in Nat \ {0} /\ PacketSize \in Nat \ {0}
  BY RecordAssumption
<1>2. k \in Nat /\ r \in 0..(PacketSize - 1) /\ RecLen = k * PacketSize + r
  <2>1. k \in Nat /\ r \in 0..(PacketSize - 1) /\ RecLen = PacketSize * k + r
    BY <1>1, Division
  <2>2. PacketSize * k = k * PacketSize
    BY <1>1, <2>1
  <2>3. QED
    BY <2>1, <2>2
<1>3. /\ n \in Nat \ {0} /\ (n - 1) * PacketSize \in Nat
      /\ (n - 1) * PacketSize < RecLen
      /\ RecLen <= (n - 1) * PacketSize + PacketSize
  BY NumPortsBounds
<1>4. \A p \in Ports : p < NumPorts => ServerLen(p) = PacketSize
  BY <1>3 DEF ServerLen, Ports
<1>5. CASE r = 0
  <2>1. n - 1 < k
    <3>1. k < n - 1 => k * PacketSize + PacketSize <= (n - 1) * PacketSize
      BY <1>1, <1>2, <1>3, Product
    <3>2. k * PacketSize \in Nat
      BY <1>1, <1>2
    <3>3. k = n - 1 => k * PacketSize = (n - 1) * PacketSize
      OBVIOUS
    <3> HIDE DEF k, r, n
    <3>4. QED
      BY <1>1, <1>2, <1>3, <1>5, <3>1, <3>2, <3>3
  <2>2. (n - 1) * PacketSize + PacketSize <= k * PacketSize
    BY <1>1, <1>2, <1>3, <2>1, Product
  <2>3. ServerLen(n) = PacketSize
    BY <1>5 DEF ServerLen
  <2> HIDE DEF k, r
  <2>4. k * PacketSize \in Nat
    BY <1>1, <1>2
  <2>5. QED
    BY <1>1, <1>2, <1>3, <1>4, <1>5, <2>2, <2>3, <2>4
<1>6. CASE r # 0
  <2>1. k = n - 1
    <3>1. k < n - 1 => k * PacketSize + PacketSize <= (n - 1) * PacketSize
      BY <1>1, <1>2, <1>3, Product
    <3>2. n - 1 < k => (n - 1) * PacketSize + PacketSize <= k * PacketSize
      BY <1>1, <1>2, <1>3, Product
    <3>3. k * PacketSize \in Nat
      BY <1>1, <1>2
    <3> HIDE DEF k, r, n
    <3>4. QED
      BY <1>1, <1>2, <1>3, <1>6, <3>1, <3>2, <3>3
  <2>2. ServerLen(n) = r
    BY <1>6 DEF ServerLen
  <2>3. (n - 1) * PacketSize = k * PacketSize
    BY <2>1
  <2>4. QED
    BY <1>1, <1>2, <1>3, <1>4, <2>2, <2>3
<1>7. QED
  BY <1>2, <1>5, <1>6

(* The place of a port: its segment begins inside the record, and it is    *)
(* the last one exactly when less than a packet is left after it.          *)
LEMMA PortPlace ==
  ASSUME NEW p \in Ports
  PROVE  /\ p \in Nat \ {0} /\ p <= NumPorts
         /\ (p - 1) * PacketSize \in Nat
         /\ p < NumPorts =>
              (p - 1) * PacketSize + PacketSize <= (NumPorts - 1) * PacketSize
<1>1. p \in Nat \ {0} /\ p <= NumPorts /\ NumPorts \in Nat \ {0}
  BY NumPortsBounds DEF Ports
<1>2. PacketSize \in Nat \ {0}
  BY RecordAssumption
<1>3. (p - 1) * PacketSize \in Nat
  BY <1>1, <1>2
<1>4. ASSUME p < NumPorts
      PROVE  (p - 1) * PacketSize + PacketSize <= (NumPorts - 1) * PacketSize
  <2>1. p - 1 \in Nat /\ NumPorts - 1 \in Nat /\ p - 1 < NumPorts - 1
    BY <1>1, <1>4
  <2>2. QED
    BY <1>2, <2>1, Product
<1>5. QED
  BY <1>1, <1>3, <1>4

(* Every segment is a part of a packet, and not empty.                     *)
LEMMA ServerLenRange ==
  ASSUME NEW p \in Ports
  PROVE  ServerLen(p) \in 1..PacketSize
<1>1. CASE p < NumPorts
  BY <1>1, ServerLenClosed, RecordAssumption
<1>2. CASE p = NumPorts
  BY <1>2, ServerLenClosed, NumPortsBounds, RecordAssumption
<1>3. QED
  BY <1>1, <1>2, PortPlace, NumPortsBounds

(* The board and the server agree on the length of every port: the board's *)
(* minimum of packet and rest (client_funcs.h:252) and the server's        *)
(* remainder rule (cServer.c:374-382) are the same function.               *)
THEOREM LengthsAgree == \A p \in Ports : ClientLen(p) = ServerLen(p)
<1> SUFFICES ASSUME NEW p \in Ports
             PROVE  ClientLen(p) = ServerLen(p)
  OBVIOUS
<1>1. RecLen \in Nat /\ PacketSize \in Nat \ {0}
  BY RecordAssumption
<1>2. CASE p < NumPorts
  <2>1. ServerLen(p) = PacketSize
    BY <1>2, ServerLenClosed
  <2>2. PacketSize < AddrRemainder(p)
    BY <1>1, <1>2, PortPlace, NumPortsBounds DEF AddrRemainder
  <2>3. QED
    BY <2>1, <2>2 DEF ClientLen
<1>3. CASE p = NumPorts
  <2>1. ServerLen(p) = AddrRemainder(p)
    BY <1>3, ServerLenClosed DEF AddrRemainder
  <2>2. AddrRemainder(p) <= PacketSize /\ AddrRemainder(p) \in Nat
    BY <1>1, <1>3, NumPortsBounds DEF AddrRemainder
  <2>3. QED
    BY <1>1, <2>1, <2>2 DEF ClientLen
<1>4. QED
  BY <1>2, <1>3, PortPlace, NumPortsBounds

(* What a port carries falls inside the board's part of the data array.    *)
LEMMA OffsetInRecord ==
  ASSUME NEW p \in Ports, NEW i \in 0..(ServerLen(p) - 1)
  PROVE  RecordOffset(p, i) \in 0..(RecLen - 1)
<1>1. RecLen \in Nat /\ PacketSize \in Nat \ {0} /\ i \in Nat /\ i < ServerLen(p)
  BY RecordAssumption, ServerLenRange
<1>2. CASE p < NumPorts
  BY <1>1, <1>2, ServerLenClosed, PortPlace, NumPortsBounds DEF RecordOffset
<1>3. CASE p = NumPorts
  BY <1>1, <1>3, ServerLenClosed, PortPlace, NumPortsBounds DEF RecordOffset
<1>4. QED
  BY <1>2, <1>3, PortPlace, NumPortsBounds

(* No two places of two ports are the same byte of the record.             *)
LEMMA OffsetInjective ==
  ASSUME NEW p \in Ports, NEW q \in Ports,
         NEW i \in 0..(PacketSize - 1), NEW j \in 0..(PacketSize - 1),
         RecordOffset(p, i) = RecordOffset(q, j)
  PROVE  p = q /\ i = j
<1>1. /\ PacketSize \in Nat \ {0} /\ i \in Nat /\ j \in Nat
      /\ i < PacketSize /\ j < PacketSize
  BY RecordAssumption
<1>2. p \in Nat \ {0} /\ q \in Nat \ {0}
  BY PortPlace
<1>3. (p - 1) * PacketSize \in Nat /\ (q - 1) * PacketSize \in Nat
  BY PortPlace
<1>4. (p - 1) * PacketSize + i = (q - 1) * PacketSize + j
  BY DEF RecordOffset
<1>5. ASSUME p < q PROVE FALSE
  <2>1. p - 1 \in Nat /\ q - 1 \in Nat /\ p - 1 < q - 1
    BY <1>2, <1>5
  <2>2. (p - 1) * PacketSize + PacketSize <= (q - 1) * PacketSize
    BY <1>1, <2>1, Product
  <2>3. QED
    BY <1>1, <1>3, <1>4, <2>2
<1>6. ASSUME q < p PROVE FALSE
  <2>1. p - 1 \in Nat /\ q - 1 \in Nat /\ q - 1 < p - 1
    BY <1>2, <1>6
  <2>2. (q - 1) * PacketSize + PacketSize <= (p - 1) * PacketSize
    BY <1>1, <2>1, Product
  <2>3. QED
    BY <1>1, <1>3, <1>4, <2>2
<1>7. p = q
  BY <1>2, <1>5, <1>6
<1>8. QED
  BY <1>1, <1>3, <1>4, <1>7
(* What the board reads for a port lies inside its record: the memory      *)
(* behind it is never sent, however the record is cut.                     *)
THEOREM SourcesInRecord ==
  \A p \in Ports : /\ ClientSource(p) \in Nat
                   /\ ClientSource(p) + ClientLen(p) <= RecLen
<1> SUFFICES ASSUME NEW p \in Ports
             PROVE  /\ ClientSource(p) \in Nat
                    /\ ClientSource(p) + ClientLen(p) <= RecLen
  OBVIOUS
<1>1. RecLen \in Nat /\ PacketSize \in Nat \ {0} /\ p - 1 \in Nat
  BY RecordAssumption, PortPlace
<1>2. ClientLen(p) \in 1..PacketSize /\ ClientLen(p) <= AddrRemainder(p)
  <2>1. ClientLen(p) \in 1..PacketSize
    BY LengthsAgree, ServerLenRange
  <2>2. AddrRemainder(p) \in Int
    BY <1>1, PortPlace DEF AddrRemainder
  <2>3. QED
    BY <1>1, <2>1, <2>2 DEF ClientLen
<1>3. AddrRemainder(p) = RecLen - (p - 1) * PacketSize
  BY DEF AddrRemainder
<1>4. /\ (p - 1) * ClientLen(p) \in Nat
      /\ (p - 1) * ClientLen(p) <= (p - 1) * PacketSize
      /\ (p - 1) * PacketSize \in Nat
  BY <1>1, <1>2, Scaled
<1>5. QED
  BY <1>1, <1>2, <1>3, <1>4 DEF ClientSource

(* A whole packet is read from the place the server stores it at.          *)
THEOREM WholePacketsInPlace ==
  \A p \in Ports : ClientLen(p) = PacketSize => ClientSource(p) = RecordOffset(p, 0)
<1> SUFFICES ASSUME NEW p \in Ports, ClientLen(p) = PacketSize
             PROVE  ClientSource(p) = RecordOffset(p, 0)
  OBVIOUS
<1>1. (p - 1) * PacketSize \in Nat
  BY PortPlace
<1>2. QED
  BY <1>1 DEF ClientSource, RecordOffset

(* A short last packet is not: its length is also its stride               *)
(* (client_funcs.h:253), so the last sample of such a record is on no port.*)
THEOREM LastSampleNotSent ==
  ASSUME RecLen % PacketSize # 0, NumPorts > 1
  PROVE  \A p \in Ports : \A i \in 0..(ClientLen(p) - 1) :
           ClientSource(p) + i # RecLen - 1
<1> SUFFICES ASSUME NEW p \in Ports, NEW i \in 0..(ClientLen(p) - 1)
             PROVE  ClientSource(p) + i < RecLen - 1
  BY RecordAssumption, SourcesInRecord
<1>1. /\ RecLen \in Nat /\ PacketSize \in Nat \ {0} /\ NumPorts \in Nat \ {0}
      /\ p \in Nat \ {0} /\ p <= NumPorts
      /\ (NumPorts - 1) * PacketSize \in Nat
      /\ (NumPorts - 1) * PacketSize < RecLen
  BY RecordAssumption, PortPlace, NumPortsBounds
<1>2. ClientLen(p) = ServerLen(p) /\ ServerLen(p) \in 1..PacketSize
  BY LengthsAgree, ServerLenRange
<1>3. ClientSource(p) = (p - 1) * ClientLen(p)
  BY DEF ClientSource
<1>4. CASE p < NumPorts
  <2>1. ClientLen(p) = PacketSize
    BY <1>2, <1>4, ServerLenClosed
  <2>2. (p - 1) * PacketSize + PacketSize <= (NumPorts - 1) * PacketSize
    BY <1>4, PortPlace
  <2>3. (p - 1) * PacketSize \in Nat
    BY PortPlace
  <2>4. QED
    BY <1>1, <1>3, <2>1, <2>2, <2>3
<1>5. CASE p = NumPorts
  <2>1. ClientLen(p) = RecLen - (NumPorts - 1) * PacketSize
    BY <1>2, <1>5, ServerLenClosed
  <2>2. ClientLen(p) < PacketSize
    <3>1. ClientLen(p) = RecLen % PacketSize
      BY <1>2, <1>5 DEF ServerLen
    <3>2. QED
      BY <1>1, <3>1, Division
  <2>3. (NumPorts - 1) * ClientLen(p) < (NumPorts - 1) * PacketSize
    BY <1>1, <1>2, <2>2, Scaled
  <2>4. (NumPorts - 1) * ClientLen(p) \in Nat
    BY <1>1, <1>2, Scaled
  <2>5. QED
    BY <1>1, <1>2, <1>3, <1>5, <2>1, <2>3, <2>4
<1>6. QED
  BY <1>1, <1>4, <1>5

-----------------------------------------------------------------------------
(* Counting what has been delivered.  The server keeps one number for all  *)
(* boards and ports; these lemmas relate it to the set of bytes that have  *)
(* arrived: the bytes of a recv are new, and when the number reaches Total *)
(* there is nothing left to arrive.                                        *)

(* Which bytes a reading f of the sockets' indexes has delivered.          *)
LEMMA DeliveredMember ==
  ASSUME NEW f, NEW b \in Boards, NEW x
  PROVE  <<b, x>> \in DeliveredBy(f) <=>
           \E p \in Ports : \E i \in 0..(PacketSize - 1) :
             i < f[b][p] /\ x = RecordOffset(p, i)
<1> DEFINE T == {u \in Boards \X Ports \X (0..(PacketSize - 1)) :
                   u[3] < f[u[1]][u[2]]}
<1>1. ASSUME <<b, x>> \in DeliveredBy(f)
      PROVE  \E p \in Ports : \E i \in 0..(PacketSize - 1) :
               i < f[b][p] /\ x = RecordOffset(p, i)
  <2>1. PICK t \in T : <<b, x>> = <<t[1], RecordOffset(t[2], t[3])>>
    BY <1>1 DEF DeliveredBy
  <2>2. /\ t[2] \in Ports /\ t[3] \in 0..(PacketSize - 1)
        /\ t[3] < f[t[1]][t[2]] /\ b = t[1] /\ x = RecordOffset(t[2], t[3])
    BY <2>1
  <2>3. QED
    BY <2>2
<1>2. ASSUME NEW p \in Ports, NEW i \in 0..(PacketSize - 1),
             i < f[b][p], x = RecordOffset(p, i)
      PROVE  <<b, x>> \in DeliveredBy(f)
  <2>1. <<b, p, i>> \in T
    BY <1>2
  <2>2. <<b, x>> = <<<<b, p, i>>[1], RecordOffset(<<b, p, i>>[2], <<b, p, i>>[3])>>
    BY <1>2
  <2>3. QED
    BY <2>1, <2>2 DEF DeliveredBy
<1>3. QED
  BY <1>1, <1>2

(* Every delivered byte is a byte of some board.                           *)
LEMMA DeliveredShape ==
  ASSUME NEW f, NEW u \in DeliveredBy(f)
  PROVE  u[1] \in Boards /\ u = <<u[1], u[2]>>
BY DEF DeliveredBy

(* Readings of the indexes that stay in their segments.                    *)
Readings == {f \in [Boards -> [Ports -> Nat]] :
               \A b \in Boards, p \in Ports : f[b][p] <= ServerLen(p)}

(* There are Total bytes in the records of all the boards.                 *)
LEMMA UnitsCount == /\ IsFiniteSet(Units)
                    /\ Cardinality(Units) = Total
                    /\ Total \in Nat \ {0}
<1>1. IsFiniteSet(0..(RecLen - 1)) /\ Cardinality(0..(RecLen - 1)) = RecLen
  BY FS_Interval, RecordAssumption
<1>2. IsFiniteSet(Boards) /\ Boards # {}
  BY BoardsAssumption
<1>3. IsFiniteSet(Units) /\ Cardinality(Units) = Cardinality(Boards) * RecLen
  BY <1>1, <1>2, FS_Product DEF Units
<1>4. Cardinality(Boards) \in Nat /\ Cardinality(Boards) # 0
  BY <1>2, FS_EmptySet, FS_CardinalityType
<1>5. RecLen \in Nat \ {0}
  BY RecordAssumption
<1>6. /\ RecLen * Cardinality(Boards) = Cardinality(Boards) * RecLen
      /\ RecLen * Cardinality(Boards) \in Nat \ {0}
  BY <1>4, <1>5
<1>7. QED
  BY <1>3, <1>6 DEF Total

(* What has been delivered is part of the records.                         *)
LEMMA DeliveredInUnits ==
  ASSUME NEW f \in Readings
  PROVE  /\ DeliveredBy(f) \subseteq Units
         /\ IsFiniteSet(DeliveredBy(f))
         /\ Cardinality(DeliveredBy(f)) \in Nat
         /\ Cardinality(DeliveredBy(f)) <= Total
         /\ Cardinality(DeliveredBy(f)) = Total => DeliveredBy(f) = Units
<1>1. ASSUME NEW u \in DeliveredBy(f)
      PROVE  u \in Units
  <2>1. u[1] \in Boards /\ u = <<u[1], u[2]>>
    BY DeliveredShape
  <2>2. <<u[1], u[2]>> \in DeliveredBy(f)
    BY <2>1, Zenon
  <2>3. \A b \in Boards : \A x : <<b, x>> \in DeliveredBy(f) =>
          \E p \in Ports : \E i \in 0..(PacketSize - 1) :
             i < f[b][p] /\ x = RecordOffset(p, i)
    BY DeliveredMember
  <2>4. PICK p \in Ports, i \in 0..(PacketSize - 1) :
           i < f[u[1]][p] /\ u[2] = RecordOffset(p, i)
    BY <2>1, <2>2, <2>3
  <2>5. f[u[1]][p] \in Nat /\ f[u[1]][p] <= ServerLen(p)
    BY <2>1 DEF Readings
  <2>6. i \in 0..(ServerLen(p) - 1)
    BY <2>4, <2>5, ServerLenRange, RecordAssumption
  <2>7. u[2] \in 0..(RecLen - 1)
    BY <2>4, <2>6, OffsetInRecord
  <2>8. QED
    BY <2>1, <2>7 DEF Units
<1>2. DeliveredBy(f) \in SUBSET Units
  BY <1>1
<1>3. QED
  BY <1>2, UnitsCount, FS_Subset, FS_CardinalityType

(* When all the records have been delivered, every socket is at the end of *)
(* its segment.                                                            *)
LEMMA AllDelivered ==
  ASSUME NEW f \in Readings, DeliveredBy(f) = Units,
         NEW b \in Boards, NEW p \in Ports
  PROVE  f[b][p] = ServerLen(p)
<1> DEFINE last == ServerLen(p) - 1
<1>1. /\ ServerLen(p) \in 1..PacketSize /\ PacketSize \in Nat
      /\ last \in 0..(ServerLen(p) - 1) /\ last \in 0..(PacketSize - 1)
  BY ServerLenRange, RecordAssumption
<1>2. <<b, RecordOffset(p, last)>> \in DeliveredBy(f)
  BY <1>1, OffsetInRecord DEF Units
<1>3. PICK q \in Ports, j \in 0..(PacketSize - 1) :
         j < f[b][q] /\ RecordOffset(p, last) = RecordOffset(q, j)
  BY <1>2, DeliveredMember
<1>4. q = p /\ j = last
  BY <1>1, <1>3, OffsetInjective
<1>5. f[b][p] \in Nat /\ f[b][p] <= ServerLen(p)
  BY DEF Readings
<1>6. QED
  BY <1>1, <1>3, <1>4, <1>5

(* Before the first byte nothing has been delivered.                       *)
LEMMA NothingDelivered ==
  ASSUME NEW f, \A b \in Boards, p \in Ports : f[b][p] = 0
  PROVE  DeliveredBy(f) = {} /\ Cardinality(DeliveredBy(f)) = 0
<1>1. ASSUME NEW u \in DeliveredBy(f) PROVE FALSE
  <2>1. u[1] \in Boards /\ u = <<u[1], u[2]>>
    BY DeliveredShape
  <2>2. <<u[1], u[2]>> \in DeliveredBy(f)
    BY <2>1, Zenon
  <2>3. \A b \in Boards : \A x : <<b, x>> \in DeliveredBy(f) =>
          \E p \in Ports : \E i \in 0..(PacketSize - 1) :
             i < f[b][p] /\ x = RecordOffset(p, i)
    BY DeliveredMember
  <2>4. PICK p \in Ports, i \in 0..(PacketSize - 1) : i < f[u[1]][p]
    BY <2>1, <2>2, <2>3
  <2>5. QED
    BY <2>1, <2>4, RecordAssumption
<1>2. DeliveredBy(f) = {}
  BY <1>1
<1>3. QED
  BY <1>2, FS_EmptySet

(* g is the reading f after a recv of k bytes on port p of board b.        *)
Advances(f, g, b, p, k) ==
  /\ g \in [Boards -> [Ports -> Nat]]
  /\ g[b][p] = f[b][p] + k
  /\ \A c \in Boards, q \in Ports : c # b \/ q # p => g[c][q] = f[c][q]

(* The k bytes of a recv are k bytes that had not been delivered before.   *)
LEMMA Arrival ==
  ASSUME NEW f \in Readings, NEW b \in Boards, NEW p \in Ports,
         NEW k \in Nat \ {0}, f[b][p] + k <= ServerLen(p),
         NEW g, Advances(f, g, b, p, k)
  PROVE  /\ g \in Readings
         /\ DeliveredBy(f) \subseteq DeliveredBy(g)
         /\ DeliveredBy(f) # DeliveredBy(g)
         /\ Cardinality(DeliveredBy(g)) = Cardinality(DeliveredBy(f)) + k
<1> DEFINE first == f[b][p]
           last == f[b][p] + k - 1
           New == {<<b, RecordOffset(p, i)>> : i \in first..last}
<1>1. /\ f \in [Boards -> [Ports -> Nat]] /\ first \in Nat
      /\ \A c \in Boards, q \in Ports : f[c][q] \in Nat /\ f[c][q] <= ServerLen(q)
  BY DEF Readings
<1>2. g \in Readings
  <2>1. \A c \in Boards, q \in Ports : g[c][q] <= ServerLen(q)
    BY <1>1 DEF Advances
  <2>2. QED
    BY <2>1 DEF Readings, Advances
<1>3. /\ first..last \subseteq 0..(ServerLen(p) - 1)
      /\ first..last \subseteq 0..(PacketSize - 1)
      /\ first \in first..last
      /\ ServerLen(p) \in Nat /\ PacketSize \in Nat
  BY <1>1, ServerLenRange, RecordAssumption
<1> HIDE DEF first, last
<1>4. ASSUME NEW c \in Boards, NEW x
      PROVE  <<c, x>> \in DeliveredBy(g) <=>
               <<c, x>> \in DeliveredBy(f) \/ <<c, x>> \in New
  <2>1. <<c, x>> \in DeliveredBy(g) <=>
          \E q \in Ports : \E i \in 0..(PacketSize - 1) :
            i < g[c][q] /\ x = RecordOffset(q, i)
    BY DeliveredMember
  <2>2. <<c, x>> \in DeliveredBy(f) <=>
          \E q \in Ports : \E i \in 0..(PacketSize - 1) :
            i < f[c][q] /\ x = RecordOffset(q, i)
    BY DeliveredMember
  <2>3. <<c, x>> \in New <=>
          c = b /\ \E i \in first..last : x = RecordOffset(p, i)
    OBVIOUS
  <2>4. \A q \in Ports, i \in 0..(PacketSize - 1) :
          i < g[c][q] <=>
            i < f[c][q] \/ (c = b /\ q = p /\ i \in first..last)
    <3> SUFFICES ASSUME NEW q \in Ports, NEW i \in 0..(PacketSize - 1)
                 PROVE  i < g[c][q] <=>
                          i < f[c][q] \/ (c = b /\ q = p /\ i \in first..last)
      OBVIOUS
    <3>1. CASE c = b /\ q = p
      BY <1>1, <1>3, <3>1 DEF first, last, Advances
    <3>2. CASE c # b \/ q # p
      BY <3>2 DEF Advances
    <3>3. QED
      BY <3>1, <3>2
  <2>5. QED
    BY <1>3, <2>1, <2>2, <2>3, <2>4
<1>5. DeliveredBy(g) = DeliveredBy(f) \cup New
  <2>1. ASSUME NEW u
        PROVE  u \in DeliveredBy(g) <=> u \in DeliveredBy(f) \cup New
    <3>1. CASE \E c \in Boards : \E x : u = <<c, x>>
      <4>1. PICK c \in Boards : \E x : u = <<c, x>>
        BY <3>1
      <4>2. PICK x : u = <<c, x>>
        BY <4>1
      <4> HIDE DEF New
      <4>3. QED
        BY <1>4, <4>2
    <3>2. CASE ~ \E c \in Boards : \E x : u = <<c, x>>
      <4>1. u \notin DeliveredBy(g) /\ u \notin DeliveredBy(f)
        BY <3>2, DeliveredShape
      <4>2. u \notin New
        BY <3>2
      <4>3. QED
        BY <4>1, <4>2
    <3>3. QED
      BY <3>1, <3>2
  <2> HIDE DEF New
  <2>2. QED
    BY <2>1
<1>6. DeliveredBy(f) \cap New = {}
  <2> SUFFICES ASSUME NEW i \in first..last,
                      <<b, RecordOffset(p, i)>> \in DeliveredBy(f)
               PROVE  FALSE
    OBVIOUS
  <2>1. PICK q \in Ports, j \in 0..(PacketSize - 1) :
           j < f[b][q] /\ RecordOffset(p, i) = RecordOffset(q, j)
    BY DeliveredMember
  <2>2. q = p /\ j = i
    BY <1>3, <2>1, OffsetInjective
  <2>3. QED
    BY <1>1, <2>1, <2>2 DEF first, last
<1>7. IsFiniteSet(New) /\ Cardinality(New) = k
  <2> DEFINE h == [i \in first..last |-> <<b, RecordOffset(p, i)>>]
  <2>1. h \in Bijection(first..last, New)
    <3>1. \A i, j \in first..last : h[i] = h[j] => i = j
      BY <1>3, OffsetInjective
    <3>2. QED
      BY <3>1 DEF Bijection, Injection, Surjection, IsInjective
  <2>2. ExistsBijection(first..last, New)
    BY <2>1 DEF ExistsBijection
  <2>3. IsFiniteSet(first..last) /\ Cardinality(first..last) = k
    <3>1. /\ first \in Int /\ last \in Int /\ ~(first > last)
          /\ last - first + 1 = k
      BY <1>1 DEF first, last
    <3> HIDE DEF first, last
    <3>2. QED
      BY <3>1, FS_Interval
  <2> HIDE DEF New
  <2>4. QED
    BY <2>2, <2>3, FS_Bijection
<1>8. <<b, RecordOffset(p, first)>> \in New
  BY <1>3
<1> HIDE DEF New
<1>9. IsFiniteSet(DeliveredBy(f)) /\ Cardinality(DeliveredBy(f)) \in Nat
  BY DeliveredInUnits
<1>10. Cardinality(DeliveredBy(g)) = Cardinality(DeliveredBy(f)) + k
  <2>1. Cardinality(DeliveredBy(f) \cup New)
          = Cardinality(DeliveredBy(f)) + Cardinality(New)
              - Cardinality(DeliveredBy(f) \cap New)
    BY <1>7, <1>9, FS_Union
  <2>2. Cardinality(DeliveredBy(f) \cap New) = 0
    BY <1>6, FS_EmptySet
  <2>3. QED
    BY <1>5, <1>7, <1>9, <2>1, <2>2
<1>11. QED
  BY <1>2, <1>5, <1>6, <1>8, <1>10

-----------------------------------------------------------------------------
(* The inductive invariant *)

Inv == TypeOK /\ IInv

(* Facts about the constants that most steps need.                         *)
LEMMA ConstantFacts ==
  /\ NumPorts \in Nat \ {0}
  /\ Ports = 1..NumPorts
  /\ NumPorts \in Ports
  /\ \A p \in Ports : ServerLen(p) \in Nat \ {0} /\ ClientLen(p) = ServerLen(p)
  /\ Total \in Nat \ {0}
BY NumPortsBounds, ServerLenRange, LengthsAgree, UnitsCount, RecordAssumption
   DEF Ports

LEMMA InitInv == Init => Inv
<1> SUFFICES ASSUME Init PROVE Inv
  OBVIOUS
<1>1. TypeOK
  <2>1. [each |-> 0, idx |-> 0] \in Query
    BY ConstantFacts DEF Query
  <2>2. /\ order \in [Boards -> Query]
        /\ comm \in [Boards -> Seq(Query)]
    BY <2>1 DEF Init
  <2>3. /\ pidx \in [Boards -> [Ports -> Nat]]
        /\ wire \in [Boards -> [Ports -> Nat]]
        /\ port \in [Boards -> 0..NumPorts]
    BY NumPortsBounds DEF Init
  <2>4. hps \in [Boards -> {"idle", "waiting", "sending", "resetting"}]
    BY DEF Init
  <2>5. transReady \in [Boards -> BOOLEAN] /\ taken \in [Boards -> SUBSET Ports]
    BY DEF Init
  <2>6. /\ ui \in {"ready", "waiting"} /\ ipcIn \in Seq({0, 1})
        /\ ipcOut \in Nat /\ recvIndividually \in {0, 1}
        /\ recvCount \in Counts
    BY DEF Init
  <2>7. QED
    BY <2>2, <2>3, <2>4, <2>5, <2>6 DEF TypeOK
<1>2. OneQueryAtATime
  BY DEF Init, OneQueryAtATime
<1>3. \A b \in Boards : ~HoldsOrder(b) /\ ~QueuedOrder(b) /\ hps[b] # "sending"
  BY DEF Init, HoldsOrder, QueuedOrder
<1>4. QuietBetweenQueries
  BY <1>3 DEF Init, QuietBetweenQueries
<1>5. CountIsDelivered
  BY DEF Init, CountIsDelivered, Active
<1>6. ASSUME NEW b \in Boards PROVE BoardInv(b)
  <2>1. \A p \in Ports : pidx[b][p] = 0 /\ wire[b][p] = 0 /\ Sent(b, p) = 0
    BY DEF Init, Sent
  <2>2. comm[b] = <<>>
    BY DEF Init
  <2>3. QED
    BY <1>3, <2>1, <2>2
       DEF BoardInv, WholePackets, InPortOrder, QueuedOrdersFit, HeldOrderFits,
           SendingFits, NoOrderDuringPacket
<1>7. QED
  BY <1>1, <1>2, <1>4, <1>5, <1>6 DEF Inv, IInv

(* A board whose own state and sockets do not change keeps its invariant.  *)
LEMMA BoardFrame ==
  ASSUME NEW b \in Boards, BoardInv(b),
         recvIndividually' = recvIndividually, pidx'[b] = pidx[b],
         wire'[b] = wire[b], comm'[b] = comm[b], hps'[b] = hps[b],
         order'[b] = order[b], port'[b] = port[b]
  PROVE  BoardInv(b)'
BY DEF BoardInv, WholePackets, InPortOrder, QueuedOrdersFit, HeldOrderFits,
       SendingFits, NoOrderDuringPacket, OrderFits, HoldsOrder, QueuedOrder,
       Orders, Trailing, Sent

(* The steps of the user interface, and the FPGA's capture.                *)
LEMMA UIQueryInv ==
  ASSUME Inv, NEW each \in {0, 1}, UIQuery(each)
  PROVE  Inv'
<1>1. /\ ui = "ready" /\ ipcIn = <<>> /\ ipcOut = 0
      /\ ui' = "waiting" /\ ipcIn' = <<each>> /\ ipcOut' = 0
  BY DEF Inv, IInv, OneQueryAtATime, UIQuery
<1>2. TypeOK'
  BY <1>1 DEF Inv, TypeOK, UIQuery, serverVars, netVars, boardVars
<1>3. OneQueryAtATime'
  BY <1>1 DEF OneQueryAtATime
<1>4. ~Active /\ ~Active'
  BY <1>1 DEF Active
<1>5. QuietBetweenQueries' /\ CountIsDelivered'
  BY <1>4 DEF Inv, IInv, QuietBetweenQueries, CountIsDelivered, UIQuery,
              serverVars, netVars, boardVars, HoldsOrder, QueuedOrder
<1>6. \A b \in Boards : BoardInv(b)'
  BY BoardFrame DEF Inv, IInv, UIQuery, serverVars, netVars, boardVars
<1>7. QED
  BY <1>2, <1>3, <1>5, <1>6 DEF Inv, IInv

LEMMA UIResumeInv ==
  ASSUME Inv, UIResume
  PROVE  Inv'
<1>1. /\ ui = "waiting" /\ ipcIn = <<>> /\ ipcOut = 1
      /\ ui' = "ready" /\ ipcIn' = <<>> /\ ipcOut' = 0
  BY DEF Inv, IInv, OneQueryAtATime, UIResume
<1>2. TypeOK'
  BY <1>1 DEF Inv, TypeOK, UIResume, serverVars, netVars, boardVars
<1>3. OneQueryAtATime'
  BY <1>1 DEF OneQueryAtATime
<1>4. ~Active /\ ~Active'
  BY <1>1 DEF Active
<1>5. QuietBetweenQueries' /\ CountIsDelivered'
  BY <1>4 DEF Inv, IInv, QuietBetweenQueries, CountIsDelivered, UIResume,
              serverVars, netVars, boardVars, HoldsOrder, QueuedOrder
<1>6. \A b \in Boards : BoardInv(b)'
  BY BoardFrame DEF Inv, IInv, UIResume, serverVars, netVars, boardVars
<1>7. QED
  BY <1>2, <1>3, <1>5, <1>6 DEF Inv, IInv

LEMMA CaptureInv ==
  ASSUME Inv, NEW c \in Boards, Capture(c)
  PROVE  Inv'
<1>1. TypeOK'
  BY DEF Inv, TypeOK, Capture, uiVars, serverVars, netVars
<1>2. OneQueryAtATime' /\ QuietBetweenQueries' /\ CountIsDelivered'
  BY DEF Inv, IInv, OneQueryAtATime, QuietBetweenQueries, CountIsDelivered,
         Delivered, Active, HoldsOrder, QueuedOrder, Capture, uiVars,
         serverVars, netVars
<1>3. \A b \in Boards : BoardInv(b)'
  BY BoardFrame DEF Inv, IInv, Capture, uiVars, serverVars, netVars
<1>4. QED
  BY <1>1, <1>2, <1>3 DEF Inv, IInv

(* A query reaches a server at rest: every queue gets the one order of the *)
(* pulse, and the count and all the sockets are at zero.                   *)
LEMMA ServerQueryInv ==
  ASSUME Inv, ServerQuery
  PROVE  Inv'
<1> DEFINE m == [each |-> Head(ipcIn), idx |-> 0]
<1>1. /\ ui = "waiting" /\ Len(ipcIn) = 1 /\ ipcOut = 0
      /\ ipcIn \in Seq({0, 1}) /\ ipcIn # <<>>
  BY DEF Inv, IInv, OneQueryAtATime, ServerQuery, TypeOK
<1>2. /\ Head(ipcIn) \in {0, 1} /\ Tail(ipcIn) \in Seq({0, 1})
      /\ Len(Tail(ipcIn)) = 0
  BY <1>1
<1>3. ipcIn' = <<>> /\ ui' = "waiting" /\ ipcOut' = 0
  BY <1>1, <1>2, EmptySeq DEF ServerQuery
<1>4. ~Active /\ Active'
  BY <1>1, <1>3 DEF Active
<1>5. m \in Query /\ Orders(m) /\ m.idx = 0 /\ m.each = Head(ipcIn)
  BY <1>2, ConstantFacts DEF Query, Orders, Trailing
<1> HIDE DEF m
<1>6. /\ comm' = [b \in Boards |-> Append(comm[b], m)]
      /\ recvIndividually' = Head(ipcIn) /\ recvCount' = 0
      /\ pidx' = pidx /\ wire' = wire /\ hps' = hps /\ order' = order
      /\ port' = port /\ transReady' = transReady /\ taken' = taken
  BY DEF ServerQuery, boardVars, m
<1>7. TypeOK'
  <2>1. comm' \in [Boards -> Seq(Query)]
    BY <1>5, <1>6 DEF Inv, TypeOK
  <2>2. recvCount' \in Counts /\ recvIndividually' \in {0, 1}
    BY <1>2, <1>6, ConstantFacts DEF Counts
  <2>3. QED
    BY <1>2, <1>3, <1>6, <2>1, <2>2 DEF Inv, TypeOK
<1>8. OneQueryAtATime'
  BY <1>3 DEF OneQueryAtATime
<1>9. /\ \A b \in Boards, p \in Ports : pidx[b][p] = 0 /\ wire[b][p] = 0
      /\ \A b \in Boards : /\ hps[b] # "sending" /\ ~HoldsOrder(b)
                           /\ ~QueuedOrder(b)
  BY <1>4 DEF Inv, IInv, QuietBetweenQueries
<1>10. QuietBetweenQueries'
  BY <1>4 DEF QuietBetweenQueries
<1>11. CountIsDelivered'
  <2>1. Cardinality(DeliveredBy(pidx)) = 0
    BY <1>9, NothingDelivered
  <2>2. QED
    BY <1>6, <2>1 DEF CountIsDelivered, Delivered
<1>12. ASSUME NEW b \in Boards PROVE BoardInv(b)'
  <2>1. /\ hps'[b] # "sending" /\ ~HoldsOrder(b)'
        /\ \A p \in Ports : /\ pidx'[b][p] = 0 /\ wire'[b][p] = 0
                            /\ Sent(b, p)' = 0
    BY <1>6, <1>9 DEF HoldsOrder, Orders, Trailing, Sent
  <2>2. /\ WholePackets(b)' /\ InPortOrder(b)' /\ HeldOrderFits(b)'
        /\ SendingFits(b)' /\ NoOrderDuringPacket(b)'
    BY <2>1 DEF WholePackets, InPortOrder, HeldOrderFits, SendingFits,
                NoOrderDuringPacket
  <2>3. QueuedOrdersFit(b)'
    <3> SUFFICES ASSUME NEW i \in 1..Len(comm'[b]), Orders(comm'[b][i])
                 PROVE  i = Len(comm'[b]) /\ OrderFits(b, comm[b][i])'
      BY <2>1 DEF QueuedOrdersFit, Orders, Trailing
    <3>1. comm[b] \in Seq(Query) /\ comm'[b] = Append(comm[b], m)
      BY <1>6 DEF Inv, TypeOK
    <3>2. /\ Len(comm'[b]) = Len(comm[b]) + 1
          /\ comm'[b][Len(comm[b]) + 1] = m
          /\ \A j \in 1..Len(comm[b]) : comm'[b][j] = comm[b][j]
          /\ Len(comm[b]) \in Nat
      BY <3>1, <1>5
    <3>3. i = Len(comm[b]) + 1
      BY <1>9, <3>2 DEF QueuedOrder
    <3>4. /\ comm'[b][i].each = recvIndividually'
          /\ comm'[b][i].idx = 0
      BY <1>5, <1>6, <3>2, <3>3
    <3>5. \A p \in Ports : ~(p <= 0)
      BY ConstantFacts
    <3>6. OrderFits(b, comm[b][i])'
      BY <2>1, <3>4, <3>5 DEF OrderFits
    <3>7. QED
      BY <3>2, <3>3, <3>6
  <2>4. QED
    BY <2>2, <2>3 DEF BoardInv
<1>13. QED
  BY <1>7, <1>8, <1>10, <1>11, <1>12 DEF Inv, IInv

(* A step of board b alone needs to be justified for b alone.              *)
LEMMA BoardLocal ==
  ASSUME Inv, NEW b \in Boards, BoardInv(b)',
         uiVars' = uiVars, serverVars' = serverVars,
         \A c \in Boards \ {b} :
           /\ wire'[c] = wire[c] /\ comm'[c] = comm[c] /\ hps'[c] = hps[c]
           /\ order'[c] = order[c] /\ port'[c] = port[c],
         ~Active => /\ wire'[b] = wire[b]
                    /\ hps'[b] # "sending"
                    /\ ~HoldsOrder(b)'
                    /\ ~QueuedOrder(b)'
  PROVE  IInv'
<1>1. /\ ui' = ui /\ ipcIn' = ipcIn /\ ipcOut' = ipcOut /\ pidx' = pidx
      /\ recvIndividually' = recvIndividually /\ recvCount' = recvCount
  BY DEF uiVars, serverVars
<1>2. OneQueryAtATime' /\ CountIsDelivered' /\ Active' = Active
  BY <1>1 DEF Inv, IInv, OneQueryAtATime, CountIsDelivered, Delivered, Active
<1>3. \A c \in Boards : BoardInv(c)'
  BY <1>1, BoardFrame DEF Inv, IInv
<1>4. QuietBetweenQueries'
  <2> SUFFICES ASSUME ~Active, NEW c \in Boards
               PROVE  /\ \A p \in Ports : pidx'[c][p] = 0 /\ wire'[c][p] = 0
                      /\ hps'[c] # "sending"
                      /\ ~HoldsOrder(c)' /\ ~QueuedOrder(c)'
    BY <1>2 DEF QuietBetweenQueries
  <2>1. /\ \A p \in Ports : pidx[c][p] = 0 /\ wire[c][p] = 0
        /\ hps[c] # "sending" /\ ~HoldsOrder(c) /\ ~QueuedOrder(c)
    BY DEF Inv, IInv, QuietBetweenQueries
  <2>2. CASE c = b
    BY <1>1, <2>1, <2>2
  <2>3. CASE c # b
    BY <1>1, <2>1, <2>3 DEF HoldsOrder, QueuedOrder, Orders, Trailing
  <2>4. QED
    BY <2>2, <2>3
<1>5. QED
  BY <1>2, <1>3, <1>4 DEF IInv

(* Taking a message: if it is an order, it was the last of the queue.      *)
LEMMA BoardTakeInv ==
  ASSUME Inv, NEW b \in Boards, BoardTake(b)
  PROVE  Inv'
<1> DEFINE q == comm[b]
<1>1. /\ q \in Seq(Query) /\ q # <<>>
      /\ hps \in [Boards -> {"idle", "waiting", "sending", "resetting"}]
      /\ order \in [Boards -> Query] /\ comm \in [Boards -> Seq(Query)]
  BY DEF Inv, TypeOK, BoardTake
<1>2. /\ Head(q) \in Query /\ Head(q) = q[1] /\ Tail(q) \in Seq(Query)
      /\ Len(q) \in Nat \ {0} /\ Len(Tail(q)) = Len(q) - 1
      /\ \A i \in 1..Len(Tail(q)) : Tail(q)[i] = q[i + 1]
  BY <1>1
<1>3. /\ hps[b] = "idle"
      /\ order' = [order EXCEPT ![b] = Head(q)]
      /\ comm' = [comm EXCEPT ![b] = Tail(q)]
      /\ hps' = [hps EXCEPT ![b] = "waiting"]
      /\ uiVars' = uiVars /\ serverVars' = serverVars
      /\ wire' = wire /\ port' = port /\ transReady' = transReady
      /\ taken' = taken
  BY DEF BoardTake
<1>4. /\ order'[b] = Head(q) /\ comm'[b] = Tail(q) /\ hps'[b] = "waiting"
  BY <1>1, <1>3
<1>5. recvIndividually' = recvIndividually /\ pidx' = pidx
  BY <1>3 DEF serverVars
<1>6. TypeOK'
  BY <1>2, <1>3 DEF Inv, TypeOK, uiVars, serverVars
<1>7. BoardInv(b)
  BY DEF Inv, IInv
<1> HIDE DEF q
<1>8. \A i \in 1..Len(comm'[b]) :
        i + 1 \in 1..Len(q) /\ comm'[b][i] = q[i + 1]
  BY <1>2, <1>4
<1>9. Orders(Head(q)) => Len(q) = 1 /\ OrderFits(b, Head(q))
  <2>1. 1 \in 1..Len(q)
    BY <1>2
  <2>2. Orders(q[1]) => 1 = Len(q) /\ OrderFits(b, q[1])
    BY <1>7, <2>1 DEF BoardInv, QueuedOrdersFit, q
  <2>3. QED
    BY <1>2, <2>2
<1>10. BoardInv(b)'
  <2>1. WholePackets(b)' /\ InPortOrder(b)' /\ SendingFits(b)'
    BY <1>3, <1>4, <1>5, <1>7
       DEF BoardInv, WholePackets, InPortOrder, SendingFits, Sent
  <2>2. QueuedOrdersFit(b)'
    <3> SUFFICES ASSUME NEW i \in 1..Len(comm'[b]), Orders(comm'[b][i])
                 PROVE  /\ i = Len(comm'[b]) /\ ~HoldsOrder(b)'
                        /\ OrderFits(b, comm[b][i])'
      BY <1>4 DEF QueuedOrdersFit, Orders, Trailing
    <3>1. /\ i + 1 \in 1..Len(q) /\ Orders(q[i + 1])
          /\ comm'[b][i] = q[i + 1]
      BY <1>8 DEF Orders, Trailing
    <3>2. i + 1 = Len(q) /\ OrderFits(b, q[i + 1])
      BY <1>7, <3>1 DEF BoardInv, QueuedOrdersFit, q
    <3>3. i = Len(comm'[b]) /\ Len(q) # 1
      BY <1>2, <1>4, <3>1, <3>2
    <3>4. ~HoldsOrder(b)'
      BY <1>4, <1>9, <3>3 DEF HoldsOrder, Orders, Trailing
    <3>5. OrderFits(b, comm[b][i])'
      BY <1>3, <1>5, <3>1, <3>2 DEF OrderFits, Sent
    <3>6. QED
      BY <3>3, <3>4, <3>5
  <2>3. HeldOrderFits(b)'
    <3> SUFFICES ASSUME HoldsOrder(b)' PROVE OrderFits(b, order[b])'
      BY DEF HeldOrderFits
    <3>1. Orders(Head(q))
      BY <1>4 DEF HoldsOrder, Orders, Trailing
    <3>2. QED
      BY <1>3, <1>4, <1>5, <1>9, <3>1 DEF OrderFits, Sent
  <2>4. NoOrderDuringPacket(b)'
    <3> SUFFICES ASSUME recvIndividually = 1, NEW p \in Ports, wire[b][p] # 0
                 PROVE  ~HoldsOrder(b)' /\ ~QueuedOrder(b)'
      BY <1>3, <1>4, <1>5 DEF NoOrderDuringPacket
    <3>1. \A i \in 1..Len(q) : ~Orders(q[i])
      BY <1>7 DEF BoardInv, NoOrderDuringPacket, QueuedOrder, q
    <3>2. QED
      BY <1>2, <1>4, <1>8, <3>1 DEF HoldsOrder, QueuedOrder, Orders, Trailing
  <2>5. QED
    BY <2>1, <2>2, <2>3, <2>4 DEF BoardInv
<1>11. ASSUME ~Active PROVE ~HoldsOrder(b)' /\ ~QueuedOrder(b)'
  <2>1. \A i \in 1..Len(q) : ~Orders(q[i])
    BY <1>11 DEF Inv, IInv, QuietBetweenQueries, QueuedOrder, q
  <2>2. QED
    BY <1>2, <1>4, <1>8, <2>1 DEF HoldsOrder, QueuedOrder, Orders, Trailing
<1>12. IInv'
  <2>1. \A c \in Boards \ {b} :
           /\ wire'[c] = wire[c] /\ comm'[c] = comm[c] /\ hps'[c] = hps[c]
           /\ order'[c] = order[c] /\ port'[c] = port[c]
    BY <1>1, <1>3
  <2>2. QED
    BY <1>3, <1>4, <1>10, <1>11, <2>1, BoardLocal
<1>13. QED
  BY <1>6, <1>12 DEF Inv

(* Finding a record: an order in hand becomes a record being sent.         *)
LEMMA BoardReadyInv ==
  ASSUME Inv, NEW b \in Boards, BoardReady(b)
  PROVE  Inv'
<1>1. /\ hps \in [Boards -> {"idle", "waiting", "sending", "resetting"}]
      /\ order \in [Boards -> Query] /\ port \in [Boards -> 0..NumPorts]
      /\ hps[b] = "waiting" /\ order[b] \in Query
      /\ order[b].each \in {0, 1} /\ order[b].idx \in 0..NumPorts
  BY DEF Inv, TypeOK, Query, BoardReady
<1>2. /\ uiVars' = uiVars /\ serverVars' = serverVars
      /\ recvIndividually' = recvIndividually /\ pidx' = pidx
      /\ wire' = wire /\ comm' = comm /\ order' = order
      /\ transReady' = transReady /\ taken' = taken
  BY DEF BoardReady, serverVars, netVars
<1>3. BoardInv(b)
  BY DEF Inv, IInv
<1>4. ASSUME NEW c \in Boards, c # b
      PROVE  hps'[c] = hps[c] /\ port'[c] = port[c]
  BY <1>1, <1>4 DEF BoardReady
<1>5. CASE Trailing(order[b])
  <2>1. hps' = [hps EXCEPT ![b] = "idle"] /\ port' = port /\ hps'[b] = "idle"
    BY <1>1, <1>5 DEF BoardReady
  <2>2. TypeOK'
    BY <1>1, <1>2, <2>1 DEF Inv, TypeOK, uiVars, serverVars
  <2>3. ~HoldsOrder(b)'
    BY <2>1 DEF HoldsOrder
  <2>4. BoardInv(b)'
    BY <1>2, <1>3, <2>1, <2>3
       DEF BoardInv, WholePackets, InPortOrder, QueuedOrdersFit, HeldOrderFits,
           SendingFits, NoOrderDuringPacket, OrderFits, QueuedOrder,
           Orders, Trailing, Sent
  <2>5. ~Active => ~QueuedOrder(b)'
    BY <1>2 DEF Inv, IInv, QuietBetweenQueries, QueuedOrder, Orders, Trailing
  <2>6. IInv'
    BY <1>2, <1>4, <2>1, <2>3, <2>4, <2>5, BoardLocal
  <2>7. QED
    BY <2>2, <2>6 DEF Inv
<1>6. CASE Orders(order[b])
  <2> DEFINE n == IF order[b].each = 1 THEN order[b].idx + 1 ELSE 1
  <2>1. n \in Ports
    BY <1>1, <1>6, ConstantFacts DEF Orders, Trailing
  <2>2. hps' = [hps EXCEPT ![b] = "sending"] /\ port' = [port EXCEPT ![b] = n]
    BY <1>6 DEF BoardReady, Orders
  <2>3. hps'[b] = "sending" /\ port'[b] = n
    BY <1>1, <2>2
  <2>4. TypeOK'
    <3>1. n \in 0..NumPorts
      BY <2>1, ConstantFacts
    <3> HIDE DEF n
    <3>2. QED
      BY <1>1, <1>2, <2>2, <3>1 DEF Inv, TypeOK, uiVars, serverVars
  <2>5. HoldsOrder(b) /\ OrderFits(b, order[b])
    BY <1>1, <1>3, <1>6 DEF HoldsOrder, BoardInv, HeldOrderFits
  <2>6. Active /\ ~QueuedOrder(b)
    BY <1>3, <2>5 DEF Inv, IInv, QuietBetweenQueries, BoardInv, QueuedOrdersFit,
                      QueuedOrder
  <2>7. ~QueuedOrder(b)'
    BY <1>2, <2>6 DEF QueuedOrder, Orders, Trailing
  <2>8. BoardInv(b)'
    <3>1. WholePackets(b)' /\ InPortOrder(b)'
      BY <1>2, <1>3 DEF BoardInv, WholePackets, InPortOrder, Sent
    <3>2. QueuedOrdersFit(b)' /\ HeldOrderFits(b)'
      BY <2>3, <2>7 DEF QueuedOrdersFit, HeldOrderFits, HoldsOrder, QueuedOrder
    <3>3. NoOrderDuringPacket(b)'
      <4>1. ~(recvIndividually = 1 /\ \E p \in Ports : wire[b][p] # 0)
        BY <1>3, <2>5 DEF BoardInv, NoOrderDuringPacket
      <4>2. QED
        BY <1>2, <4>1 DEF NoOrderDuringPacket
    <3>4. SendingFits(b)'
      <4>1. \A p \in Ports :
              /\ p < n => pidx[b][p] = ServerLen(p)
              /\ p >= n => Sent(b, p) = 0
        BY <1>1, <2>5, ConstantFacts DEF OrderFits
      <4>2. \A p \in Ports : p < n => Sent(b, p) = ServerLen(p)
        <5> SUFFICES ASSUME NEW p \in Ports, p < n
                     PROVE  Sent(b, p) = ServerLen(p)
          OBVIOUS
        <5>1. pidx[b][p] = ServerLen(p) /\ ServerLen(p) \in Nat \ {0}
          BY <4>1, ConstantFacts
        <5>2. Sent(b, p) \in {0, ServerLen(p)} /\ wire[b][p] \in Nat
          BY <1>3 DEF BoardInv, WholePackets, Inv, TypeOK
        <5>3. QED
          BY <5>1, <5>2 DEF Sent
      <4>3. /\ order[b].each = recvIndividually
            /\ order[b].each = 1 => n = order[b].idx + 1
        BY <2>5 DEF OrderFits
      <4> HIDE DEF n
      <4>4. QED
        BY <1>2, <1>6, <2>1, <2>3, <4>1, <4>2, <4>3
           DEF SendingFits, Orders, Trailing, Sent
    <3>5. QED
      BY <3>1, <3>2, <3>3, <3>4 DEF BoardInv
  <2>9. IInv'
    BY <1>2, <1>4, <2>6, <2>8, BoardLocal
  <2>10. QED
    BY <2>4, <2>9 DEF Inv
<1>7. QED
  BY <1>5, <1>6 DEF Orders

(* Timing out: the order in hand is dropped, and only that.                *)
LEMMA BoardTimeoutInv ==
  ASSUME Inv, NEW b \in Boards, BoardTimeout(b)
  PROVE  Inv'
<1>1. hps \in [Boards -> {"idle", "waiting", "sending", "resetting"}]
  BY DEF Inv, TypeOK
<1>2. /\ uiVars' = uiVars /\ serverVars' = serverVars
      /\ recvIndividually' = recvIndividually /\ pidx' = pidx
      /\ wire' = wire /\ comm' = comm /\ order' = order /\ port' = port
      /\ transReady' = transReady /\ taken' = taken
      /\ hps' = [hps EXCEPT ![b] = "resetting"]
  BY DEF BoardTimeout, serverVars, netVars
<1>3. hps'[b] = "resetting" /\ \A c \in Boards \ {b} : hps'[c] = hps[c]
  BY <1>1, <1>2
<1>4. TypeOK'
  BY <1>1, <1>2 DEF Inv, TypeOK, uiVars, serverVars
<1>5. ~HoldsOrder(b)' /\ BoardInv(b)
  BY <1>3 DEF HoldsOrder, Inv, IInv
<1>6. BoardInv(b)'
  BY <1>2, <1>3, <1>5
     DEF BoardInv, WholePackets, InPortOrder, QueuedOrdersFit, HeldOrderFits,
         SendingFits, NoOrderDuringPacket, OrderFits, QueuedOrder,
         Orders, Trailing, Sent
<1>7. ~Active => ~QueuedOrder(b)'
  BY <1>2 DEF Inv, IInv, QuietBetweenQueries, QueuedOrder, Orders, Trailing
<1>8. IInv'
  BY <1>2, <1>3, <1>5, <1>6, <1>7, BoardLocal
<1>9. QED
  BY <1>4, <1>8 DEF Inv

(* Resetting the FPGA touches nothing the protocol depends on.             *)
LEMMA BoardResetInv ==
  ASSUME Inv, NEW b \in Boards, BoardReset(b)
  PROVE  Inv'
<1>1. /\ hps \in [Boards -> {"idle", "waiting", "sending", "resetting"}]
      /\ transReady \in [Boards -> BOOLEAN]
      /\ taken \in [Boards -> SUBSET Ports]
  BY DEF Inv, TypeOK
<1>2. /\ uiVars' = uiVars /\ serverVars' = serverVars
      /\ recvIndividually' = recvIndividually /\ pidx' = pidx
      /\ wire' = wire /\ comm' = comm /\ order' = order /\ port' = port
      /\ hps' = [hps EXCEPT ![b] = "idle"]
      /\ transReady' = [transReady EXCEPT ![b] = FALSE]
      /\ taken' = [taken EXCEPT ![b] = {}]
  BY DEF BoardReset, serverVars, netVars
<1>3. hps'[b] = "idle" /\ \A c \in Boards \ {b} : hps'[c] = hps[c]
  BY <1>1, <1>2
<1>4. TypeOK'
  <2>1. transReady' \in [Boards -> BOOLEAN]
    BY <1>1, <1>2
  <2>2. taken' \in [Boards -> SUBSET Ports]
    BY <1>1, <1>2
  <2>3. QED
    BY <1>1, <1>2, <2>1, <2>2 DEF Inv, TypeOK, uiVars, serverVars
<1>5. ~HoldsOrder(b)' /\ BoardInv(b)
  BY <1>3 DEF HoldsOrder, Inv, IInv
<1>6. BoardInv(b)'
  BY <1>2, <1>3, <1>5
     DEF BoardInv, WholePackets, InPortOrder, QueuedOrdersFit, HeldOrderFits,
         SendingFits, NoOrderDuringPacket, OrderFits, QueuedOrder,
         Orders, Trailing, Sent
<1>7. ~Active => ~QueuedOrder(b)'
  BY <1>2 DEF Inv, IInv, QuietBetweenQueries, QueuedOrder, Orders, Trailing
<1>8. IInv'
  BY <1>2, <1>3, <1>5, <1>6, <1>7, BoardLocal
<1>9. QED
  BY <1>4, <1>8 DEF Inv

(* Sending a packet: a whole one, on the next port.                        *)
LEMMA BoardSendInv ==
  ASSUME Inv, NEW b \in Boards, BoardSend(b)
  PROVE  Inv'
<1>0. PICK n \in 0..NumPorts : port[b] = n
  BY DEF Inv, TypeOK
<1>1. /\ hps \in [Boards -> {"idle", "waiting", "sending", "resetting"}]
      /\ port \in [Boards -> 0..NumPorts] /\ taken \in [Boards -> SUBSET Ports]
      /\ wire \in [Boards -> [Ports -> Nat]] /\ pidx \in [Boards -> [Ports -> Nat]]
      /\ order[b] \in Query /\ order[b].each \in {0, 1}
      /\ recvIndividually \in {0, 1}
  BY DEF Inv, TypeOK, Query
<1>2. /\ uiVars' = uiVars /\ serverVars' = serverVars
      /\ recvIndividually' = recvIndividually /\ pidx' = pidx
      /\ comm' = comm /\ order' = order /\ transReady' = transReady
      /\ hps[b] = "sending"
      /\ wire' = [wire EXCEPT ![b][n] = wire[b][n] + ClientLen(n)]
      /\ taken' = [taken EXCEPT ![b] = taken[b] \cup {n}]
  BY <1>0 DEF BoardSend, serverVars
<1>3. BoardInv(b)
  BY DEF Inv, IInv
<1>4. /\ order[b].each = recvIndividually
      /\ Orders(order[b])
      /\ n \in Ports
      /\ order[b].each = 1 => n = order[b].idx + 1
      /\ \A p \in Ports :
           /\ p < n => Sent(b, p) = ServerLen(p)
           /\ p < n /\ recvIndividually = 1 => pidx[b][p] = ServerLen(p)
           /\ p >= n => Sent(b, p) = 0
  BY <1>0, <1>2, <1>3 DEF BoardInv, SendingFits
<1>5. ClientLen(n) = ServerLen(n) /\ ServerLen(n) \in Nat \ {0}
  BY <1>4, ConstantFacts
<1>6. Sent(b, n) = 0 /\ pidx[b][n] = 0 /\ wire[b][n] = 0
  BY <1>1, <1>4, ConstantFacts DEF Sent
<1>7. /\ wire'[b][n] = ServerLen(n)
      /\ \A p \in Ports : p # n => wire'[b][p] = wire[b][p]
      /\ wire' \in [Boards -> [Ports -> Nat]]
      /\ \A c \in Boards \ {b} : wire'[c] = wire[c]
  BY <1>1, <1>2, <1>4, <1>5, <1>6
<1>8. /\ Sent(b, n)' = ServerLen(n)
      /\ \A p \in Ports : p # n => Sent(b, p)' = Sent(b, p)
  BY <1>2, <1>5, <1>6, <1>7 DEF Sent
<1>9. Active /\ ~QueuedOrder(b)
  BY <1>2, <1>3 DEF Inv, IInv, QuietBetweenQueries, BoardInv, QueuedOrdersFit,
                    QueuedOrder
<1>10. ~QueuedOrder(b)'
  BY <1>2, <1>9 DEF QueuedOrder, Orders, Trailing
<1>11. taken' \in [Boards -> SUBSET Ports]
  BY <1>1, <1>2, <1>4
<1>12. n \in Nat /\ n <= NumPorts /\ NumPorts \in Nat /\ \A p \in Ports : p \in Nat
  BY <1>4, ConstantFacts
<1>13. WholePackets(b)'
  BY <1>3, <1>8 DEF BoardInv, WholePackets
<1>14. InPortOrder(b)'
  <2> SUFFICES ASSUME NEW p \in Ports, NEW q \in Ports, q < p, Sent(b, p)' # 0
               PROVE  /\ Sent(b, q)' = ServerLen(q)
                      /\ recvIndividually = 1 => pidx[b][q] = ServerLen(q)
    BY <1>2 DEF InPortOrder
  <2>1. p <= n
    <3> SUFFICES ASSUME p > n PROVE FALSE
      BY <1>12
    <3>1. p # n /\ p >= n
      BY <1>12
    <3>2. QED
      BY <1>4, <1>8, <3>1
  <2>2. q < n /\ q # n
    BY <2>1, <1>12
  <2>3. QED
    BY <1>4, <1>8, <2>2
<1>15. QueuedOrdersFit(b)'
  BY <1>10 DEF QueuedOrdersFit, QueuedOrder
<1>16. CASE order[b].each = 0 /\ n # NumPorts
  <2>1. hps' = hps /\ port' = [port EXCEPT ![b] = n + 1]
    BY <1>0, <1>1, <1>16 DEF BoardSend
  <2>2. port'[b] = n + 1 /\ hps'[b] = "sending" /\ n + 1 \in Ports
    BY <1>0, <1>1, <1>2, <1>12, <1>16, <2>1, ConstantFacts
  <2>3. TypeOK'
    <3>1. port' \in [Boards -> 0..NumPorts]
      BY <1>1, <2>1, <2>2, ConstantFacts
    <3>2. QED
      BY <1>2, <1>7, <1>11, <2>1, <3>1 DEF Inv, TypeOK, uiVars, serverVars
  <2>4. HeldOrderFits(b)' /\ NoOrderDuringPacket(b)'
    BY <1>2, <1>4, <1>16, <2>2 DEF HeldOrderFits, HoldsOrder, NoOrderDuringPacket
  <2>5. SendingFits(b)'
    <3>1. \A p \in Ports :
            /\ p < n + 1 => Sent(b, p)' = ServerLen(p)
            /\ p >= n + 1 => Sent(b, p)' = 0
      BY <1>4, <1>8, <1>12
    <3>2. recvIndividually' # 1 /\ order'[b] = order[b]
      BY <1>2, <1>4, <1>16
    <3>3. QED
      BY <1>2, <1>4, <1>16, <2>2, <3>1, <3>2 DEF SendingFits, Orders, Trailing
  <2>6. BoardInv(b)'
    BY <1>13, <1>14, <1>15, <2>4, <2>5 DEF BoardInv
  <2>7. IInv'
    <3>1. \A c \in Boards \ {b} : port'[c] = port[c]
      BY <1>1, <2>1
    <3>2. QED
      BY <1>2, <1>7, <1>9, <2>1, <2>6, <3>1, BoardLocal
  <2>8. QED
    BY <2>3, <2>7 DEF Inv
<1>17. CASE order[b].each = 1 \/ n = NumPorts
  <2>1. /\ port' = port
        /\ \/ hps' = [hps EXCEPT ![b] = "idle"]
           \/ hps' = [hps EXCEPT ![b] = "resetting"]
    BY <1>0, <1>1, <1>17 DEF BoardSend
  <2>2. /\ hps'[b] \in {"idle", "resetting"}
        /\ \A c \in Boards \ {b} : hps'[c] = hps[c]
        /\ hps' \in [Boards -> {"idle", "waiting", "sending", "resetting"}]
    BY <1>1, <2>1
  <2>3. TypeOK'
    BY <1>2, <1>7, <1>11, <2>1, <2>2 DEF Inv, TypeOK, uiVars, serverVars
  <2>4. HeldOrderFits(b)' /\ SendingFits(b)' /\ NoOrderDuringPacket(b)'
    BY <1>10, <2>2 DEF HeldOrderFits, HoldsOrder, SendingFits, NoOrderDuringPacket
  <2>5. BoardInv(b)'
    BY <1>13, <1>14, <1>15, <2>4 DEF BoardInv
  <2>6. IInv'
    BY <1>2, <1>7, <1>9, <2>1, <2>2, <2>5, BoardLocal
  <2>7. QED
    BY <2>3, <2>6 DEF Inv
<1>18. QED
  BY <1>1, <1>16, <1>17

(* What is known when k bytes arrive on port p of board b: the record has  *)
(* been sent up to p, and in one-at-a-time mode p is the only port under   *)
(* way and no order is about.                                              *)
LEMMA ArrivalContext ==
  ASSUME Inv, NEW b \in Boards, NEW p \in Ports, wire[b][p] # 0
  PROVE  /\ Active
         /\ Sent(b, p) = ServerLen(p)
         /\ wire[b][p] \in Nat \ {0} /\ pidx[b][p] \in Nat
         /\ pidx[b][p] # ServerLen(p)
         /\ \A q \in Ports : q < p => Sent(b, q) = ServerLen(q)
         /\ recvIndividually = 1 =>
              /\ \A q \in Ports : q < p => pidx[b][q] = ServerLen(q)
              /\ \A q \in Ports : q > p => Sent(b, q) = 0
              /\ \A q \in Ports : q # p => wire[b][q] = 0
              /\ hps[b] # "sending" /\ ~HoldsOrder(b) /\ ~QueuedOrder(b)
<1>1. \A q \in Ports : /\ pidx[b][q] \in Nat /\ wire[b][q] \in Nat
                       /\ ServerLen(q) \in Nat \ {0} /\ q \in Nat
  <2>1. \A q \in Ports : pidx[b][q] \in Nat /\ wire[b][q] \in Nat
    BY DEF Inv, TypeOK
  <2>2. \A q \in Ports : ServerLen(q) \in Nat \ {0}
    BY ConstantFacts
  <2>3. \A q \in Ports : q \in Nat
    BY NumPortsBounds DEF Ports
  <2>4. QED
    BY <2>1, <2>2, <2>3
<1>2. Active
  BY DEF Inv, IInv, QuietBetweenQueries
<1>3. BoardInv(b)
  BY DEF Inv, IInv
<1>4. wire[b][p] \in Nat \ {0} /\ pidx[b][p] \in Nat
  BY <1>1
<1>5. Sent(b, p) = ServerLen(p) /\ pidx[b][p] # ServerLen(p) /\ Sent(b, p) # 0
  <2>1. Sent(b, p) \in {0, ServerLen(p)} /\ ServerLen(p) \in Nat \ {0}
    BY <1>1, <1>3 DEF BoardInv, WholePackets
  <2>2. QED
    BY <1>4, <2>1 DEF Sent
<1>6. \A q \in Ports :
        q < p => /\ Sent(b, q) = ServerLen(q)
                 /\ recvIndividually = 1 => pidx[b][q] = ServerLen(q)
  BY <1>3, <1>5 DEF BoardInv, InPortOrder
<1>7. ASSUME recvIndividually = 1
      PROVE  /\ \A q \in Ports : q > p => Sent(b, q) = 0
             /\ \A q \in Ports : q # p => wire[b][q] = 0
             /\ hps[b] # "sending" /\ ~HoldsOrder(b) /\ ~QueuedOrder(b)
  <2>1. ASSUME NEW q \in Ports, q > p
        PROVE  Sent(b, q) = 0
    <3>1. p < q
      BY <1>1, <2>1
    <3>2. QED
      BY <1>3, <1>5, <1>7, <3>1 DEF BoardInv, InPortOrder
  <2>2. ASSUME NEW q \in Ports, q # p
        PROVE  wire[b][q] = 0
    <3>1. CASE q < p
      <4>1. pidx[b][q] = ServerLen(q) /\ Sent(b, q) = ServerLen(q)
        BY <1>6, <1>7, <3>1
      <4>2. /\ pidx[b][q] \in Nat /\ wire[b][q] \in Nat
            /\ pidx[b][q] + wire[b][q] = pidx[b][q]
        BY <1>1, <4>1 DEF Sent
      <4>3. QED
        BY <4>2
    <3>2. CASE q > p
      <4>1. Sent(b, q) = 0 /\ pidx[b][q] \in Nat /\ wire[b][q] \in Nat
        BY <1>1, <2>1, <3>2
      <4>2. QED
        BY <4>1 DEF Sent
    <3>3. p \in Nat /\ q \in Nat
      BY <1>1
    <3>4. QED
      BY <2>2, <3>1, <3>2, <3>3
  <2>3. QED
    BY <1>3, <1>7, <2>1, <2>2 DEF BoardInv, NoOrderDuringPacket
<1>8. QED
  BY <1>2, <1>4, <1>5, <1>6, <1>7

(* What a recv does, with the new indexes as a constant g.                 *)
LEMMA ServerDataEffect ==
  ASSUME Inv, NEW b \in Boards, NEW p \in Ports, ServerData(b, p)
  PROVE  \E k \in Nat \ {0} : \E g \in Readings :
           /\ k <= wire[b][p]
           /\ wire[b][p] # 0
           /\ wire' = [wire EXCEPT ![b][p] = wire[b][p] - k]
           /\ g[b][p] = pidx[b][p] + k
           /\ \A c \in Boards, q \in Ports : c # b \/ q # p => g[c][q] = pidx[c][q]
           /\ \A c \in Boards : c # b => g[c] = pidx[c]
           /\ g \in [Boards -> [Ports -> Nat]]
           /\ pidx \in Readings
           /\ recvCount + k = Cardinality(DeliveredBy(g))
           /\ DeliveredBy(pidx) \subseteq DeliveredBy(g)
           /\ DeliveredBy(pidx) # DeliveredBy(g)
           /\ OrderNextPacket(b, p, g)
           /\ CountReceived(k, g)
           /\ UNCHANGED <<ui, ipcIn, recvIndividually, boardVars>>
<1>1. PICK k \in {n \in 1..ServerLen(p) : n <= wire[b][p]} :
        /\ wire' = [wire EXCEPT ![b][p] = wire[b][p] - k]
        /\ OrderNextPacket(b, p, [pidx EXCEPT ![b][p] = pidx[b][p] + k])
        /\ CountReceived(k, [pidx EXCEPT ![b][p] = pidx[b][p] + k])
        /\ UNCHANGED <<ui, ipcIn, recvIndividually, boardVars>>
  BY DEF ServerData
<1>2. PICK g : g = [pidx EXCEPT ![b][p] = pidx[b][p] + k]
  OBVIOUS
<1>3. /\ pidx \in [Boards -> [Ports -> Nat]]
      /\ wire \in [Boards -> [Ports -> Nat]]
  BY DEF Inv, TypeOK
<1>4. \A q \in Ports : ServerLen(q) \in Nat \ {0}
  BY ConstantFacts
<1>5. k \in Nat \ {0} /\ k <= wire[b][p] /\ wire[b][p] # 0 /\ wire[b][p] \in Nat
  BY <1>3, <1>4
<1>6. pidx \in Readings
  <2> SUFFICES ASSUME NEW c \in Boards, NEW q \in Ports
               PROVE  pidx[c][q] <= ServerLen(q)
    BY <1>3 DEF Readings
  <2>1. Sent(c, q) \in {0, ServerLen(q)}
    BY DEF Inv, IInv, BoardInv, WholePackets
  <2>2. /\ pidx[c][q] \in Nat /\ wire[c][q] \in Nat /\ ServerLen(q) \in Nat
        /\ pidx[c][q] + wire[c][q] \in {0, ServerLen(q)}
    BY <1>3, <1>4, <2>1 DEF Sent
  <2>3. QED
    BY <2>2
<1>7. /\ g \in [Boards -> [Ports -> Nat]]
      /\ g[b][p] = pidx[b][p] + k
      /\ \A c \in Boards, q \in Ports : c # b \/ q # p => g[c][q] = pidx[c][q]
      /\ \A c \in Boards : c # b => g[c] = pidx[c]
  BY <1>2, <1>3, <1>5
<1>8. Active /\ Sent(b, p) = ServerLen(p)
  BY <1>5, ArrivalContext
<1>9. pidx[b][p] + k <= ServerLen(p)
  <2>1. /\ pidx[b][p] \in Nat /\ ServerLen(p) \in Nat
        /\ pidx[b][p] + wire[b][p] = ServerLen(p)
    BY <1>3, <1>4, <1>8 DEF Sent
  <2>2. QED
    BY <1>5, <2>1
<1>10. Advances(pidx, g, b, p, k)
  BY <1>7 DEF Advances
<1>11. /\ g \in Readings
       /\ DeliveredBy(pidx) \subseteq DeliveredBy(g)
       /\ DeliveredBy(pidx) # DeliveredBy(g)
       /\ Cardinality(DeliveredBy(g)) = Cardinality(DeliveredBy(pidx)) + k
  BY <1>5, <1>6, <1>9, <1>10, Arrival
<1>12. recvCount = Cardinality(DeliveredBy(pidx))
  BY <1>8 DEF Inv, IInv, CountIsDelivered, Delivered
<1>13. OrderNextPacket(b, p, g) /\ CountReceived(k, g)
  BY <1>1, <1>2, Zenon
<1>14. wire' = [wire EXCEPT ![b][p] = wire[b][p] - k]
  BY <1>1
<1>15. recvCount + k = Cardinality(DeliveredBy(g))
  BY <1>11, <1>12
<1>16. QED
  BY <1>1, <1>5, <1>6, <1>7, <1>11, <1>13, <1>14, <1>15, Zenon

(* A board that has sent its last port has nothing left to do but trailing *)
(* orders.                                                                 *)
LEMMA NothingLeftToDo ==
  ASSUME Inv, NEW b \in Boards, Sent(b, NumPorts) # 0
  PROVE  hps[b] # "sending" /\ ~HoldsOrder(b) /\ ~QueuedOrder(b)
<1>1. BoardInv(b)
  BY DEF Inv, IInv
<1>2. NumPorts \in Ports /\ NumPorts \in Nat \ {0} /\ Ports = 1..NumPorts
  BY ConstantFacts
<1>3. ASSUME NEW m \in Query, Orders(m), OrderFits(b, m)
      PROVE  FALSE
  <2>1. m.each \in {0, 1} /\ m.idx \in 0..NumPorts
    BY DEF Query
  <2>2. NumPorts > m.idx
    BY <1>2, <1>3, <2>1 DEF Orders, Trailing, OrderFits
  <2>3. QED
    BY <1>2, <1>3, <2>2 DEF OrderFits
<1>4. hps[b] # "sending"
  <2> SUFFICES ASSUME hps[b] = "sending" PROVE FALSE
    OBVIOUS
  <2>1. port[b] \in Ports /\ \A p \in Ports : p >= port[b] => Sent(b, p) = 0
    BY <1>1 DEF BoardInv, SendingFits
  <2>2. NumPorts >= port[b]
    BY <1>2, <2>1
  <2>3. QED
    BY <1>2, <2>1, <2>2
<1>5. ~HoldsOrder(b)
  <2>1. order[b] \in Query
    BY DEF Inv, TypeOK
  <2>2. QED
    BY <1>1, <1>3, <2>1 DEF BoardInv, HeldOrderFits, HoldsOrder
<1>6. ~QueuedOrder(b)
  <2>1. \A i \in 1..Len(comm[b]) : comm[b][i] \in Query
    BY DEF Inv, TypeOK
  <2>2. QED
    BY <1>1, <1>3, <2>1 DEF BoardInv, QueuedOrdersFit, QueuedOrder
<1>7. QED
  BY <1>4, <1>5, <1>6

(* Receiving bytes: either more are to come, or these were the last of all *)
(* the records and every board has nothing left to do.                     *)
LEMMA ServerDataInv ==
  ASSUME Inv, NEW b \in Boards, NEW p \in Ports, ServerData(b, p)
  PROVE  Inv'
<1>1. PICK k \in Nat \ {0}, g \in Readings :
        /\ k <= wire[b][p]
        /\ wire[b][p] # 0
        /\ wire' = [wire EXCEPT ![b][p] = wire[b][p] - k]
        /\ g[b][p] = pidx[b][p] + k
        /\ \A c \in Boards, q \in Ports : c # b \/ q # p => g[c][q] = pidx[c][q]
        /\ \A c \in Boards : c # b => g[c] = pidx[c]
        /\ g \in [Boards -> [Ports -> Nat]]
        /\ recvCount + k = Cardinality(DeliveredBy(g))
        /\ OrderNextPacket(b, p, g)
        /\ CountReceived(k, g)
        /\ UNCHANGED <<ui, ipcIn, recvIndividually, boardVars>>
  BY ServerDataEffect
<1>2. /\ ui' = ui /\ ipcIn' = ipcIn /\ recvIndividually' = recvIndividually
      /\ hps' = hps /\ order' = order /\ port' = port
      /\ transReady' = transReady /\ taken' = taken
  BY <1>1 DEF boardVars
<1>3. /\ pidx \in [Boards -> [Ports -> Nat]]
      /\ wire \in [Boards -> [Ports -> Nat]]
      /\ comm \in [Boards -> Seq(Query)]
      /\ recvIndividually \in {0, 1} /\ ipcOut \in Nat
  BY DEF Inv, TypeOK
<1>4. \A c \in Boards : BoardInv(c)
  BY DEF Inv, IInv
<1>5. /\ Active
      /\ Sent(b, p) = ServerLen(p)
      /\ wire[b][p] \in Nat \ {0} /\ pidx[b][p] \in Nat
      /\ \A q \in Ports : q < p => Sent(b, q) = ServerLen(q)
      /\ recvIndividually = 1 =>
           /\ \A q \in Ports : q < p => pidx[b][q] = ServerLen(q)
           /\ \A q \in Ports : q > p => Sent(b, q) = 0
           /\ \A q \in Ports : q # p => wire[b][q] = 0
           /\ hps[b] # "sending" /\ ~HoldsOrder(b) /\ ~QueuedOrder(b)
  BY <1>1, ArrivalContext
<1>6. \A q \in Ports : ServerLen(q) \in Nat \ {0}
  BY ConstantFacts
<1>7. /\ wire' \in [Boards -> [Ports -> Nat]]
      /\ wire'[b][p] = wire[b][p] - k
      /\ \A c \in Boards, q \in Ports : c # b \/ q # p => wire'[c][q] = wire[c][q]
      /\ \A c \in Boards : c # b => wire'[c] = wire[c]
  BY <1>1, <1>3, <1>5
<1>8. ASSUME NEW c \in Boards, NEW q \in Ports
      PROVE  /\ g[c][q] \in Nat /\ wire'[c][q] \in Nat
             /\ g[c][q] + wire'[c][q] = Sent(c, q)
  <2>1. /\ pidx[c][q] \in Nat /\ wire[c][q] \in Nat /\ g[c][q] \in Nat
        /\ wire'[c][q] \in Nat
    BY <1>1, <1>3, <1>7
  <2>2. CASE c = b /\ q = p
    <3>1. g[c][q] = pidx[c][q] + k /\ wire'[c][q] = wire[c][q] - k
      BY <1>1, <1>7, <2>2
    <3>2. QED
      BY <2>1, <3>1 DEF Sent
  <2>3. CASE c # b \/ q # p
    BY <1>1, <1>7, <2>1, <2>3 DEF Sent
  <2>4. QED
    BY <2>1, <2>2, <2>3
<1> DEFINE m == [each |-> 1, idx |-> p]
<1>10. m \in Query /\ (Orders(m) => p # NumPorts) /\ m.each = 1 /\ m.idx = p
  BY ConstantFacts DEF Query, Orders, Trailing
<1> HIDE DEF m
<1>11. \/ /\ recvIndividually = 1 /\ g[b][p] = ServerLen(p)
          /\ comm' = [comm EXCEPT ![b] = Append(comm[b], m)]
       \/ comm' = comm
  BY <1>1 DEF OrderNextPacket, m
<1>12. /\ comm' \in [Boards -> Seq(Query)]
       /\ \A c \in Boards : c # b => comm'[c] = comm[c]
  <2>1. comm[b] \in Seq(Query)
    BY <1>3
  <2>2. Append(comm[b], m) \in Seq(Query)
    BY <1>10, <2>1, AppendProperties
  <2> DEFINE s == Append(comm[b], m)
  <2> HIDE DEF s
  <2>3. comm' = [comm EXCEPT ![b] = s] \/ comm' = comm
    BY <1>11 DEF s
  <2>4. s \in Seq(Query)
    BY <2>2 DEF s
  <2>5. QED
    BY <1>3, <2>3, <2>4
<1>13. /\ Cardinality(DeliveredBy(g)) \in Nat
       /\ Cardinality(DeliveredBy(g)) <= Total
       /\ Total \in Nat
       /\ Cardinality(DeliveredBy(g)) = Total => DeliveredBy(g) = Units
  BY DeliveredInUnits, ConstantFacts
<1>14. CASE recvCount + k = Total
  <2>1. /\ ipcOut' = ipcOut + 1 /\ recvCount' = 0
        /\ pidx' = [c \in Boards |-> [q \in Ports |-> 0]]
    BY <1>1, <1>14 DEF CountReceived
  <2>2. TypeOK'
    <3>1. pidx' \in [Boards -> [Ports -> Nat]]
      BY <2>1
    <3>2. ipcOut' \in Nat /\ recvCount' \in Counts
      BY <1>3, <1>13, <2>1 DEF Counts
    <3>3. QED
      BY <1>2, <1>7, <1>12, <3>1, <3>2 DEF Inv, TypeOK
  <2>3. OneQueryAtATime' /\ ~Active'
    BY <1>2, <1>5, <2>1 DEF Active, OneQueryAtATime
  <2>4. ASSUME NEW c \in Boards, NEW q \in Ports
        PROVE  wire'[c][q] = 0 /\ Sent(c, q) # 0
    <3>1. g[c][q] = ServerLen(q)
      BY <1>1, <1>13, <1>14, AllDelivered
    <3>2. Sent(c, q) \in {0, ServerLen(q)}
      BY <1>4 DEF BoardInv, WholePackets
    <3>3. /\ g[c][q] \in Nat \ {0} /\ wire'[c][q] \in Nat
          /\ g[c][q] + wire'[c][q] \in {0, g[c][q]}
      BY <1>6, <1>8, <3>1, <3>2
    <3>4. PICK x \in Nat \ {0}, y \in Nat :
            x = g[c][q] /\ y = wire'[c][q] /\ x + y \in {0, x}
      BY <3>3
    <3>5. x + y = Sent(c, q)
      BY <1>8, <3>4
    <3>6. y = 0
      BY <3>4
    <3>7. QED
      BY <3>4, <3>5, <3>6
  <2>5. ASSUME NEW c \in Boards
        PROVE  hps[c] # "sending" /\ ~HoldsOrder(c) /\ ~QueuedOrder(c)
    BY <2>4, NothingLeftToDo, ConstantFacts
  <2>6. ~Orders(m) \/ comm' = comm
    <3> SUFFICES ASSUME Orders(m), comm' # comm PROVE FALSE
      OBVIOUS
    <3>1. NumPorts > p /\ recvIndividually = 1
      BY <1>10, <1>11, ConstantFacts
    <3>2. QED
      BY <1>5, <2>4, <3>1, ConstantFacts
  <2>7. ASSUME NEW c \in Boards
        PROVE  hps'[c] # "sending" /\ ~HoldsOrder(c)' /\ ~QueuedOrder(c)'
    <3>1. hps'[c] # "sending" /\ ~HoldsOrder(c)'
      BY <1>2, <2>5 DEF HoldsOrder, Orders, Trailing
    <3>2. CASE comm'[c] = comm[c]
      BY <2>5, <3>1, <3>2 DEF QueuedOrder, Orders, Trailing
    <3>3. CASE comm'[c] # comm[c]
      <4>1. comm'[c] = Append(comm[c], m) /\ ~Orders(m) /\ comm[c] \in Seq(Query)
        BY <1>3, <1>11, <1>12, <2>6, <3>3
      <4>2. \A i \in 1..Len(comm'[c]) :
              comm'[c][i] = m \/ (i \in 1..Len(comm[c]) /\ comm'[c][i] = comm[c][i])
        BY <1>10, <4>1
      <4>3. QED
        BY <2>5, <3>1, <4>1, <4>2 DEF QueuedOrder, Orders, Trailing
    <3>4. QED
      BY <3>2, <3>3
  <2>8. QuietBetweenQueries' /\ CountIsDelivered'
    BY <2>1, <2>3, <2>4, <2>7 DEF QuietBetweenQueries, CountIsDelivered
  <2>9. ASSUME NEW c \in Boards PROVE BoardInv(c)'
    <3>1. \A q \in Ports : Sent(c, q)' = 0
      BY <2>1, <2>4 DEF Sent
    <3>2. WholePackets(c)' /\ InPortOrder(c)'
      BY <3>1 DEF WholePackets, InPortOrder
    <3>3. /\ QueuedOrdersFit(c)' /\ HeldOrderFits(c)' /\ SendingFits(c)'
          /\ NoOrderDuringPacket(c)'
      BY <2>7 DEF QueuedOrdersFit, QueuedOrder, HeldOrderFits, SendingFits,
                  NoOrderDuringPacket
    <3>4. QED
      BY <3>2, <3>3 DEF BoardInv
  <2>10. QED
    BY <2>2, <2>3, <2>8, <2>9 DEF Inv, IInv
<1>15. CASE recvCount + k # Total
  <2>1. ipcOut' = ipcOut /\ recvCount' = recvCount + k /\ pidx' = g
    BY <1>1, <1>15 DEF CountReceived
  <2>2. TypeOK'
    <3>1. recvCount' \in Counts
      BY <1>1, <1>13, <2>1 DEF Counts
    <3>2. pidx' \in [Boards -> [Ports -> Nat]] /\ ipcOut' \in Nat
      BY <1>1, <1>3, <2>1
    <3>3. QED
      BY <1>2, <1>7, <1>12, <3>1, <3>2 DEF Inv, TypeOK
  <2>3. OneQueryAtATime' /\ Active'
    BY <1>2, <1>5, <2>1 DEF Inv, IInv, OneQueryAtATime, Active
  <2>4. QuietBetweenQueries' /\ CountIsDelivered'
    BY <1>1, <2>1, <2>3 DEF QuietBetweenQueries, CountIsDelivered, Delivered
  <2>5. ASSUME NEW c \in Boards, c # b PROVE BoardInv(c)'
    BY <1>1, <1>2, <1>4, <1>7, <1>12, <2>1, <2>5, BoardFrame
  <2>6. \A q \in Ports : Sent(b, q)' = Sent(b, q)
    BY <1>8, <2>1 DEF Sent
  <2>7. WholePackets(b)'
    BY <1>4, <2>6 DEF BoardInv, WholePackets
  <2>8. \A q \in Ports : pidx[b][q] = ServerLen(q) => pidx'[b][q] = ServerLen(q)
    <3> SUFFICES ASSUME NEW q \in Ports, pidx[b][q] = ServerLen(q)
                 PROVE  g[b][q] = ServerLen(q)
      BY <2>1
    <3>1. pidx[b][p] + wire[b][p] = ServerLen(p)
      BY <1>5 DEF Sent
    <3>2. pidx[b][p] # ServerLen(p)
      BY <1>5, <3>1
    <3>3. q # p
      BY <3>2
    <3>4. QED
      BY <1>1, <3>3
  <2>9. InPortOrder(b)'
    BY <1>2, <1>4, <2>6, <2>8 DEF BoardInv, InPortOrder
  <2>10. ~HoldsOrder(b) /\ ~QueuedOrder(b)
    <3>1. ASSUME NEW n \in Query, OrderFits(b, n), recvIndividually = 0
          PROVE  FALSE
      <4>1. n.idx = 0 /\ p > 0
        BY <3>1, ConstantFacts DEF OrderFits
      <4>2. Sent(b, p) = 0
        BY <3>1, <4>1 DEF OrderFits
      <4>3. QED
        BY <1>5, <1>6, <4>2
    <3>2. /\ order[b] \in Query
          /\ \A i \in 1..Len(comm[b]) : comm[b][i] \in Query
      BY DEF Inv, TypeOK
    <3>3. ASSUME recvIndividually = 0 PROVE ~HoldsOrder(b) /\ ~QueuedOrder(b)
      BY <1>4, <3>1, <3>2, <3>3
         DEF BoardInv, HeldOrderFits, QueuedOrdersFit, QueuedOrder
    <3>4. QED
      BY <1>3, <1>5, <3>3
  <2>11. ~HoldsOrder(b)' /\ HeldOrderFits(b)'
    BY <1>2, <2>10 DEF HeldOrderFits, HoldsOrder, Orders, Trailing
  <2>12. SendingFits(b)'
    <3> SUFFICES ASSUME hps[b] = "sending" PROVE SendingFits(b)'
      BY <1>2 DEF SendingFits
    <3>1. recvIndividually # 1
      BY <1>5
    <3>2. QED
      BY <1>2, <1>4, <2>6, <3>1 DEF BoardInv, SendingFits, Orders, Trailing
  <2>13. CASE comm' = comm
    <3>1. ~QueuedOrder(b)'
      BY <2>10, <2>13 DEF QueuedOrder, Orders, Trailing
    <3>2. QueuedOrdersFit(b)'
      BY <3>1 DEF QueuedOrdersFit, QueuedOrder
    <3>3. NoOrderDuringPacket(b)'
      BY <1>2, <1>5, <2>11, <3>1 DEF NoOrderDuringPacket
    <3>4. BoardInv(b)'
      BY <2>7, <2>9, <2>11, <2>12, <3>2, <3>3 DEF BoardInv
    <3>5. QED
      BY <2>2, <2>3, <2>4, <2>5, <3>4 DEF Inv, IInv
  <2>14. CASE comm' # comm
    <3>1. /\ recvIndividually = 1 /\ g[b][p] = ServerLen(p)
          /\ comm'[b] = Append(comm[b], m) /\ comm[b] \in Seq(Query)
      BY <1>3, <1>11, <2>14
    <3>2. /\ Len(comm[b]) \in Nat /\ Len(comm'[b]) = Len(comm[b]) + 1
          /\ comm'[b][Len(comm[b]) + 1] = m
          /\ \A i \in 1..Len(comm[b]) : comm'[b][i] = comm[b][i]
      BY <1>10, <3>1
    <3>3. OrderFits(b, m)'
      <4>1. m.each = recvIndividually'
        BY <1>2, <1>10, <3>1
      <4>2. ASSUME NEW q \in Ports, q <= p PROVE pidx'[b][q] = ServerLen(q)
        <5>1. CASE q = p
          BY <2>1, <3>1, <5>1
        <5>2. CASE q < p
          BY <1>5, <2>8, <3>1, <5>2
        <5>3. QED
          BY <4>2, <5>1, <5>2, ConstantFacts
      <4>3. \A q \in Ports : q > p => Sent(b, q)' = 0
        BY <1>5, <2>6, <3>1
      <4>4. m.each # 0
        BY <1>10
      <4> DEFINE n == m.idx
      <4>5. n = p
        BY <1>10
      <4>6. QED
        BY <4>1, <4>2, <4>3, <4>4, <4>5 DEF OrderFits, m
    <3>4. QueuedOrdersFit(b)'
      <4> SUFFICES ASSUME NEW i \in 1..Len(comm'[b]), Orders(comm'[b][i])
                   PROVE  i = Len(comm'[b]) /\ OrderFits(b, comm[b][i])'
        BY <1>2, <1>5, <2>11, <3>1 DEF QueuedOrdersFit, Orders, Trailing
      <4>1. i = Len(comm[b]) + 1
        BY <2>10, <3>2 DEF QueuedOrder
      <4>2. comm'[b][i] = m
        BY <3>2, <4>1
      <4>3. OrderFits(b, comm[b][i])'
        BY <3>3, <4>2 DEF OrderFits, m
      <4>4. QED
        BY <3>2, <4>1, <4>3
    <3>5. NoOrderDuringPacket(b)'
      <4>1. wire'[b][p] = 0
        BY <1>5, <1>8, <3>1, <1>6
      <4>2. \A q \in Ports : wire'[b][q] = 0
        BY <1>5, <1>7, <3>1, <4>1
      <4>3. QED
        BY <4>2 DEF NoOrderDuringPacket
    <3>6. BoardInv(b)'
      BY <2>7, <2>9, <2>11, <2>12, <3>4, <3>5 DEF BoardInv
    <3>7. QED
      BY <2>2, <2>3, <2>4, <2>5, <3>6 DEF Inv, IInv
  <2>15. QED
    BY <2>13, <2>14
<1>16. QED
  BY <1>14, <1>15

(* Every step keeps the invariant.                                         *)
LEMMA NextInv ==
  ASSUME Inv, [Next]_vars
  PROVE  Inv'
<1>1. CASE UNCHANGED vars
  <2>1. /\ ui' = ui /\ ipcIn' = ipcIn /\ ipcOut' = ipcOut
        /\ recvIndividually' = recvIndividually /\ recvCount' = recvCount
        /\ pidx' = pidx /\ comm' = comm /\ wire' = wire /\ hps' = hps
        /\ order' = order /\ port' = port /\ transReady' = transReady
        /\ taken' = taken
    BY <1>1 DEF vars, uiVars, serverVars, netVars, boardVars
  <2>2. TypeOK'
    BY <2>1 DEF Inv, TypeOK
  <2>3. OneQueryAtATime' /\ QuietBetweenQueries' /\ CountIsDelivered'
    BY <2>1 DEF Inv, IInv, OneQueryAtATime, QuietBetweenQueries,
                CountIsDelivered, Delivered, Active, HoldsOrder, QueuedOrder,
                Orders, Trailing
  <2>4. \A b \in Boards : BoardInv(b)'
    BY <2>1, BoardFrame DEF Inv, IInv
  <2>5. QED
    BY <2>2, <2>3, <2>4 DEF Inv, IInv
<1>2. ASSUME NEW each \in {0, 1}, UIQuery(each) PROVE Inv'
  BY <1>2, UIQueryInv
<1>3. CASE UIResume
  BY <1>3, UIResumeInv
<1>4. CASE ServerQuery
  BY <1>4, ServerQueryInv
<1>5. ASSUME NEW b \in Boards, NEW p \in Ports, ServerData(b, p) PROVE Inv'
  BY <1>5, ServerDataInv
<1>6. ASSUME NEW b \in Boards, BoardStep(b) PROVE Inv'
  <2>1. CASE BoardTake(b)
    BY <2>1, BoardTakeInv
  <2>2. CASE BoardReady(b)
    BY <2>2, BoardReadyInv
  <2>3. CASE BoardTimeout(b)
    BY <2>3, BoardTimeoutInv
  <2>4. CASE BoardSend(b)
    BY <2>4, BoardSendInv
  <2>5. CASE BoardReset(b)
    BY <2>5, BoardResetInv
  <2>6. QED
    BY <1>6, <2>1, <2>2, <2>3, <2>4, <2>5 DEF BoardStep
<1>7. ASSUME NEW b \in Boards, Capture(b) PROVE Inv'
  BY <1>7, CaptureInv
<1>8. QED
  BY <1>1, <1>2, <1>3, <1>4, <1>5, <1>6, <1>7 DEF Next

LEMMA SpecInv == Spec => []Inv
<1>1. Init => Inv
  BY InitInv
<1>2. Inv /\ [Next]_vars => Inv'
  BY NextInv
<1>3. QED
  BY <1>1, <1>2, PTL DEF Spec

(* The variables keep their types: in particular recvCount is never past   *)
(* Total, unless by what it happens to be before it is set, so the test    *)
(* for equality at cServer.c:885 cannot be jumped over.                    *)
THEOREM TypeCorrect == Spec => []TypeOK
<1>1. Inv => TypeOK
  BY DEF Inv
<1>2. QED
  BY <1>1, SpecInv, PTL

(* What ties the one byte count of the server to the state of every socket *)
(* and board: the inductive invariant holds in every reachable state.      *)
THEOREM Invariance == Spec => []IInv
<1>1. Inv => IInv
  BY DEF Inv
<1>2. QED
  BY <1>1, SpecInv, PTL

LEMMA InvStaysInSegment == Inv => StaysInSegment
<1> SUFFICES ASSUME Inv, NEW b \in Boards, NEW p \in Ports
             PROVE  Sent(b, p) <= ServerLen(p)
  BY DEF StaysInSegment
<1>1. Sent(b, p) \in {0, ServerLen(p)}
  BY DEF Inv, IInv, BoardInv, WholePackets
<1>2. QED
  BY <1>1, ConstantFacts

(* No data socket is ever given more bytes than its segment of the data    *)
(* array holds (cServer.c:865), whatever the boards' timing.               *)
THEOREM SegmentSafety == Spec => []StaysInSegment
BY InvStaysInSegment, SpecInv, PTL

(* In one-at-a-time mode a packet is on the wire only when the server has  *)
(* all of the earlier ones of its board (cServer.c:806).                   *)
THEOREM OnePacketAtATime == Spec => []OneAtATime
<1>1. ASSUME Inv PROVE OneAtATime
  <2> SUFFICES ASSUME recvIndividually = 1, NEW b \in Boards,
                      NEW p \in Ports, NEW q \in Ports, q < p, Sent(b, p) > 0
               PROVE  pidx[b][q] = ServerLen(q)
    BY DEF OneAtATime
  <2>1. Sent(b, p) # 0
    OBVIOUS
  <2>2. QED
    BY <1>1, <2>1 DEF Inv, IInv, BoardInv, InPortOrder
<1>2. QED
  BY <1>1, SpecInv, PTL

(* The step that notifies the user interface brings the last byte of the   *)
(* last packet of every board.                                             *)
LEMMA NotificationStep ==
  ASSUME Inv, [Next]_vars, ipcOut' > ipcOut, NEW c \in Boards, NEW q \in Ports
  PROVE  pidx[c][q] + (wire[c][q] - wire'[c][q]) = ServerLen(q)
<1>1. ipcOut' # ipcOut /\ ipcOut \in Nat
  BY DEF Inv, TypeOK
<1>2. PICK b \in Boards, p \in Ports : ServerData(b, p)
  <2>1. ~UIResume
    BY <1>1 DEF UIResume
  <2>2. \A b \in Boards : ~BoardStep(b) /\ ~Capture(b)
    BY <1>1 DEF BoardStep, BoardTake, BoardReady, BoardTimeout, BoardSend,
                BoardReset, Capture, uiVars
  <2>3. ~ServerQuery /\ ~UNCHANGED vars /\ \A each \in {0, 1} : ~UIQuery(each)
    BY <1>1 DEF ServerQuery, UIQuery, vars, uiVars
  <2>4. QED
    BY <2>1, <2>2, <2>3 DEF Next
<1>3. PICK k \in Nat \ {0}, g \in Readings :
        /\ k <= wire[b][p]
        /\ wire' = [wire EXCEPT ![b][p] = wire[b][p] - k]
        /\ g[b][p] = pidx[b][p] + k
        /\ \A x \in Boards, y \in Ports : x # b \/ y # p => g[x][y] = pidx[x][y]
        /\ recvCount + k = Cardinality(DeliveredBy(g))
        /\ CountReceived(k, g)
  BY <1>2, ServerDataEffect
<1>4. recvCount + k = Total
  BY <1>1, <1>3 DEF CountReceived
<1>5. g[c][q] = ServerLen(q)
  BY <1>3, <1>4, DeliveredInUnits, AllDelivered
<1>6. pidx[c][q] \in Nat /\ wire[c][q] \in Nat /\ wire[b][p] \in Nat
  BY DEF Inv, TypeOK
<1>7. CASE c = b /\ q = p
  <2>1. wire'[c][q] = wire[c][q] - k /\ g[c][q] = pidx[c][q] + k
    BY <1>3, <1>7 DEF Inv, TypeOK
  <2>2. QED
    BY <1>3, <1>5, <1>6, <2>1
<1>8. CASE c # b \/ q # p
  <2>1. wire'[c][q] = wire[c][q] /\ g[c][q] = pidx[c][q]
    BY <1>3, <1>8 DEF Inv, TypeOK
  <2>2. QED
    BY <1>5, <1>6, <2>1
<1>9. QED
  BY <1>7, <1>8

(* The user interface is notified only with the byte that completes the    *)
(* last packet of every board (cServer.c:885-889, dataServer.py:202).      *)
THEOREM NotificationMeansComplete == Spec => NotifyOnlyWhenComplete
<1>1. Inv /\ [Next]_vars =>
        [ipcOut' > ipcOut =>
           \A b \in Boards, p \in Ports :
             pidx[b][p] + (wire[b][p] - wire'[b][p]) = ServerLen(p)]_vars
  BY NotificationStep
<1>2. QED
  BY <1>1, SpecInv, PTL DEF Spec, NotifyOnlyWhenComplete

(* The initial states are initial states of the pulse service.             *)
LEMMA RefinementInit == Init => Service!PulseInit
<1> SUFFICES ASSUME Init PROVE Phase = "rest" /\ Delivered = {}
  BY DEF Service!PulseInit
<1>1. \A b \in Boards, p \in Ports : pidx[b][p] = 0
  BY DEF Init
<1>2. DeliveredBy(pidx) = {}
  BY <1>1, NothingDelivered
<1>3. QED
  BY <1>2 DEF Init, Phase, Delivered

(* Every step is a step of the pulse service or changes nothing of it.     *)
LEMMA RefinementStep ==
  ASSUME Inv, [Next]_vars
  PROVE  [Service!PulseNext]_(Service!pulseVars)
<1>1. OneQueryAtATime /\ ipcOut \in Nat
  BY DEF Inv, IInv, TypeOK
<1>2. ASSUME ui' = ui, ipcOut' = ipcOut, pidx' = pidx
      PROVE  UNCHANGED Service!pulseVars
  BY <1>2 DEF Service!pulseVars, Phase, Delivered
<1>3. ASSUME NEW each \in {0, 1}, UIQuery(each) PROVE Service!Ask
  <2>1. ui = "ready" /\ ui' = "waiting" /\ ipcOut = 0 /\ ipcOut' = 0 /\ pidx' = pidx
    BY <1>1, <1>3 DEF UIQuery, OneQueryAtATime, serverVars
  <2>2. QED
    BY <2>1 DEF Service!Ask, Phase, Delivered
<1>4. CASE UIResume
  <2>1. ui = "waiting" /\ ipcOut > 0 /\ ui' = "ready" /\ pidx' = pidx
    BY <1>4 DEF UIResume, serverVars
  <2>2. QED
    BY <2>1 DEF Service!PulseNext, Service!Resume, Phase, Delivered
<1>5. ASSUME NEW b \in Boards, NEW p \in Ports, ServerData(b, p)
      PROVE  Service!Collect
  <2>1. PICK k \in Nat \ {0}, g \in Readings :
          /\ wire[b][p] # 0
          /\ recvCount + k = Cardinality(DeliveredBy(g))
          /\ DeliveredBy(pidx) \subseteq DeliveredBy(g)
          /\ DeliveredBy(pidx) # DeliveredBy(g)
          /\ CountReceived(k, g)
          /\ ui' = ui
    BY <1>5, ServerDataEffect
  <2>2. ui = "waiting" /\ ipcOut = 0
    BY <2>1, ArrivalContext DEF Active
  <2>3. PICK U : U = DeliveredBy(g) \ DeliveredBy(pidx)
    OBVIOUS
  <2>4. /\ DeliveredBy(g) \subseteq Units
        /\ recvCount + k = Total <=> DeliveredBy(g) = Units
    BY <2>1, DeliveredInUnits, UnitsCount
  <2>5. /\ U \in SUBSET (Units \ Delivered) /\ U # {}
        /\ Delivered \cup U = DeliveredBy(g)
    BY <2>1, <2>3, <2>4 DEF Delivered
  <2>6. Phase = "asked"
    BY <2>2 DEF Phase
  <2>7. CASE DeliveredBy(g) = Units
    <3>1. ipcOut' = 1 /\ pidx' = [x \in Boards |-> [y \in Ports |-> 0]]
      BY <2>1, <2>2, <2>4, <2>7 DEF CountReceived
    <3>2. DeliveredBy([x \in Boards |-> [y \in Ports |-> 0]]) = {}
      BY NothingDelivered
    <3>3. Phase' = "told" /\ Delivered' = {}
      BY <2>1, <2>2, <3>1, <3>2 DEF Phase, Delivered
    <3>4. QED
      BY <2>5, <2>6, <2>7, <3>3 DEF Service!Collect
  <2>8. CASE DeliveredBy(g) # Units
    <3>1. ipcOut' = 0 /\ pidx' = g
      BY <2>1, <2>2, <2>4, <2>8 DEF CountReceived
    <3>2. Phase' = "asked" /\ Delivered' = DeliveredBy(g)
      BY <2>1, <2>2, <3>1 DEF Phase, Delivered
    <3>3. QED
      BY <2>5, <2>6, <2>8, <3>2 DEF Service!Collect
  <2>9. QED
    BY <2>7, <2>8
<1>6. CASE ServerQuery
  BY <1>2, <1>6 DEF ServerQuery
<1>7. ASSUME NEW b \in Boards, BoardStep(b) \/ Capture(b)
      PROVE  UNCHANGED Service!pulseVars
  BY <1>2, <1>7 DEF BoardStep, BoardTake, BoardReady, BoardTimeout, BoardSend,
                    BoardReset, Capture, uiVars, serverVars
<1>8. CASE UNCHANGED vars
  BY <1>2, <1>8 DEF vars, uiVars, serverVars
<1>9. QED
  BY <1>3, <1>4, <1>5, <1>6, <1>7, <1>8 DEF Next, Service!PulseNext

(* The acquisition implements the pulse service: between a query and its   *)
(* one notification every byte of every record arrives exactly once.       *)
THEOREM Refinement == Spec => ImplementsPulseService
<1>1. Inv /\ [Next]_vars => [Service!PulseNext]_(Service!pulseVars)
  BY RefinementStep
<1>2. QED
  BY <1>1, RefinementInit, SpecInv, PTL
     DEF Spec, ImplementsPulseService, Service!PulseSpec
=============================================================================
