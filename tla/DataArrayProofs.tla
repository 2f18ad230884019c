---------------------------- MODULE DataArrayProofs ----------------------------
(***************************************************************************)
(* The data array, for any records, dimensions, indices and number of      *)
(* boards: a script that keeps the order of OrderlyNext finds every        *)
(* segment inside the array, apart from the others and where it looks.     *)
(***************************************************************************)
EXTENDS DataArray, Integers, FiniteSetTheorems, TLAPS

-----------------------------------------------------------------------------
(* The invariant *)

Shape(l) == l[1] \in Nat \ {0} /\ l[2] \in Nat \ {0} /\ l[3] \in Nat \ {0}
NP(r) == Layout(r)!NumPorts
CLen(r, p) == Layout(r)!ClientLen(p)

(* Every length is at least 1, on both sides.                              *)
Shapes == Shape(lens) /\ Shape(pyLens)

(* Boards are connected before they connect data sockets.                  *)
Members == /\ active \subseteq Joined /\ due \subseteq Joined
           /\ IsFiniteSet(wired) /\ \A s \in wired : s[1] \in active

(* The segments in the array are those of an array of n boards with        *)
(* lengths l and records r, though not always of what is set by now.       *)
PlaceOf(l, r, n, e, b, p) ==
  (PulseIdx(l, e) * n + b) * r.len + (p - 1) * r.packet
StoredIn(l, r, n) ==
  \A s \in stored :
    /\ s.event \in EventSet(l) /\ s.board \in 0..(n - 1) /\ s.port \in 1..NP(r)
    /\ s.at = PlaceOf(l, r, n, s.event, s.board, s.port)
    /\ s.len = CLen(r, s.port)
Dims == {l \in Nat \X Nat \X Nat : Shape(l)}
Packed == \E l \in Dims, r \in Records, n \in Nat :
            StoredIn(l, r, n) /\ n * Events(l) * r.len <= size

(* A ready array has room for the boards counted, which have the server's  *)
(* record and have all their ports connected, and no others of them; each  *)
(* socket has the length of its port.                                      *)
Mine == (0..(numBoards - 1)) \X (1..NP(record))
Prepared ==
  /\ pyLens = lens /\ numBoards <= joined
  /\ size = numBoards * Events(lens) * record.len /\ maxIdx = size
  /\ StoredIn(lens, record, numBoards)
  /\ \A b \in 0..(numBoards - 1) : b \in active /\ hps[b] = record
  /\ \A s \in wired : s[1] < numBoards => s \in Mine
  /\ Mine \subseteq pointed
  /\ numBoards > 0 => portMax = NP(record)
  /\ \A s \in Mine : dataLen[s] = CLen(record, s[2])

(* Once an index is declared, each socket is at the place of its segment.  *)
Aimed == /\ ids \in EventSet(lens)
         /\ \A s \in Mine :
              addr[s] = PlaceOf(lens, record, numBoards, ids, s[1], s[2])

ArrayInv == /\ TypeOK /\ Shapes /\ Members /\ Packed
            /\ ready => Prepared
            /\ ready /\ declared => Aimed

-----------------------------------------------------------------------------
(* Arithmetic *)

LEMMA Division ==
  ASSUME NEW a \in Nat, NEW d \in Nat \ {0}
  PROVE  /\ a \div d \in Nat
         /\ a % d \in 0..(d - 1)
         /\ a = d * (a \div d) + (a % d)
OBVIOUS

LEMMA Product ==
  ASSUME NEW d \in Nat, NEW m \in Nat, NEW n \in Nat
  PROVE  /\ m * d \in Nat /\ n * d \in Nat
         /\ m < n => m * d + d <= n * d
         /\ m <= n => m * d <= n * d
<1>1. m * d \in Nat /\ n * d \in Nat
  OBVIOUS
<1>2. ASSUME m < n
      PROVE  m * d + d <= n * d
  <2>1. PICK k \in Nat : n = m + 1 + k
    <3>1. n - m - 1 \in Nat /\ n = m + 1 + (n - m - 1)
      BY <1>2
    <3>2. QED
      BY <3>1
  <2>2. n * d = m * d + d + k * d /\ k * d \in Nat
    BY <2>1
  <2>3. QED
    BY <1>1, <2>2
<1>3. QED
  BY <1>1, <1>2

LEMMA Remainder ==
  ASSUME NEW d \in Nat \ {0}, NEW q \in Nat, NEW c \in 0..(d - 1)
  PROVE  (q * d + c) % d = c
<1>1. q * d \in Nat /\ q * d + c \in Nat
  OBVIOUS
<1>2. PICK k \in Nat, x \in 0..(d - 1) :
        q * d + c = d * k + x /\ x = (q * d + c) % d
  BY <1>1, Division
<1>3. d * k = k * d /\ k * d \in Nat
  OBVIOUS
<1>4. /\ k < q => k * d + d <= q * d
      /\ q < k => q * d + d <= k * d
  BY Product
<1>5. k = q => k * d = q * d
  OBVIOUS
<1>6. QED
  BY <1>1, <1>2, <1>3, <1>4, <1>5

-----------------------------------------------------------------------------
(* Records and their segments *)

(* A record of length rl in packets of pk: its ports, and the length c of  *)
(* what port p carries, by the board's arithmetic and by the server's.     *)
IsCut(rl, pk, n) == n = (rl - 1) \div pk + 1
Carries(rl, pk, p, c) ==
  c = IF pk < rl - (p - 1) * pk THEN pk ELSE rl - (p - 1) * pk

LEMMA Cut ==
  ASSUME NEW rl \in Nat \ {0}, NEW pk \in 1..rl, NEW n, IsCut(rl, pk, n),
         NEW p \in 1..n, NEW c, Carries(rl, pk, p, c)
  PROVE  /\ (p - 1) * pk \in Nat /\ c \in 1..pk
         /\ (p - 1) * pk + c <= rl
         /\ c = IF rl % pk # 0 /\ p = n THEN rl % pk ELSE pk
<1> USE DEF IsCut, Carries
<1>1. rl \in Nat /\ pk \in Nat \ {0}
  OBVIOUS
<1>2. PICK q \in Nat, x \in 0..(pk - 1) :
        q = (rl - 1) \div pk /\ rl - 1 = pk * q + x
  <2>1. rl - 1 \in Nat
    OBVIOUS
  <2>2. QED
    BY <1>1, <2>1, Division
<1>3. n = q + 1 /\ p \in Nat \ {0} /\ p - 1 \in Nat /\ p - 1 <= q
  BY <1>2
<1>4. pk * q = q * pk /\ q * pk \in Nat
  BY <1>1
<1>5. rl = q * pk + (x + 1) /\ x + 1 \in 1..pk
  BY <1>1, <1>2, <1>4
<1>6. /\ (p - 1) * pk \in Nat
      /\ p - 1 < q => (p - 1) * pk + pk <= q * pk
  BY <1>1, <1>3, Product
<1>7. p - 1 = q => (p - 1) * pk = q * pk
  OBVIOUS
<1>8. CASE p - 1 < q
  <2>1. c = pk
    BY <1>1, <1>4, <1>5, <1>6, <1>8
  <2>2. p # n
    BY <1>3, <1>8
  <2>3. QED
    BY <1>1, <1>4, <1>5, <1>6, <1>8, <2>1, <2>2
<1>9. CASE p - 1 = q
  <2>1. c = x + 1 /\ p = n
    BY <1>1, <1>3, <1>4, <1>5, <1>7, <1>9
  <2>2. CASE x + 1 = pk
    <3>1. rl = (q + 1) * pk + 0 /\ q + 1 \in Nat /\ 0 \in 0..(pk - 1)
      BY <1>1, <1>5, <2>2
    <3>2. rl % pk = 0
      BY <1>1, <3>1, Remainder
    <3>3. QED
      BY <1>1, <1>4, <1>5, <1>7, <1>9, <2>1, <2>2, <3>2
  <2>3. CASE x + 1 # pk
    <3>1. x + 1 \in 0..(pk - 1)
      BY <1>5, <2>3
    <3>2. rl % pk = x + 1
      BY <1>1, <1>5, <3>1, Remainder
    <3>3. QED
      BY <1>1, <1>3, <1>4, <1>5, <1>7, <1>9, <2>1, <2>3, <3>2
  <2>4. QED
    BY <2>2, <2>3
<1>10. QED
  BY <1>3, <1>8, <1>9

LEMMA RecordsAre ==
  ASSUME NEW r \in Records
  PROVE  /\ r.len \in Nat \ {0} /\ r.packet \in 1..r.len
         /\ r.len \in Nat /\ r.packet \in Nat
         /\ NP(r) \in Nat \ {0} /\ NP(r) = (r.len - 1) \div r.packet + 1
<1>1. r.len \in Nat \ {0} /\ r.packet \in 1..r.len
  <2>1. CASE r = DefaultRecord
    BY <2>1, ArrayAssumption DEF DefaultRecord, Record
  <2>2. CASE \E a \in RecLens : r = Record(a[1], a[2])
    BY <2>2, ArrayAssumption DEF Record
  <2>3. QED
    BY <2>1, <2>2 DEF Records
<1>2. PICK a \in Nat \ {0}, d \in Nat \ {0} : a = r.len /\ d = r.packet
  BY <1>1
<1>3. NP(r) = (a - 1) \div d + 1
  BY <1>2 DEF NP, Layout!NumPorts
<1>4. (a - 1) \div d \in Nat
  <2>1. a - 1 \in Nat
    OBVIOUS
  <2>2. QED
    BY <2>1, Division
<1>5. QED
  BY <1>1, <1>2, <1>3, <1>4

LEMMA SegmentIs ==
  ASSUME NEW r \in Records, NEW p \in 1..NP(r)
  PROVE  /\ (p - 1) * r.packet \in Nat /\ CLen(r, p) \in 1..r.packet
         /\ (p - 1) * r.packet + CLen(r, p) <= r.len
         /\ SegmentLen(p, r, NP(r)) = CLen(r, p)
         /\ \/ Layout(r)!ClientSource(p) = (p - 1) * r.packet
            \/ p > 1 /\ CLen(r, p) < r.packet
<1>1. PICK rl \in Nat \ {0}, pk \in Nat, n \in Nat \ {0} :
        /\ rl = r.len /\ pk = r.packet /\ n = NP(r)
        /\ pk \in 1..rl /\ IsCut(rl, pk, n)
  BY RecordsAre DEF IsCut
<1>2. p \in 1..n
  BY <1>1
<1>3. PICK c : Carries(rl, pk, p, c)
  BY DEF Carries
<1>4. CLen(r, p) = c
  BY <1>1, <1>3 DEF Carries, CLen, Layout!ClientLen, Layout!AddrRemainder
<1>5. /\ (p - 1) * pk \in Nat /\ c \in 1..pk
      /\ (p - 1) * pk + c <= rl
      /\ c = IF rl % pk # 0 /\ p = n THEN rl % pk ELSE pk
  BY <1>1, <1>2, <1>3, Cut
<1>6. SegmentLen(p, r, NP(r)) = c
  BY <1>1, <1>5 DEF SegmentLen
<1>7. Layout(r)!ClientSource(p) = (p - 1) * c
  BY <1>4 DEF CLen, Layout!ClientSource
<1>8. (p - 1) * c = (p - 1) * pk \/ (p > 1 /\ c < pk)
  <2>1. CASE c = pk
    BY <2>1
  <2>2. CASE c < pk /\ p = 1
    <3>1. p - 1 = 0 /\ 0 * c = 0 /\ 0 * pk = 0
      BY <1>5, <2>2
    <3>2. QED
      BY <3>1
  <2>3. QED
    BY <1>2, <1>5, <2>1, <2>2
<1>9. QED
  BY <1>1, <1>4, <1>5, <1>6, <1>7, <1>8

-----------------------------------------------------------------------------
(* The order of the events *)

Idx(b, c, i, j, k) == c * (i * b + j) + k

LEMMA IdxIs ==
  ASSUME NEW b \in Nat \ {0}, NEW c \in Nat \ {0},
         NEW i \in Nat, NEW j \in 0..(b - 1), NEW k \in 0..(c - 1)
  PROVE  /\ i * b + j \in Nat /\ (i * b + j) * c \in Nat
         /\ Idx(b, c, i, j, k) \in Nat
         /\ Idx(b, c, i, j, k) = (i * b + j) * c + k
<1>1. i * b \in Nat /\ j \in Nat /\ k \in Nat
  BY Product
<1>2. PICK x \in Nat : x = i * b + j
  BY <1>1
<1>3. c * x = x * c /\ x * c \in Nat
  OBVIOUS
<1>4. QED
  BY <1>1, <1>2, <1>3 DEF Idx

LEMMA IdxInRange ==
  ASSUME NEW a \in Nat \ {0}, NEW b \in Nat \ {0}, NEW c \in Nat \ {0},
         NEW i \in 0..(a - 1), NEW j \in 0..(b - 1), NEW k \in 0..(c - 1)
  PROVE  Idx(b, c, i, j, k) < a * b * c
<1>1. i \in Nat /\ i < a
  OBVIOUS
<1>2. PICK x \in Nat : x = i * b + j /\ Idx(b, c, i, j, k) = x * c + k
  BY <1>1, IdxIs
<1>3. PICK n \in Nat : n = a * b
  OBVIOUS
<1>4. i * b + b <= a * b /\ i * b \in Nat
  BY <1>1, Product
<1>5. x < n
  BY <1>2, <1>3, <1>4
<1>6. x * c + c <= n * c /\ x * c \in Nat /\ n * c \in Nat
  BY <1>5, Product
<1>7. Idx(b, c, i, j, k) < n * c
  BY <1>2, <1>6
<1>8. QED
  BY <1>3, <1>7

LEMMA IdxAscends ==
  ASSUME NEW b \in Nat \ {0}, NEW c \in Nat \ {0},
         NEW i \in Nat, NEW j \in 0..(b - 1), NEW k \in 0..(c - 1),
         NEW u \in Nat, NEW v \in 0..(b - 1), NEW w \in 0..(c - 1),
         i < u \/ (i = u /\ j < v) \/ (i = u /\ j = v /\ k < w)
  PROVE  Idx(b, c, i, j, k) < Idx(b, c, u, v, w)
<1>1. PICK x \in Nat : x = i * b + j /\ Idx(b, c, i, j, k) = x * c + k
  BY IdxIs
<1>2. PICK y \in Nat : y = u * b + v /\ Idx(b, c, u, v, w) = y * c + w
  BY IdxIs
<1>3. ASSUME x < y
      PROVE  x * c + k < y * c + w
  <2>1. x * c + c <= y * c /\ x * c \in Nat /\ y * c \in Nat
    BY <1>3, Product
  <2>2. QED
    BY <2>1
<1>4. CASE i < u
  <2>1. i * b + b <= u * b /\ i * b \in Nat /\ u * b \in Nat
    BY <1>4, Product
  <2>2. x < y
    BY <1>1, <1>2, <2>1
  <2>3. QED
    BY <1>1, <1>2, <1>3, <2>2
<1>5. CASE i = u /\ j < v
  <2>1. i * b \in Nat /\ u * b = i * b
    BY <1>5, Product
  <2>2. x < y
    BY <1>1, <1>2, <1>5, <2>1
  <2>3. QED
    BY <1>1, <1>2, <1>3, <2>2
<1>6. CASE i = u /\ j = v /\ k < w
  <2>1. x = y
    BY <1>1, <1>2, <1>6
  <2>2. x * c \in Nat /\ y * c = x * c
    BY <2>1, Product
  <2>3. QED
    BY <1>1, <1>2, <1>6, <2>2
<1>7. QED
  BY <1>4, <1>5, <1>6

Fits(m, a, b, c) == m < a * b * c

LEMMA IdxOnto ==
  ASSUME NEW a \in Nat \ {0}, NEW b \in Nat \ {0}, NEW c \in Nat \ {0},
         NEW m \in Nat, Fits(m, a, b, c)
  PROVE  \E i \in 0..(a - 1), j \in 0..(b - 1), k \in 0..(c - 1) :
           Idx(b, c, i, j, k) = m
<1>1. PICK x \in Nat, k \in 0..(c - 1) : m = c * x + k
  BY Division
<1>2. PICK i \in Nat, j \in 0..(b - 1) : x = b * i + j
  BY Division
<1>3. c * x = x * c /\ x * c \in Nat /\ b * i = i * b /\ i * b \in Nat
  OBVIOUS
<1>4. PICK n \in Nat : n = a * b
  OBVIOUS
<1>5. m < n * c /\ n * c \in Nat
  BY <1>4 DEF Fits
<1>6. x < n
  <2>1. n <= x => n * c <= x * c
    BY Product
  <2>2. QED
    BY <1>1, <1>3, <1>5, <2>1
<1>7. i < a
  <2>1. a <= i => a * b <= i * b
    BY Product
  <2>2. QED
    BY <1>2, <1>3, <1>4, <1>6, <2>1
<1>8. Idx(b, c, i, j, k) = m
  BY <1>1, <1>2, <1>3 DEF Idx
<1>9. QED
  BY <1>7, <1>8

-----------------------------------------------------------------------------
(* Places in the array *)

LEMMA EventIs ==
  ASSUME NEW l, Shape(l), NEW e \in EventSet(l)
  PROVE  /\ e[1] \in 0..(l[1] - 1) /\ e[2] \in 0..(l[2] - 1) /\ e[3] \in 0..(l[3] - 1)
         /\ e = <<e[1], e[2], e[3]>>
         /\ PulseIdx(l, e) = Idx(l[2], l[3], e[1], e[2], e[3])
         /\ PulseIdx(l, e) \in Nat /\ PulseIdx(l, e) < Events(l)
         /\ Events(l) \in Nat \ {0}
<1>1. PICK a \in Nat \ {0}, b \in Nat \ {0}, c \in Nat \ {0} :
        a = l[1] /\ b = l[2] /\ c = l[3]
  BY DEF Shape
<1>2. /\ e[1] \in 0..(l[1] - 1) /\ e[2] \in 0..(l[2] - 1) /\ e[3] \in 0..(l[3] - 1)
      /\ e = <<e[1], e[2], e[3]>>
  BY DEF EventSet
<1>3. PICK i \in 0..(a - 1), j \in 0..(b - 1), k \in 0..(c - 1) :
        i = e[1] /\ j = e[2] /\ k = e[3]
  BY <1>1, <1>2
<1>4. PulseIdx(l, e) = Idx(b, c, i, j, k)
  BY <1>1, <1>3 DEF PulseIdx, Idx
<1>5. i \in Nat
  OBVIOUS
<1>6. Idx(b, c, i, j, k) \in Nat /\ Idx(b, c, i, j, k) < a * b * c
  BY <1>5, IdxIs, IdxInRange
<1>7. Events(l) = a * b * c /\ a * b * c \in Nat
  BY <1>1 DEF Events
<1>8. Events(l) \in Nat \ {0}
  BY <1>6, <1>7
<1>9. QED
  BY <1>1, <1>2, <1>3, <1>4, <1>6, <1>7, <1>8

LEMMA EventsAscend ==
  ASSUME NEW l, Shape(l), NEW d \in EventSet(l), NEW e \in EventSet(l)
  PROVE  /\ Before(d, e) => PulseIdx(l, d) < PulseIdx(l, e)
         /\ d = e \/ Before(d, e) \/ Before(e, d)
<1>1. PICK a \in Nat \ {0}, b \in Nat \ {0}, c \in Nat \ {0} :
        a = l[1] /\ b = l[2] /\ c = l[3]
  BY DEF Shape
<1>2. PICK i \in 0..(a - 1), j \in 0..(b - 1), k \in 0..(c - 1) :
        /\ i = d[1] /\ j = d[2] /\ k = d[3] /\ d = <<i, j, k>>
        /\ PulseIdx(l, d) = Idx(b, c, i, j, k)
  BY <1>1, EventIs
<1>3. PICK u \in 0..(a - 1), v \in 0..(b - 1), w \in 0..(c - 1) :
        /\ u = e[1] /\ v = e[2] /\ w = e[3] /\ e = <<u, v, w>>
        /\ PulseIdx(l, e) = Idx(b, c, u, v, w)
  BY <1>1, EventIs
<1>4. i \in Nat /\ u \in Nat
  OBVIOUS
<1>5. Before(d, e) <=> i < u \/ (i = u /\ j < v) \/ (i = u /\ j = v /\ k < w)
  BY <1>2, <1>3 DEF Before
<1>6. Before(e, d) <=> u < i \/ (u = i /\ v < j) \/ (u = i /\ v = j /\ w < k)
  BY <1>2, <1>3 DEF Before
<1>7. ASSUME Before(d, e)
      PROVE  PulseIdx(l, d) < PulseIdx(l, e)
  <2>1. i < u \/ (i = u /\ j < v) \/ (i = u /\ j = v /\ k < w)
    BY <1>5, <1>7
  <2>2. Idx(b, c, i, j, k) < Idx(b, c, u, v, w)
    BY <1>4, <2>1, IdxAscends
  <2>3. QED
    BY <1>2, <1>3, <2>2
<1>8. \/ i < u \/ (i = u /\ j < v) \/ (i = u /\ j = v /\ k < w)
      \/ u < i \/ (u = i /\ v < j) \/ (u = i /\ v = j /\ w < k)
      \/ i = u /\ j = v /\ k = w
  BY <1>4
<1>9. i = u /\ j = v /\ k = w => d = e
  BY <1>2, <1>3
<1>10. QED
  BY <1>5, <1>6, <1>7, <1>8, <1>9

(* Row by row, board by board, record by record.                           *)
LEMMA PlaceIs ==
  ASSUME NEW l, Shape(l), NEW r \in Records, NEW n \in Nat,
         NEW e \in EventSet(l), NEW b \in 0..(n - 1), NEW p \in 1..NP(r)
  PROVE  /\ PlaceOf(l, r, n, e, b, p) \in Nat
         /\ PlaceOf(l, r, n, e, b, p) + CLen(r, p) <= n * Events(l) * r.len
<1>1. PICK P \in Nat, E \in Nat : P = PulseIdx(l, e) /\ E = Events(l) /\ P < E
  BY EventIs
<1>2. PICK rl \in Nat, x \in Nat, c \in Nat :
        /\ rl = r.len /\ x = (p - 1) * r.packet /\ c = CLen(r, p)
        /\ x + c <= rl
  BY RecordsAre, SegmentIs
<1>3. P * n + n <= E * n /\ P * n \in Nat /\ E * n \in Nat
  BY <1>1, Product
<1>4. PICK Q \in Nat, N \in Nat : Q = P * n + b /\ N = E * n /\ Q < N
  BY <1>3
<1>5. Q * rl + rl <= N * rl /\ Q * rl \in Nat /\ N * rl \in Nat
  BY <1>4, Product
<1>6. n * E = N
  BY <1>4
<1>7. PlaceOf(l, r, n, e, b, p) = Q * rl + x
  BY <1>1, <1>2, <1>4 DEF PlaceOf
<1>8. Q * rl + x \in Nat /\ Q * rl + x + c <= N * rl
  BY <1>2, <1>5
<1>9. QED
  BY <1>1, <1>2, <1>6, <1>7, <1>8

LEMMA PlacesApart ==
  ASSUME NEW l, Shape(l), NEW r \in Records, NEW n \in Nat,
         NEW d \in EventSet(l), NEW b \in 0..(n - 1), NEW p \in 1..NP(r),
         NEW e \in EventSet(l), NEW c \in 0..(n - 1), NEW q \in 1..NP(r),
         ~(d = e /\ b = c /\ p = q)
  PROVE  \/ PlaceOf(l, r, n, d, b, p) + CLen(r, p) <= PlaceOf(l, r, n, e, c, q)
         \/ PlaceOf(l, r, n, e, c, q) + CLen(r, q) <= PlaceOf(l, r, n, d, b, p)
<1>1. PICK P \in Nat, O \in Nat : P = PulseIdx(l, d) /\ O = PulseIdx(l, e)
  BY EventIs
<1>2. /\ r.len \in Nat /\ r.packet \in Nat
      /\ (p - 1) * r.packet \in Nat /\ CLen(r, p) \in 1..r.packet
      /\ (p - 1) * r.packet + CLen(r, p) <= r.len
  BY RecordsAre, SegmentIs
<1>3. /\ (q - 1) * r.packet \in Nat /\ CLen(r, q) \in 1..r.packet
      /\ (q - 1) * r.packet + CLen(r, q) <= r.len
  BY SegmentIs
<1>4. PICK rl \in Nat, pk \in Nat : rl = r.len /\ pk = r.packet
  BY <1>2
<1>5. PICK x \in Nat, f \in Nat : /\ x = (p - 1) * r.packet /\ f = CLen(r, p)
                                 /\ x + f <= rl /\ f <= pk
  BY <1>2, <1>4
<1>6. PICK y \in Nat, g \in Nat : /\ y = (q - 1) * r.packet /\ g = CLen(r, q)
                                 /\ y + g <= rl /\ g <= pk
  BY <1>2, <1>3, <1>4
<1>7. /\ P < O => P * n + n <= O * n
      /\ O < P => O * n + n <= P * n
      /\ P * n \in Nat /\ O * n \in Nat
  BY Product
<1>8. PICK Q \in Nat, R \in Nat : Q = P * n + b /\ R = O * n + c
  BY <1>7
<1>9. PICK s \in Nat, t \in Nat :
        /\ s = Q * rl /\ t = R * rl
        /\ Q < R => s + rl <= t
        /\ R < Q => t + rl <= s
  BY Product
<1>10. PlaceOf(l, r, n, d, b, p) = s + x /\ PlaceOf(l, r, n, e, c, q) = t + y
  BY <1>1, <1>4, <1>5, <1>6, <1>8, <1>9 DEF PlaceOf
<1>11. CASE Q # R
  BY <1>5, <1>6, <1>9, <1>10, <1>11
<1>12. CASE Q = R
  <2>1. P = O
    BY <1>7, <1>8, <1>12
  <2>2. d = e
    <3>1. ~(P < O) /\ ~(O < P)
      BY <2>1
    <3>2. (Before(d, e) => P < O) /\ (Before(e, d) => O < P)
      BY <1>1, EventsAscend
    <3>3. d = e \/ Before(d, e) \/ Before(e, d)
      BY EventsAscend
    <3>4. QED
      BY <3>1, <3>2, <3>3
  <2>3. b = c
    <3>1. P * n = O * n
      BY <2>1
    <3>2. QED
      BY <1>7, <1>8, <1>12, <3>1
  <2>4. p # q /\ p - 1 \in Nat /\ q - 1 \in Nat /\ s = t
    BY <1>9, <1>12, <2>2, <2>3
  <2>5. /\ p - 1 < q - 1 => (p - 1) * pk + pk <= (q - 1) * pk
        /\ q - 1 < p - 1 => (q - 1) * pk + pk <= (p - 1) * pk
    BY <2>4, Product
  <2>6. (p < q => x + pk <= y) /\ (q < p => y + pk <= x)
    BY <1>4, <1>5, <1>6, <2>4, <2>5
  <2>7. QED
    BY <1>5, <1>6, <1>10, <2>4, <2>6
<1>13. QED
  BY <1>11, <1>12

(* The place of an event is the number of events before it.                *)
LEMMA RankIs ==
  ASSUME NEW l, Shape(l), NEW e \in EventSet(l)
  PROVE  Cardinality({d \in EventSet(l) : Before(d, e)}) = PulseIdx(l, e)
<1> DEFINE B == {d \in EventSet(l) : Before(d, e)}
<1>1. PICK P \in Nat : P = PulseIdx(l, e) /\ P < Events(l)
  BY EventIs
<1>2. PICK g : g = [d \in B |-> PulseIdx(l, d)]
  OBVIOUS
<1>3. \A d \in B : PulseIdx(l, d) \in 0..(P - 1)
  <2> SUFFICES ASSUME NEW d \in B
               PROVE  PulseIdx(l, d) \in 0..(P - 1)
    OBVIOUS
  <2>1. d \in EventSet(l) /\ Before(d, e)
    OBVIOUS
  <2>2. PulseIdx(l, d) \in Nat
    BY <2>1, EventIs
  <2>3. PulseIdx(l, d) < P
    BY <1>1, <2>1, EventsAscend
  <2>4. QED
    BY <2>2, <2>3
<1>4. g \in [B -> 0..(P - 1)] /\ \A d \in B : g[d] = PulseIdx(l, d)
  BY <1>2, <1>3
<1>5. ASSUME NEW c \in B, NEW d \in B, g[c] = g[d]
      PROVE  c = d
  <2>1. PICK C \in Nat, D \in Nat : C = PulseIdx(l, c) /\ D = PulseIdx(l, d)
    BY EventIs
  <2>2. (Before(c, d) => C < D) /\ (Before(d, c) => D < C)
    BY <2>1, EventsAscend
  <2>3. c = d \/ Before(c, d) \/ Before(d, c)
    BY EventsAscend
  <2>4. C = D
    BY <1>4, <1>5, <2>1
  <2>5. QED
    BY <2>2, <2>3, <2>4
<1>6. ASSUME NEW m \in 0..(P - 1)
      PROVE  \E d \in B : g[d] = m
  <2>1. PICK a \in Nat \ {0}, b \in Nat \ {0}, c \in Nat \ {0} :
          a = l[1] /\ b = l[2] /\ c = l[3]
    BY DEF Shape
  <2>2. m \in Nat /\ m < P /\ Fits(m, a, b, c)
    <3>1. Events(l) = a * b * c /\ a * b * c \in Nat
      BY <2>1 DEF Events
    <3>2. QED
      BY <1>1, <3>1 DEF Fits
  <2>3. PICK i \in 0..(a - 1), j \in 0..(b - 1), k \in 0..(c - 1) :
          Idx(b, c, i, j, k) = m
    BY <2>2, IdxOnto
  <2>4. PICK d : d = <<i, j, k>>
    OBVIOUS
  <2>5. d \in EventSet(l)
    BY <2>1, <2>4 DEF EventSet
  <2>6. PulseIdx(l, d) = m
    BY <2>1, <2>3, <2>4 DEF PulseIdx, Idx
  <2>7. d # e /\ ~Before(e, d)
    <3>1. Before(e, d) => PulseIdx(l, e) < PulseIdx(l, d)
      BY <2>5, EventsAscend
    <3>2. QED
      BY <1>1, <2>2, <2>6, <3>1
  <2>8. Before(d, e)
    BY <2>5, <2>7, EventsAscend
  <2>9. d \in B
    BY <2>5, <2>8
  <2>10. QED
    BY <1>4, <2>6, <2>9
<1> HIDE DEF B
<1>7. g \in Injection(B, 0..(P - 1))
  BY <1>4, <1>5 DEF Injection, IsInjective
<1>8. g \in Surjection(B, 0..(P - 1))
  BY <1>4, <1>6 DEF Surjection
<1>9. ExistsBijection(B, 0..(P - 1))
  BY <1>7, <1>8 DEF ExistsBijection, Bijection
<1>10. IsFiniteSet(0..(P - 1)) /\ Cardinality(0..(P - 1)) = P
  <2>1. PICK z \in Int : z = P - 1
    OBVIOUS
  <2>2. /\ IsFiniteSet(0..z)
        /\ Cardinality(0..z) = IF 0 > z THEN 0 ELSE z - 0 + 1
    BY FS_Interval
  <2>3. (IF 0 > z THEN 0 ELSE z - 0 + 1) = P
    BY <2>1
  <2>4. QED
    BY <2>1, <2>2, <2>3
<1>11. IsFiniteSet(B)
  BY <1>7, <1>10, FS_Injection
<1>12. Cardinality(0..(P - 1)) = Cardinality(B)
  BY <1>9, <1>11, FS_Bijection
<1>13. QED
  BY <1>1, <1>10, <1>12 DEF B

-----------------------------------------------------------------------------
(* The last port *)

Less == {ss \in Nat \X Nat : ss[1] < ss[2]}

LEMMA LeastNumber ==
  ASSUME NEW S \in SUBSET Nat, S # {}
  PROVE  \E m \in S : \A n \in S : m <= n
<1>1. IsWellFoundedOn(Less, Nat)
  BY NatLessThanWellFounded, Zenon DEF OpToRel, Less
<1>2. PICK m \in S : \A n \in S : <<n, m>> \notin Less
  BY <1>1, WFMin
<1>3. ASSUME NEW n \in S
      PROVE  m <= n
  <2>1. m \in Nat /\ n \in Nat /\ <<n, m>> \notin Less
    BY <1>2
  <2>2. ASSUME n < m
        PROVE  <<n, m>> \in Less
    BY <2>1, <2>2 DEF Less
  <2>3. QED
    BY <2>1, <2>2
<1>4. QED
  BY <1>3

LEMMA FiniteBound ==
  ASSUME NEW S \in SUBSET Nat, IsFiniteSet(S)
  PROVE  \E b \in Nat : \A n \in S : n <= b
<1>1. PICK k \in Nat : ExistsBijection(1..k, S)
  BY FS_NatBijection
<1>2. PICK f \in [1..k -> S] : \A n \in S : \E i \in 1..k : f[i] = n
  BY <1>1 DEF ExistsBijection, Bijection, Surjection
<1> DEFINE Bounded(m) == \E b \in Nat : \A i \in 1..k : i <= m => f[i] <= b
           T == {m \in 0..k : ~Bounded(m)}
<1>3. ASSUME T # {}
      PROVE  FALSE
  <2>1. T \in SUBSET Nat
    OBVIOUS
  <2>2. PICK m \in T : \A n \in T : m <= n
    <3> HIDE DEF T
    <3>1. QED
      BY <1>3, <2>1, LeastNumber
  <2>3. m \in 0..k /\ ~Bounded(m)
    BY <2>2
  <2>4. m # 0
    <3>1. \A i \in 1..k : i <= 0 => f[i] <= 0
      OBVIOUS
    <3>2. Bounded(0)
      BY <3>1
    <3> HIDE DEF Bounded
    <3>3. QED
      BY <2>3, <3>2
  <2>5. m - 1 \in 0..k /\ m \in 1..k /\ ~(m <= m - 1)
    BY <2>3, <2>4
  <2>6. Bounded(m - 1)
    <3> HIDE DEF Bounded
    <3>1. QED
      BY <2>2, <2>5
  <2>7. PICK b \in Nat : \A i \in 1..k : i <= m - 1 => f[i] <= b
    BY <2>6
  <2>8. PICK c \in Nat : c = f[m]
    BY <1>2, <2>5
  <2>9. PICK d \in Nat : b <= d /\ c <= d
    <3>1. b + c \in Nat /\ b <= b + c /\ c <= b + c
      OBVIOUS
    <3>2. QED
      BY <3>1
  <2>10. ASSUME NEW i \in 1..k, i <= m
         PROVE  f[i] <= d
    <3>1. i = m \/ i <= m - 1
      BY <2>5, <2>10
    <3>2. PICK x \in Nat : x = f[i]
      BY <1>2
    <3>3. x <= b \/ x = c
      BY <2>7, <2>8, <3>1, <3>2
    <3>4. x <= d
      BY <2>9, <3>3
    <3>5. QED
      BY <3>2, <3>4
  <2>11. QED
    BY <2>3, <2>10
<1>4. Bounded(k)
  <2>1. k \in 0..k
    OBVIOUS
  <2> HIDE DEF Bounded
  <2>2. QED
    BY <1>3, <2>1
<1>5. PICK b \in Nat : \A i \in 1..k : i <= k => f[i] <= b
  BY <1>4
<1>6. \A i \in 1..k : f[i] <= b
  BY <1>5
<1>7. QED
  BY <1>2, <1>6

LEMMA GreatestNumber ==
  ASSUME NEW S \in SUBSET Nat, S # {}, IsFiniteSet(S)
  PROVE  Max(S) \in S /\ \A n \in S : n <= Max(S)
<1> DEFINE T == {m \in Nat : \A n \in S : n <= m}
<1>1. T \in SUBSET Nat /\ T # {}
  BY FiniteBound
<1>2. PICK m \in T : \A k \in T : m <= k
  BY <1>1, LeastNumber
<1>3. m \in Nat /\ \A n \in S : n <= m
  BY <1>2
<1>4. ASSUME m \notin S
      PROVE  FALSE
  <2>1. \A n \in S : n < m /\ n \in Nat
    BY <1>3, <1>4
  <2>2. PICK s \in S : TRUE
    OBVIOUS
  <2>3. m - 1 \in Nat /\ \A n \in S : n <= m - 1
    BY <1>3, <2>1, <2>2
  <2>4. m - 1 \in T
    BY <2>3
  <2>5. m <= m - 1
    BY <1>2, <2>4
  <2>6. QED
    BY <1>3, <2>5
<1>5. \E k \in S : \A n \in S : k >= n
  BY <1>3, <1>4
<1>6. QED
  BY <1>5 DEF Max

-----------------------------------------------------------------------------
(* Sockets and boards *)

LEMMA ConstantsAre ==
  /\ MaxFpgas \in Nat /\ MaxBoards \in Nat \ {0} /\ MaxBoards <= MaxFpgas
  /\ DefaultRecLen \in Nat \ {0} /\ DefaultRecord \in Records
  /\ Ranks \subseteq Nat
  /\ \A b \in Ranks, r \in Records : \A p \in 1..NP(r) : <<b, p>> \in Sockets
  /\ \A s \in Sockets : s = <<s[1], s[2]>> /\ s[1] \in Ranks /\ s[2] \in Nat \ {0}
<1>1. /\ MaxFpgas \in Nat /\ MaxBoards \in Nat \ {0} /\ MaxBoards <= MaxFpgas
      /\ DefaultRecLen \in Nat \ {0}
  BY ArrayAssumption
<1>2. DefaultRecord \in Records
  BY DEF Records
<1>3. Ranks \subseteq Nat
  BY <1>1 DEF Ranks
<1>4. \A b \in Ranks, r \in Records : \A p \in 1..NP(r) : <<b, p>> \in Sockets
  BY DEF Sockets, NP
<1>5. \A r \in Records : NP(r) \in Nat
  BY RecordsAre
<1>6. \A s \in Sockets : s = <<s[1], s[2]>> /\ s[1] \in Ranks /\ s[2] \in Nat \ {0}
  BY <1>5 DEF Sockets, NP
<1>7. QED
  BY <1>1, <1>2, <1>3, <1>4, <1>6

LEMMA CountedAreRanks ==
  ASSUME TypeOK
  PROVE  Joined \subseteq Ranks /\ 0..(numBoards - 1) \subseteq Ranks
<1>1. PICK M \in Nat, j \in Nat, n \in Nat :
        M = MaxBoards /\ j = joined /\ n = numBoards /\ j <= M /\ n <= M
  BY ArrayAssumption DEF TypeOK
<1>2. 0..(j - 1) \subseteq 0..(M - 1) /\ 0..(n - 1) \subseteq 0..(M - 1)
  BY <1>1
<1>3. QED
  BY <1>1, <1>2 DEF Joined, Ranks

LEMMA NeededIs ==
  ASSUME NEW b, NEW s
  PROVE  s \in Needed(b) <=> b \in active /\ s \in {b} \X (1..NP(hps[b]))
BY DEF Needed, NP

LEMMA PortMaxIs ==
  ASSUME TypeOK, Members
  PROVE  /\ PortMax \in {0} \cup {s[2] : s \in Sockets}
         /\ PortMax \in Nat
         /\ \A N \in Nat : /\ \A s \in wired : s[2] <= N
                           /\ \E s \in wired : s[2] = N
                           => PortMax = N
<1> DEFINE S == {0} \cup {s[2] : s \in wired}
<1>1. wired \subseteq Sockets /\ IsFiniteSet(wired)
  BY DEF TypeOK, Members
<1>2. S \in SUBSET Nat /\ S # {}
  BY <1>1, ConstantsAre
<1>3. IsFiniteSet(S)
  <2>1. IsFiniteSet({s[2] : s \in wired})
    <3>1. PICK f : f = [s \in wired |-> s[2]]
      OBVIOUS
    <3>2. f \in Surjection(wired, {s[2] : s \in wired})
      BY <3>1 DEF Surjection
    <3>3. QED
      BY <1>1, <3>2, FS_Surjection
  <2>2. IsFiniteSet({s[2] : s \in wired} \cup {0})
    BY <2>1, FS_AddElement
  <2>3. S = {s[2] : s \in wired} \cup {0}
    OBVIOUS
  <2>4. QED
    BY <2>2, <2>3
<1>4. PortMax = Max(S)
  BY DEF PortMax
<1>5. Max(S) \in S /\ \A n \in S : n <= Max(S)
  <2> HIDE DEF S
  <2>1. QED
    BY <1>2, <1>3, GreatestNumber
<1>6. PICK m \in S : m = PortMax /\ \A n \in S : n <= m
  BY <1>4, <1>5
<1>7. ASSUME NEW N \in Nat, \A s \in wired : s[2] <= N, \E s \in wired : s[2] = N
      PROVE  m = N
  <2>1. N \in S /\ m \in Nat
    BY <1>2, <1>7
  <2>2. m <= N
    BY <1>7
  <2>3. N <= m
    BY <1>6, <2>1
  <2>4. QED
    BY <2>1, <2>2, <2>3
<1>8. QED
  BY <1>1, <1>2, <1>6, <1>7

-----------------------------------------------------------------------------
(* The boards' steps *)

LEMMA StoredKept ==
  ASSUME UNCHANGED <<stored, size>>, Packed
  PROVE  Packed'
BY DEF Packed, StoredIn

LEMMA BoardJoinsKeeps ==
  ASSUME ArrayInv, BoardJoins
  PROVE  ArrayInv'
<1>1. /\ joined < MaxBoards /\ joined' = joined + 1
      /\ UNCHANGED <<pyLens, lens, ids, record, numBoards, portMax, size, maxIdx,
                     stored>>
      /\ UNCHANGED <<due, hps, active, wired, pointed, addr, dataLen, ready, declared>>
  BY DEF BoardJoins, dimVars, countVars, memVars, ptrVars
<1>2. TypeOK /\ Shapes /\ Members /\ Packed
  BY DEF ArrayInv
<1>3. joined' \in 0..MaxBoards /\ joined \in Nat
  BY <1>1, <1>2, ConstantsAre DEF TypeOK
<1>4. TypeOK' /\ Shapes'
  BY <1>1, <1>2, <1>3 DEF TypeOK, Shapes
<1>5. Members'
  <2>1. Joined \subseteq Joined'
    BY <1>1, <1>3 DEF Joined
  <2>2. QED
    BY <1>1, <1>2, <2>1 DEF Members
<1>6. Packed'
  BY <1>1, <1>2, StoredKept
<1>7. Prepared => Prepared'
  <2>1. numBoards <= joined => numBoards <= joined'
    BY <1>1, <1>2, <1>3 DEF TypeOK
  <2>2. QED
    BY <1>1, <2>1 DEF Prepared, StoredIn, Mine
<1>8. Aimed => Aimed'
  BY <1>1 DEF Aimed, Mine
<1>9. QED
  BY <1>1, <1>4, <1>5, <1>6, <1>7, <1>8 DEF ArrayInv

LEMMA ObeyKeeps ==
  ASSUME ArrayInv, NEW b \in Ranks, Obey(b)
  PROVE  ArrayInv'
<1>1. /\ b \in due /\ due' = due \ {b} /\ hps' = [hps EXCEPT ![b] = record]
      /\ active' = active \cup {b}
      /\ UNCHANGED <<pyLens, lens, ids, record, numBoards, portMax, size, maxIdx,
                     stored>>
      /\ UNCHANGED <<joined, wired, pointed, addr, dataLen, ready, declared>>
  BY DEF Obey, dimVars, countVars, memVars, ptrVars
<1>2. TypeOK /\ Shapes /\ Members /\ Packed
  BY DEF ArrayInv
<1>3. /\ hps' \in [Ranks -> Records] /\ hps'[b] = record
      /\ \A c \in Ranks : c # b => hps'[c] = hps[c]
  BY <1>1, <1>2 DEF TypeOK
<1>4. TypeOK' /\ Shapes'
  BY <1>1, <1>2, <1>3 DEF TypeOK, Shapes
<1>5. Members'
  BY <1>1, <1>2 DEF Members, Joined
<1>6. Packed'
  BY <1>1, <1>2, StoredKept
<1>7. Prepared => Prepared'
  <2> SUFFICES ASSUME Prepared
               PROVE  Prepared'
    OBVIOUS
  <2>1. \A c \in 0..(numBoards - 1) : c \in Ranks
    BY <1>2, CountedAreRanks
  <2>2. \A c \in 0..(numBoards - 1) : c \in active' /\ hps'[c] = record
    BY <1>1, <1>3, <2>1 DEF Prepared
  <2>3. QED
    BY <1>1, <2>2 DEF Prepared, StoredIn, Mine
<1>8. Aimed => Aimed'
  BY <1>1 DEF Aimed, Mine
<1>9. QED
  BY <1>1, <1>4, <1>5, <1>6, <1>7, <1>8 DEF ArrayInv

LEMMA MineIs ==
  ASSUME TypeOK, Prepared
  PROVE  /\ Mine \subseteq wired /\ Mine \subseteq Sockets
         /\ \A s \in Sockets : s \in Mine <=> s[1] < numBoards /\ s \in Needed(s[1])
<1>1. Mine \subseteq wired /\ wired \subseteq Sockets
  BY DEF TypeOK, Prepared
<1>2. numBoards \in Nat
  BY DEF TypeOK
<1>3. ASSUME NEW s \in Sockets
      PROVE  s \in Mine <=> s[1] < numBoards /\ s \in Needed(s[1])
  <2>1. s = <<s[1], s[2]>> /\ s[1] \in Nat
    BY ConstantsAre
  <2>2. s[1] < numBoards <=> s[1] \in 0..(numBoards - 1)
    BY <1>2, <2>1
  <2>3. s[1] \in 0..(numBoards - 1) => s[1] \in active /\ hps[s[1]] = record
    BY DEF Prepared
  <2>4. s \in Needed(s[1]) <=> s[1] \in active /\ s \in {s[1]} \X (1..NP(hps[s[1]]))
    BY NeededIs
  <2>5. QED
    BY <2>1, <2>2, <2>3, <2>4 DEF Mine
<1>4. QED
  BY <1>1, <1>3

LEMMA DialKeeps ==
  ASSUME ArrayInv, NEW s \in Sockets, Dial(s)
  PROVE  ArrayInv'
<1>1. /\ s \in Needed(s[1]) /\ wired' = wired \cup {s}
      /\ UNCHANGED <<pyLens, lens, ids, record, numBoards, portMax, size, maxIdx,
                     stored>>
      /\ UNCHANGED <<joined, due, hps, active, pointed, addr, dataLen, ready, declared>>
  BY DEF Dial, dimVars, countVars, memVars, ptrVars
<1>2. TypeOK /\ Shapes /\ Members /\ Packed
  BY DEF ArrayInv
<1>3. TypeOK' /\ Shapes'
  BY <1>1, <1>2 DEF TypeOK, Shapes
<1>4. Members'
  <2>1. s[1] \in active
    BY <1>1, NeededIs
  <2>2. IsFiniteSet(wired')
    BY <1>1, <1>2, FS_AddElement DEF Members
  <2>3. QED
    BY <1>1, <1>2, <2>1, <2>2 DEF Members, Joined
<1>5. Packed'
  BY <1>1, <1>2, StoredKept
<1>6. Prepared => Prepared'
  <2> SUFFICES ASSUME Prepared
               PROVE  Prepared'
    OBVIOUS
  <2>1. s[1] < numBoards => s \in Mine
    BY <1>1, <1>2, MineIs
  <2>2. \A t \in wired' : t[1] < numBoards => t \in Mine
    BY <1>1, <2>1 DEF Prepared
  <2>3. QED
    BY <1>1, <2>2 DEF Prepared, StoredIn, Mine
<1>7. Aimed => Aimed'
  BY <1>1 DEF Aimed, Mine
<1>8. QED
  BY <1>1, <1>3, <1>4, <1>5, <1>6, <1>7 DEF ArrayInv

LEMMA HangupKeeps ==
  ASSUME ArrayInv, NEW s \in Sockets, Hangup(s)
  PROVE  ArrayInv'
<1>1. /\ s \notin Needed(s[1]) /\ wired' = wired \ {s} /\ pointed' = pointed \ {s}
      /\ addr' = [addr EXCEPT ![s] = 0] /\ dataLen' = [dataLen EXCEPT ![s] = 0]
      /\ UNCHANGED <<pyLens, lens, ids, record, numBoards, portMax, size, maxIdx,
                     stored>>
      /\ UNCHANGED <<joined, due, hps, active, ready, declared>>
  BY DEF Hangup, dimVars, countVars, memVars
<1>2. TypeOK /\ Shapes /\ Members /\ Packed
  BY DEF ArrayInv
<1>3. /\ addr' \in [Sockets -> Nat] /\ dataLen' \in [Sockets -> Nat]
      /\ \A t \in Sockets : t # s => addr'[t] = addr[t] /\ dataLen'[t] = dataLen[t]
  BY <1>1, <1>2 DEF TypeOK
<1>4. TypeOK' /\ Shapes'
  BY <1>1, <1>2, <1>3 DEF TypeOK, Shapes
<1>5. Members'
  <2>1. IsFiniteSet(wired')
    BY <1>1, <1>2, FS_Subset DEF Members
  <2>2. QED
    BY <1>1, <1>2, <2>1 DEF Members, Joined
<1>6. Packed'
  BY <1>1, <1>2, StoredKept
<1>7. ASSUME Prepared
      PROVE  Prepared' /\ (Aimed => Aimed')
  <2>1. s \notin Mine /\ Mine \subseteq Sockets /\ Mine' = Mine
    BY <1>1, <1>2, <1>7, MineIs DEF Mine
  <2>2. \A t \in Mine : addr'[t] = addr[t] /\ dataLen'[t] = dataLen[t]
    BY <1>3, <2>1
  <2>3. Mine \subseteq pointed'
    BY <1>1, <1>7, <2>1 DEF Prepared
  <2>4. \A t \in wired' : t[1] < numBoards => t \in Mine
    BY <1>1, <1>7 DEF Prepared
  <2>5. Prepared'
    BY <1>1, <1>7, <2>1, <2>2, <2>3, <2>4 DEF Prepared, StoredIn
  <2>6. Aimed => Aimed'
    BY <1>1, <2>1, <2>2 DEF Aimed
  <2>7. QED
    BY <2>5, <2>6
<1>8. QED
  BY <1>1, <1>4, <1>5, <1>6, <1>7 DEF ArrayInv

-----------------------------------------------------------------------------
(* The script's steps *)

(* When the boards that are counted are all there is, and have all their   *)
(* ports connected, the last of these is the last port of a record.        *)
LEMMA LastPortIs ==
  ASSUME TypeOK, Members, NEW n \in Nat \ {0}, NEW r \in Records,
         wired = (0..(n - 1)) \X (1..NP(r))
  PROVE  PortMax = NP(r)
<1>1. PICK N \in Nat \ {0} : N = NP(r)
  BY RecordsAre
<1>2. \A s \in wired : s[2] <= N
  BY <1>1
<1>3. <<0, N>> \in wired
  BY <1>1
<1>4. \E s \in wired : s[2] = N
  BY <1>3
<1>5. N \in Nat
  OBVIOUS
<1>6. QED
  BY <1>1, <1>2, <1>4, <1>5, PortMaxIs

LEMMA GetBoardInfoKeeps ==
  ASSUME ArrayInv, GetBoardInfo
  PROVE  ArrayInv'
<1>1. /\ numBoards' = joined /\ portMax' = PortMax
      /\ ready' = (ready /\ numBoards = joined)
      /\ UNCHANGED <<pyLens, lens, ids, record, size, maxIdx, stored>>
      /\ UNCHANGED <<joined, due, hps, active, wired, pointed, addr, dataLen, declared>>
  BY DEF GetBoardInfo, dimVars, memVars, hpsVars, ptrVars
<1>2. TypeOK /\ Shapes /\ Members /\ Packed
  BY DEF ArrayInv
<1>3. TypeOK' /\ Shapes' /\ Members'
  <2>1. portMax' \in {0} \cup {s[2] : s \in Sockets}
    BY <1>1, <1>2, PortMaxIs
  <2>2. TypeOK'
    BY <1>1, <1>2, <2>1 DEF TypeOK
  <2>3. Shapes' /\ Members'
    BY <1>1, <1>2 DEF Shapes, Members, Joined
  <2>4. QED
    BY <2>2, <2>3
<1>4. Packed'
  BY <1>1, <1>2, StoredKept
<1>5. ASSUME Prepared, numBoards = joined
      PROVE  Prepared' /\ (Aimed => Aimed')
  <2>1. numBoards' = numBoards /\ Mine' = Mine
    BY <1>1, <1>5 DEF Mine
  <2>2. ASSUME numBoards > 0
        PROVE  PortMax = NP(record)
    <3>1. wired = Mine
      <4>1. Mine \subseteq wired
        BY <1>2, <1>5, MineIs
      <4>2. \A s \in wired : s[1] < numBoards
        <5>1. PICK n \in Nat : n = numBoards /\ n = joined
          BY <1>2, <1>5 DEF TypeOK
        <5>2. \A s \in wired : s[1] \in 0..(n - 1)
          BY <1>2, <5>1 DEF Members, Joined
        <5>3. QED
          BY <5>1, <5>2
      <4>3. QED
        BY <1>5, <4>1, <4>2 DEF Prepared
    <3>2. PICK n \in Nat \ {0} : n = numBoards
      BY <1>2, <2>2 DEF TypeOK
    <3>3. record \in Records
      BY <1>2 DEF TypeOK
    <3>4. QED
      BY <1>2, <3>1, <3>2, <3>3, LastPortIs DEF Mine
  <2>3. Prepared'
    BY <1>1, <1>5, <2>1, <2>2 DEF Prepared, StoredIn
  <2>4. Aimed => Aimed'
    BY <1>1, <2>1 DEF Aimed
  <2>5. QED
    BY <2>3, <2>4
<1>6. QED
  BY <1>1, <1>3, <1>4, <1>5 DEF ArrayInv

LEMMA ToggleDataAcqKeeps ==
  ASSUME ArrayInv, ToggleDataAcq
  PROVE  ArrayInv'
<1>1. /\ active' = active \cup (Joined \ due)
      /\ UNCHANGED <<pyLens, lens, ids, record, numBoards, portMax, size, maxIdx,
                     stored>>
      /\ UNCHANGED <<joined, due, hps, wired, pointed, addr, dataLen, ready, declared>>
  BY DEF ToggleDataAcq, dimVars, countVars, memVars, ptrVars
<1>2. TypeOK /\ Shapes /\ Members /\ Packed
  BY DEF ArrayInv
<1>3. active' \subseteq Ranks
  BY <1>1, <1>2, CountedAreRanks DEF TypeOK
<1>4. TypeOK' /\ Shapes'
  BY <1>1, <1>2, <1>3 DEF TypeOK, Shapes
<1>5. Members'
  BY <1>1, <1>2 DEF Members, Joined
<1>6. Packed'
  BY <1>1, <1>2, StoredKept
<1>7. Prepared => Prepared'
  BY <1>1 DEF Prepared, StoredIn, Mine
<1>8. Aimed => Aimed'
  BY <1>1 DEF Aimed, Mine
<1>9. QED
  BY <1>1, <1>4, <1>5, <1>6, <1>7, <1>8 DEF ArrayInv

LEMMA SetRecLenKeeps ==
  ASSUME ArrayInv, NEW r \in Records, SetRecLen(r)
  PROVE  ArrayInv'
<1>1. /\ record' = r /\ due' = Joined /\ ready' = (ready /\ record = r)
      /\ UNCHANGED <<pyLens, lens, ids, numBoards, portMax, size, maxIdx, stored>>
      /\ UNCHANGED <<joined, hps, active, wired, pointed, addr, dataLen, declared>>
  BY DEF SetRecLen, countVars, memVars, ptrVars
<1>2. TypeOK /\ Shapes /\ Members /\ Packed
  BY DEF ArrayInv
<1>3. TypeOK' /\ Shapes' /\ Members'
  <2>1. due' \subseteq Ranks
    BY <1>1, <1>2, CountedAreRanks
  <2>2. TypeOK'
    BY <1>1, <1>2, <2>1 DEF TypeOK
  <2>3. Shapes' /\ Members'
    BY <1>1, <1>2 DEF Shapes, Members, Joined
  <2>4. QED
    BY <2>2, <2>3
<1>4. Packed'
  BY <1>1, <1>2, StoredKept
<1>5. record = r /\ Prepared => Prepared'
  BY <1>1 DEF Prepared, StoredIn, Mine
<1>6. record = r /\ Aimed => Aimed'
  BY <1>1 DEF Aimed, Mine
<1>7. QED
  BY <1>1, <1>3, <1>4, <1>5, <1>6 DEF ArrayInv

LEMMA AtLeastOneIs ==
  ASSUME NEW l \in Nat \X Nat \X Nat
  PROVE  /\ AtLeastOne(l) \in Nat \X Nat \X Nat /\ Shape(AtLeastOne(l))
         /\ AtLeastOne(AtLeastOne(l)) = AtLeastOne(l)
<1>1. PICK u : u = AtLeastOne(l)
  OBVIOUS
<1>2. l[1] \in Nat /\ l[2] \in Nat /\ l[3] \in Nat
  OBVIOUS
<1>3. u \in [1..3 -> Nat]
  BY <1>1, <1>2 DEF AtLeastOne
<1>4. u[1] \in Nat \ {0} /\ u[2] \in Nat \ {0} /\ u[3] \in Nat \ {0}
  BY <1>1, <1>2 DEF AtLeastOne
<1>5. u = <<u[1], u[2], u[3]>>
  BY <1>3
<1>6. u \in Nat \X Nat \X Nat
  BY <1>4, <1>5
<1>7. AtLeastOne(u) = u
  <2>1. \A d \in 1..3 : u[d] > 0
    BY <1>4
  <2>2. AtLeastOne(u) = [d \in 1..3 |-> u[d]]
    BY <2>1 DEF AtLeastOne
  <2>3. QED
    BY <1>3, <2>2
<1>8. QED
  BY <1>1, <1>4, <1>6, <1>7 DEF Shape

LEMMA SetDataArraySizeKeeps ==
  ASSUME ArrayInv, NEW l \in Lens, SetDataArraySize(l)
  PROVE  ArrayInv'
<1>1. PICK u : u = AtLeastOne(l)
  OBVIOUS
<1>2. u \in Nat \X Nat \X Nat /\ Shape(u) /\ AtLeastOne(u) = u
  BY <1>1, ArrayAssumption, AtLeastOneIs
<1>3. /\ pyLens' = u /\ lens' = u /\ ready' = (ready /\ lens = u)
      /\ UNCHANGED <<ids, record, numBoards, portMax, size, maxIdx, stored>>
      /\ UNCHANGED <<joined, due, hps, active, wired, pointed, addr, dataLen, declared>>
  BY <1>1, <1>2 DEF SetDataArraySize, countVars, memVars, hpsVars, ptrVars
<1>4. TypeOK /\ Shapes /\ Members /\ Packed
  BY DEF ArrayInv
<1>5. TypeOK' /\ Shapes' /\ Members'
  <2>1. TypeOK'
    BY <1>2, <1>3, <1>4 DEF TypeOK
  <2>2. Shapes' /\ Members'
    BY <1>2, <1>3, <1>4 DEF Shapes, Members, Joined
  <2>3. QED
    BY <2>1, <2>2
<1>6. Packed'
  BY <1>3, <1>4, StoredKept
<1>7. lens = u /\ Prepared => Prepared'
  BY <1>3 DEF Prepared, StoredIn, Mine
<1>8. lens = u /\ Aimed => Aimed'
  BY <1>3 DEF Aimed, Mine
<1>9. QED
  BY <1>3, <1>5, <1>6, <1>7, <1>8 DEF ArrayInv

LEMMA StoredNone ==
  ASSUME stored' = {}, size' \in Nat
  PROVE  Packed'
<1>1. PICK l : l = <<1, 1, 1>> /\ l \in Dims
  <2>1. Shape(<<1, 1, 1>>)
    BY DEF Shape
  <2>2. <<1, 1, 1>> \in Nat \X Nat \X Nat
    OBVIOUS
  <2>3. QED
    BY <2>1, <2>2, Zenon DEF Dims
<1>2. Events(l) = 1
  BY <1>1 DEF Events
<1>3. DefaultRecord.len \in Nat /\ DefaultRecord \in Records /\ 0 \in Nat
  BY ConstantsAre, RecordsAre
<1>4. 0 * Events(l) * DefaultRecord.len <= size'
  BY <1>2, <1>3
<1>5. StoredIn(l, DefaultRecord, 0)'
  BY DEF StoredIn
<1>6. QED
  BY <1>1, <1>3, <1>4, <1>5 DEF Packed

LEMMA PointersAre ==
  ASSUME TypeOK, NEW l \in Nat \X Nat \X Nat, NEW i \in Nat \X Nat \X Nat,
         NEW r \in Records, NEW n \in Nat, NEW pm,
         SetDataAddrPointers(l, i, r, n, pm)
  PROVE  /\ addr' \in [Sockets -> Nat] /\ dataLen' \in [Sockets -> Nat]
         /\ pointed' = wired
         /\ \A s \in wired : /\ addr'[s] = PlaceOf(l, r, n, i, s[1], s[2])
                             /\ dataLen'[s] = SegmentLen(s[2], r, pm)
<1>1. /\ addr \in [Sockets -> Nat] /\ dataLen \in [Sockets -> Nat]
      /\ wired \subseteq Sockets
  BY DEF TypeOK
<1>2. ASSUME NEW s \in Sockets
      PROVE  PlaceOf(l, r, n, i, s[1], s[2]) \in Nat
  <2>1. s[1] \in Nat /\ s[2] - 1 \in Nat
    BY ConstantsAre
  <2>2. PICK b \in Nat, q \in Nat, rl \in Nat, pk \in Nat :
          b = s[1] /\ q = s[2] - 1 /\ rl = r.len /\ pk = r.packet
    BY <2>1, RecordsAre
  <2>3. PulseIdx(l, i) \in Nat
    <3>1. PICK e \in Nat, f \in Nat, c \in Nat, x \in Nat, y \in Nat :
            e = l[2] /\ f = l[3] /\ c = i[1] /\ x = i[2] /\ y = i[3]
      OBVIOUS
    <3>2. PICK z \in Nat : z = c * e + x
      BY Product
    <3>3. f * z + y \in Nat
      BY Product
    <3>4. QED
      BY <3>1, <3>2, <3>3 DEF PulseIdx
  <2>4. PICK P \in Nat : P = PulseIdx(l, i)
    BY <2>3
  <2>5. PICK z \in Nat : z = P * n + b
    BY Product
  <2>6. z * rl + q * pk \in Nat
    BY Product
  <2>7. QED
    BY <2>2, <2>4, <2>5, <2>6 DEF PlaceOf
<1>3. ASSUME NEW p
      PROVE  SegmentLen(p, r, pm) \in Nat
  <2>1. PICK rl \in Nat, pk \in Nat \ {0} : rl = r.len /\ pk = r.packet
    BY RecordsAre
  <2>2. rl % pk \in Nat
    BY Division
  <2>3. QED
    BY <2>1, <2>2 DEF SegmentLen
<1>4. addr' = [s \in Sockets |-> IF s \in wired THEN PlaceOf(l, r, n, i, s[1], s[2])
                                                ELSE addr[s]]
  BY DEF SetDataAddrPointers, PlaceOf
<1>5. /\ dataLen' = [s \in Sockets |-> IF s \in wired THEN SegmentLen(s[2], r, pm)
                                                      ELSE dataLen[s]]
      /\ pointed' = wired
  BY DEF SetDataAddrPointers
<1>6. addr' \in [Sockets -> Nat]
  BY <1>1, <1>2, <1>4
<1>7. dataLen' \in [Sockets -> Nat]
  BY <1>1, <1>3, <1>5
<1>8. QED
  BY <1>1, <1>4, <1>5, <1>6, <1>7

LEMMA CapacityIs ==
  ASSUME NEW l \in Nat \X Nat \X Nat, NEW r \in Records, NEW n \in Nat
  PROVE  n * Events(l) * r.len \in Nat
<1>1. PICK a \in Nat, b \in Nat, c \in Nat, rl \in Nat :
        a = l[1] /\ b = l[2] /\ c = l[3] /\ rl = r.len
  BY RecordsAre
<1>2. PICK x \in Nat : x = a * b
  BY Product
<1>3. PICK y \in Nat : y = x * c
  BY Product
<1>4. Events(l) = y
  BY <1>1, <1>2, <1>3 DEF Events
<1>5. PICK z \in Nat : z = n * y
  BY Product
<1>6. z * rl \in Nat
  BY Product
<1>7. QED
  BY <1>1, <1>4, <1>5, <1>6

LEMMA AllocateKeeps ==
  ASSUME ArrayInv, Allocate
  PROVE  ArrayInv'
<1> DEFINE Fit == /\ numBoards = joined /\ pyLens = lens /\ Connected
                  /\ \A b \in Joined : hps[b] = record /\ b \in active
<1>1. /\ size' = Allocated(numBoards) /\ maxIdx' = size'
      /\ numBoards' = joined /\ portMax' = PortMax /\ stored' = {}
      /\ ready' = Fit /\ declared' = FALSE
      /\ UNCHANGED <<pyLens, lens, ids, record, joined, due, hps, active, wired>>
  BY DEF Allocate, dimVars, hpsVars
<1> HIDE DEF Fit
<1>2. TypeOK /\ Shapes /\ Members /\ Packed
  BY DEF ArrayInv
<1>3. /\ lens \in Nat \X Nat \X Nat /\ ids \in Nat \X Nat \X Nat /\ record \in Records
      /\ numBoards \in Nat /\ joined \in Nat
  BY <1>2 DEF TypeOK
<1>4. /\ addr' \in [Sockets -> Nat] /\ dataLen' \in [Sockets -> Nat]
      /\ pointed' = wired
      /\ \A s \in wired : dataLen'[s] = SegmentLen(s[2], record, PortMax)
  <2>1. SetDataAddrPointers(lens, ids, record, joined, PortMax)
    BY DEF Allocate
  <2>2. QED
    BY <1>2, <1>3, <2>1, PointersAre
<1>5. size' \in Nat
  BY <1>1, <1>3, CapacityIs DEF Allocated
<1>6. TypeOK'
  <2>1. portMax' \in {0} \cup {s[2] : s \in Sockets}
    BY <1>1, <1>2, PortMaxIs
  <2>2. ready' \in BOOLEAN
    BY <1>1 DEF Fit
  <2>3. QED
    BY <1>1, <1>2, <1>4, <1>5, <2>1, <2>2 DEF TypeOK
<1>7. Shapes' /\ Members'
  BY <1>1, <1>2 DEF Shapes, Members, Joined
<1>8. Packed'
  BY <1>1, <1>5, StoredNone
<1>9. ASSUME Fit
      PROVE  Prepared'
  <2>1. numBoards = joined /\ pyLens = lens /\ Connected
    BY <1>9 DEF Fit
  <2>2. \A b \in Joined : hps[b] = record /\ b \in active
    BY <1>9 DEF Fit
  <2>3. Joined = 0..(numBoards' - 1)
    BY <1>1 DEF Joined
  <2>4. wired = Joined \X (1..NP(record))
    <3>1. \A b \in Joined : Needed(b) = {b} \X (1..NP(record))
      BY <2>2 DEF Needed, NP
    <3>2. wired = UNION {Needed(b) : b \in Joined}
      BY <2>1 DEF Connected
    <3>3. QED
      BY <3>1, <3>2
  <2>5. Mine' = wired
    BY <1>1, <2>3, <2>4 DEF Mine
  <2>6. joined > 0 => PortMax = NP(record)
    BY <1>2, <1>3, <2>4, LastPortIs DEF Joined
  <2>7. \A s \in Mine' : dataLen'[s] = CLen(record, s[2])
    <3> SUFFICES ASSUME NEW s \in wired
                 PROVE  dataLen'[s] = CLen(record, s[2])
      BY <2>5
    <3>1. joined > 0 /\ s[2] \in 1..NP(record)
      BY <1>3, <2>4 DEF Joined
    <3>2. SegmentLen(s[2], record, NP(record)) = CLen(record, s[2])
      BY <1>3, <3>1, SegmentIs
    <3>3. QED
      BY <1>4, <2>6, <3>1, <3>2
  <2>8. \A b \in 0..(numBoards' - 1) : b \in active /\ hps[b] = record
    BY <2>2, <2>3
  <2>9. size' = numBoards' * Events(lens) * record.len
    BY <1>1, <2>1 DEF Allocated
  <2>10. numBoards' <= joined'
    BY <1>1, <1>3
  <2>11. QED
    BY <1>1, <1>4, <2>1, <2>5, <2>6, <2>7, <2>8, <2>9, <2>10 DEF Prepared, StoredIn
<1>10. QED
  BY <1>1, <1>6, <1>7, <1>8, <1>9 DEF ArrayInv

LEMMA DeclareDataAcqIdxKeeps ==
  ASSUME ArrayInv, ready, NEW i \in Indices, DeclareDataAcqIdx(i)
  PROVE  ArrayInv'
<1>1. PICK u : u = IF Valid(i) THEN i ELSE <<0, 0, 0>>
  OBVIOUS
<1>2. TypeOK /\ Shapes /\ Members /\ Packed /\ Prepared
  BY DEF ArrayInv
<1>3. /\ ids' = u /\ declared' = TRUE
      /\ SetDataAddrPointers(lens, u, record, numBoards, portMax)
      /\ UNCHANGED <<pyLens, lens, record, numBoards, portMax, size, maxIdx, stored>>
      /\ UNCHANGED <<joined, due, hps, active, wired, ready>>
  BY <1>1 DEF DeclareDataAcqIdx, countVars, memVars, hpsVars
<1>4. u \in Nat \X Nat \X Nat /\ u \in EventSet(lens)
  <2>1. i \in Nat \X Nat \X Nat
    BY ArrayAssumption
  <2>2. PICK a \in Nat \ {0}, b \in Nat \ {0}, c \in Nat \ {0} :
          a = lens[1] /\ b = lens[2] /\ c = lens[3] /\ pyLens = lens
    BY <1>2 DEF Shapes, Shape, Prepared
  <2>3. CASE Valid(i)
    <3>1. i[1] < a /\ i[2] < b /\ i[3] < c
      BY <2>2, <2>3 DEF Valid
    <3>2. i[1] \in 0..(a - 1) /\ i[2] \in 0..(b - 1) /\ i[3] \in 0..(c - 1)
      BY <2>1, <3>1
    <3>3. i \in (0..(a - 1)) \X (0..(b - 1)) \X (0..(c - 1))
      BY <2>1, <3>2
    <3>4. QED
      BY <1>1, <2>1, <2>2, <2>3, <3>3 DEF EventSet
  <2>4. CASE ~Valid(i)
    <3>1. 0 \in 0..(a - 1) /\ 0 \in 0..(b - 1) /\ 0 \in 0..(c - 1)
      OBVIOUS
    <3>2. u = <<0, 0, 0>>
      BY <1>1, <2>4
    <3>3. QED
      BY <2>2, <3>1, <3>2 DEF EventSet
  <2>5. QED
    BY <2>3, <2>4
<1>5. /\ lens \in Nat \X Nat \X Nat /\ record \in Records /\ numBoards \in Nat
      /\ wired \subseteq Sockets
  BY <1>2 DEF TypeOK
<1>6. /\ addr' \in [Sockets -> Nat] /\ dataLen' \in [Sockets -> Nat]
      /\ pointed' = wired
      /\ \A s \in wired :
           /\ addr'[s] = PlaceOf(lens, record, numBoards, u, s[1], s[2])
           /\ dataLen'[s] = SegmentLen(s[2], record, portMax)
  BY <1>2, <1>3, <1>4, <1>5, PointersAre
<1>7. TypeOK'
  BY <1>2, <1>3, <1>4, <1>6 DEF TypeOK
<1>8. Shapes' /\ Members'
  BY <1>2, <1>3 DEF Shapes, Members, Joined
<1>9. Packed'
  BY <1>2, <1>3, StoredKept
<1>10. Mine' = Mine /\ Mine \subseteq wired
  BY <1>2, <1>3, MineIs DEF Mine
<1>11. \A s \in Mine : dataLen'[s] = CLen(record, s[2])
  <2> SUFFICES ASSUME NEW s \in Mine
               PROVE  dataLen'[s] = CLen(record, s[2])
    OBVIOUS
  <2>1. numBoards > 0 /\ s[2] \in 1..NP(record)
    BY <1>5 DEF Mine
  <2>2. portMax = NP(record)
    BY <1>2, <2>1 DEF Prepared
  <2>3. SegmentLen(s[2], record, NP(record)) = CLen(record, s[2])
    BY <1>5, <2>1, SegmentIs
  <2>4. QED
    BY <1>6, <1>10, <2>2, <2>3
<1>12. Prepared'
  BY <1>2, <1>3, <1>6, <1>10, <1>11 DEF Prepared, StoredIn
<1>13. Aimed'
  BY <1>3, <1>4, <1>6, <1>10 DEF Aimed
<1>14. QED
  BY <1>7, <1>8, <1>9, <1>12, <1>13 DEF ArrayInv

LEMMA ResetVarsKeeps ==
  ASSUME ArrayInv, ResetVars
  PROVE  ArrayInv'
<1>1. /\ record' = DefaultRecord /\ lens' = <<1, 1, 1>> /\ ids' = <<0, 0, 0>>
      /\ size' = MaxFpgas * DefaultRecLen /\ maxIdx' = MaxFpgas * DefaultRecLen
      /\ due' = Joined /\ stored' = {} /\ ready' = FALSE /\ declared' = FALSE
      /\ UNCHANGED <<pyLens, numBoards, portMax, joined, hps, active, wired>>
  BY DEF ResetVars, countVars
<1>2. TypeOK /\ Shapes /\ Members
  BY DEF ArrayInv
<1>3. size' \in Nat /\ maxIdx' \in Nat /\ record' \in Records
  BY <1>1, ConstantsAre, Product
<1>4. due' \subseteq Ranks
  BY <1>1, <1>2, CountedAreRanks
<1>5. <<1, 1, 1>> \in Nat \X Nat \X Nat /\ <<0, 0, 0>> \in Nat \X Nat \X Nat
  OBVIOUS
<1>6. /\ addr' \in [Sockets -> Nat] /\ dataLen' \in [Sockets -> Nat]
      /\ pointed' = wired
  <2>1. SetDataAddrPointers(<<1, 1, 1>>, <<0, 0, 0>>, DefaultRecord, numBoards, portMax)
    BY DEF ResetVars
  <2>2. numBoards \in Nat
    BY <1>2 DEF TypeOK
  <2>3. QED
    BY <1>2, <1>5, <2>1, <2>2, ConstantsAre, PointersAre
<1>7. TypeOK'
  BY <1>1, <1>2, <1>3, <1>4, <1>5, <1>6 DEF TypeOK
<1>8. Shapes' /\ Members'
  BY <1>1, <1>2 DEF Shapes, Shape, Members, Joined
<1>9. Packed'
  BY <1>1, <1>3, StoredNone
<1>10. QED
  BY <1>1, <1>7, <1>8, <1>9 DEF ArrayInv

(* What a pulse puts into the array: the segments of the ready boards.     *)
Fresh == {[event |-> ids, board |-> s[1], port |-> s[2], at |-> addr[s],
           len |-> Layout(hps[s[1]])!ClientLen(s[2])] :
            s \in UNION {Needed(r) : r \in Joined}}

LEMMA FreshIs ==
  ASSUME ArrayInv, ready, declared, numBoards = joined,
         NEW t \in Fresh
  PROVE  /\ t.event \in EventSet(lens) /\ t.board \in 0..(numBoards - 1)
         /\ t.port \in 1..NP(record)
         /\ t.at = PlaceOf(lens, record, numBoards, t.event, t.board, t.port)
         /\ t.len = CLen(record, t.port)
<1>1. TypeOK /\ Prepared /\ Aimed
  BY DEF ArrayInv
<1>2. PICK s \in UNION {Needed(r) : r \in Joined} :
        t = [event |-> ids, board |-> s[1], port |-> s[2], at |-> addr[s],
             len |-> Layout(hps[s[1]])!ClientLen(s[2])]
  BY DEF Fresh
<1>3. PICK b \in Joined : s \in Needed(b)
  OBVIOUS
<1>4. b \in 0..(numBoards - 1)
  BY DEF Joined
<1>5. hps[b] = record
  BY <1>1, <1>4 DEF Prepared
<1>6. s \in {b} \X (1..NP(record))
  BY <1>3, <1>5, NeededIs
<1>7. s \in Mine /\ s[1] = b /\ s[2] \in 1..NP(record)
  BY <1>4, <1>6 DEF Mine
<1>8. addr[s] = PlaceOf(lens, record, numBoards, ids, s[1], s[2])
  BY <1>1, <1>7 DEF Aimed
<1>9. ids \in EventSet(lens)
  BY <1>1 DEF Aimed
<1>10. /\ t.event = ids /\ t.board = b /\ t.port = s[2] /\ t.at = addr[s]
      /\ t.len = CLen(record, s[2])
  BY <1>2, <1>5, <1>7 DEF CLen
<1>11. QED
  BY <1>4, <1>7, <1>8, <1>9, <1>10

LEMMA PulseKeeps ==
  ASSUME ArrayInv, ready, declared, Pulse
  PROVE  ArrayInv'
<1>1. /\ numBoards > 0 /\ numBoards = joined /\ declared' = FALSE
      /\ UNCHANGED <<pyLens, lens, ids, record, numBoards, portMax, size, maxIdx>>
      /\ UNCHANGED <<joined, due, hps, active, wired, pointed, dataLen, ready>>
  BY DEF Pulse, dimVars, countVars, hpsVars
<1>2. stored' = {s \in stored : s.event # ids} \cup Fresh
  BY DEF Pulse, Fresh
<1>3. addr' = [s \in Sockets |->
                 IF s \notin wired THEN addr[s]
                 ELSE IF addr[s] > maxIdx THEN addr[s] - numBoards * record.len
                                          ELSE addr[s] + numBoards * record.len]
  BY DEF Pulse
<1>4. TypeOK /\ Shapes /\ Members /\ Packed /\ Prepared
  BY DEF ArrayInv
<1>5. /\ numBoards \in Nat /\ record \in Records /\ lens \in Nat \X Nat \X Nat
      /\ addr \in [Sockets -> Nat] /\ maxIdx \in Nat
  BY <1>4 DEF TypeOK
<1>6. StoredIn(lens, record, numBoards)'
  <2> SUFFICES ASSUME NEW t \in stored'
               PROVE  /\ t.event \in EventSet(lens) /\ t.board \in 0..(numBoards - 1)
                      /\ t.port \in 1..NP(record)
                      /\ t.at = PlaceOf(lens, record, numBoards, t.event, t.board, t.port)
                      /\ t.len = CLen(record, t.port)
    BY <1>1 DEF StoredIn
  <2>1. CASE t \in stored
    BY <1>4, <2>1 DEF Prepared, StoredIn
  <2>2. CASE t \in Fresh
    BY <1>1, <2>2, FreshIs
  <2>3. QED
    BY <1>2, <2>1, <2>2
<1>7. addr' \in [Sockets -> Nat]
  <2>1. PICK n \in Nat \ {0}, rl \in Nat, E \in Nat \ {0}, m \in Nat :
          /\ n = numBoards /\ rl = record.len /\ E = Events(lens) /\ m = maxIdx
          /\ m = n * E * rl
    <3>1. Events(lens) \in Nat \ {0}
      <4>1. PICK a \in Nat \ {0}, b \in Nat \ {0}, c \in Nat \ {0} :
              a = lens[1] /\ b = lens[2] /\ c = lens[3]
        BY <1>4 DEF Shapes, Shape
      <4>2. a * b * c \in Nat \ {0}
        <5>1. 0 \in 0..(a - 1) /\ 0 \in 0..(b - 1) /\ 0 \in 0..(c - 1) /\ 0 \in Nat
          OBVIOUS
        <5>2. Idx(b, c, 0, 0, 0) \in Nat /\ Idx(b, c, 0, 0, 0) < a * b * c
          BY <5>1, IdxIs, IdxInRange
        <5>3. a * b * c \in Nat
          OBVIOUS
        <5>4. QED
          BY <5>2, <5>3
      <4>3. QED
        BY <4>1, <4>2 DEF Events
    <3>2. maxIdx = numBoards * Events(lens) * record.len
      BY <1>4 DEF Prepared
    <3>3. record.len \in Nat /\ numBoards \in Nat \ {0}
      BY <1>1, <1>5, RecordsAre
    <3>4. QED
      BY <1>5, <3>1, <3>2, <3>3
  <2>2. PICK d \in Nat : d = n * rl
    BY Product
  <2>3. d <= m
    <3>1. PICK k \in Nat : k = n * E /\ n <= k
      <4>1. 1 <= E /\ 1 \in Nat
        OBVIOUS
      <4>2. 1 * n <= E * n /\ E * n \in Nat
        BY <4>1, Product
      <4>3. E * n = n * E /\ 1 * n = n
        OBVIOUS
      <4>4. QED
        BY <4>2, <4>3
    <3>2. n * rl <= k * rl
      BY <3>1, Product
    <3>3. QED
      BY <2>1, <2>2, <3>1, <3>2
  <2>4. ASSUME NEW x \in Nat
        PROVE  (IF x > m THEN x - d ELSE x + d) \in Nat
    BY <2>3
  <2>5. numBoards * record.len = d /\ maxIdx = m
    BY <2>1, <2>2
  <2>6. addr' = [s \in Sockets |->
                   IF s \notin wired THEN addr[s]
                   ELSE IF addr[s] > m THEN addr[s] - d ELSE addr[s] + d]
    BY <1>3, <2>5
  <2>7. \A s \in Sockets : addr[s] \in Nat
    BY <1>5
  <2>8. QED
    BY <2>4, <2>6, <2>7
<1>8. \A t \in stored' : <<t.board, t.port>> \in Sockets /\ t.at \in Nat
  <2> SUFFICES ASSUME NEW t \in stored'
               PROVE  <<t.board, t.port>> \in Sockets /\ t.at \in Nat
    OBVIOUS
  <2>1. /\ t.event \in EventSet(lens) /\ t.board \in 0..(numBoards - 1)
        /\ t.port \in 1..NP(record)
        /\ t.at = PlaceOf(lens, record, numBoards, t.event, t.board, t.port)
    BY <1>1, <1>6 DEF StoredIn
  <2>2. t.board \in Ranks
    BY <1>4, <2>1, CountedAreRanks
  <2>3. t.at \in Nat
    <3>1. Shape(lens)
      BY <1>4 DEF Shapes
    <3>2. QED
      BY <1>5, <2>1, <3>1, PlaceIs
  <2>4. QED
    BY <1>5, <2>1, <2>2, <2>3, ConstantsAre
<1>9. TypeOK'
  BY <1>1, <1>4, <1>7, <1>8 DEF TypeOK
<1>10. Shapes' /\ Members'
  BY <1>1, <1>4 DEF Shapes, Members, Joined
<1>11. Packed'
  <2>1. lens \in Dims
    BY <1>4, <1>5 DEF Shapes, Dims
  <2>2. numBoards * Events(lens) * record.len <= size'
    <3>1. size' = numBoards * Events(lens) * record.len
      BY <1>1, <1>4 DEF Prepared
    <3>2. PICK z \in Nat : z = numBoards * Events(lens) * record.len
      BY <1>5, CapacityIs
    <3>3. QED
      BY <3>1, <3>2
  <2>3. QED
    BY <1>1, <1>5, <1>6, <2>1, <2>2 DEF Packed
<1>12. Prepared'
  BY <1>1, <1>4, <1>6 DEF Prepared, Mine
<1>13. QED
  BY <1>1, <1>9, <1>10, <1>11, <1>12 DEF ArrayInv

-----------------------------------------------------------------------------
(* The invariant holds *)

LEMMA ArrayInit == Init => ArrayInv
<1> SUFFICES ASSUME Init
             PROVE  ArrayInv
  OBVIOUS
<1>1. /\ pyLens = <<1, 1, 1>> /\ lens = <<1, 1, 1>> /\ ids = <<0, 0, 0>>
      /\ record = DefaultRecord /\ numBoards = 0 /\ portMax = 0
      /\ size = MaxFpgas * DefaultRecLen /\ maxIdx = MaxFpgas * DefaultRecLen
      /\ joined = 0 /\ due = {} /\ active = {} /\ wired = {} /\ pointed = {}
      /\ stored = {} /\ ready = FALSE /\ declared = FALSE
  BY DEF Init
<1>2. /\ hps = [r \in Ranks |-> DefaultRecord]
      /\ addr = [s \in Sockets |-> 0] /\ dataLen = [s \in Sockets |-> 0]
  BY DEF Init
<1>3. /\ size \in Nat /\ maxIdx \in Nat /\ DefaultRecord \in Records
      /\ MaxBoards \in Nat /\ DefaultRecord.len \in Nat
  BY <1>1, ConstantsAre, RecordsAre, Product
<1>4. /\ <<1, 1, 1>> \in Nat \X Nat \X Nat /\ <<0, 0, 0>> \in Nat \X Nat \X Nat
      /\ Shape(<<1, 1, 1>>)
  BY DEF Shape
<1>5. /\ hps \in [Ranks -> Records]
      /\ addr \in [Sockets -> Nat] /\ dataLen \in [Sockets -> Nat]
  BY <1>2, <1>3
<1>6. TypeOK
  <2>1. /\ lens \in Nat \X Nat \X Nat /\ pyLens \in Nat \X Nat \X Nat
        /\ ids \in Nat \X Nat \X Nat /\ record \in Records
    BY <1>1, <1>3, <1>4
  <2>2. numBoards \in 0..MaxBoards /\ joined \in 0..MaxBoards
    <3>1. 0 \in 0..MaxBoards
      BY <1>3
    <3>2. QED
      BY <1>1, <3>1
  <2>3. portMax \in {0} \cup {s[2] : s \in Sockets}
    BY <1>1
  <2>4. /\ due \subseteq Ranks /\ active \subseteq Ranks
        /\ wired \subseteq Sockets /\ pointed \subseteq wired
        /\ ready \in BOOLEAN /\ declared \in BOOLEAN
    BY <1>1
  <2>5. \A s \in stored : <<s.board, s.port>> \in Sockets /\ s.at \in Nat
    BY <1>1
  <2>6. QED
    BY <1>3, <1>5, <2>1, <2>2, <2>3, <2>4, <2>5 DEF TypeOK
<1>7. Shapes /\ Members
  BY <1>1, <1>4, FS_EmptySet DEF Shapes, Members, Joined
<1>8. Packed
  <2>1. PICK l : l = <<1, 1, 1>> /\ l \in Dims
    BY <1>4, Zenon DEF Dims
  <2>2. Events(l) = 1
    BY <2>1 DEF Events
  <2>3. 0 * Events(l) * DefaultRecord.len <= size /\ 0 \in Nat
    BY <1>3, <2>2
  <2>4. StoredIn(l, DefaultRecord, 0)
    BY <1>1 DEF StoredIn
  <2>5. QED
    BY <1>3, <2>1, <2>3, <2>4 DEF Packed
<1>9. QED
  BY <1>1, <1>6, <1>7, <1>8 DEF ArrayInv

LEMMA ArrayStep == ArrayInv /\ [OrderlyNext]_arrayVars => ArrayInv'
<1> SUFFICES ASSUME ArrayInv, [OrderlyNext]_arrayVars
             PROVE  ArrayInv'
  OBVIOUS
<1>1. ASSUME Boards
      PROVE  ArrayInv'
  <2>1. CASE BoardJoins
    BY <2>1, BoardJoinsKeeps
  <2>2. CASE \E r \in Ranks : Obey(r)
    BY <2>2, ObeyKeeps
  <2>3. CASE \E s \in Sockets : Dial(s) \/ Hangup(s)
    BY <2>3, DialKeeps, HangupKeeps
  <2>4. QED
    BY <1>1, <2>1, <2>2, <2>3 DEF Boards
<1>2. ASSUME Setup
      PROVE  ArrayInv'
  <2>1. CASE GetBoardInfo
    BY <2>1, GetBoardInfoKeeps
  <2>2. CASE ToggleDataAcq
    BY <2>2, ToggleDataAcqKeeps
  <2>3. CASE \E r \in RecLens : SetRecLen(Record(r[1], r[2]))
    <3>1. PICK a \in RecLens : SetRecLen(Record(a[1], a[2]))
      BY <2>3
    <3>2. Record(a[1], a[2]) \in Records
      BY DEF Records
    <3>3. QED
      BY <3>1, <3>2, SetRecLenKeeps
  <2>4. CASE \E l \in Lens : SetDataArraySize(l)
    BY <2>4, SetDataArraySizeKeeps
  <2>5. CASE Allocate
    BY <2>5, AllocateKeeps
  <2>6. CASE ResetVars
    BY <2>6, ResetVarsKeeps
  <2>7. QED
    BY <1>2, <2>1, <2>2, <2>3, <2>4, <2>5, <2>6 DEF Setup
<1>3. CASE ready /\ Declare
  BY <1>3, DeclareDataAcqIdxKeeps DEF Declare
<1>4. CASE ready /\ declared /\ Pulse
  BY <1>4, PulseKeeps
<1>5. ASSUME UNCHANGED arrayVars
      PROVE  ArrayInv'
  <2>1. /\ UNCHANGED <<pyLens, lens, ids, record, numBoards, portMax, size, maxIdx,
                       stored>>
        /\ UNCHANGED <<joined, due, hps, active, wired, pointed, addr, dataLen, ready,
                       declared>>
    BY <1>5 DEF arrayVars, dimVars, countVars, memVars, hpsVars, ptrVars
  <2>2. TypeOK /\ Shapes /\ Members /\ Packed
    BY DEF ArrayInv
  <2>3. TypeOK'
    BY <2>1, <2>2 DEF TypeOK
  <2>4. Shapes' /\ Members'
    BY <2>1, <2>2 DEF Shapes, Members, Joined
  <2>5. Packed'
    BY <2>1, <2>2, StoredKept
  <2>6. Prepared => Prepared'
    BY <2>1 DEF Prepared, StoredIn, Mine
  <2>7. Aimed => Aimed'
    BY <2>1 DEF Aimed, Mine
  <2>8. QED
    BY <2>1, <2>3, <2>4, <2>5, <2>6, <2>7 DEF ArrayInv
<1>6. QED
  BY <1>1, <1>2, <1>3, <1>4, <1>5 DEF OrderlyNext

(* The invariant of the data array, for a script that keeps the order.     *)
THEOREM ArrayCorrect == OrderlySpec => []ArrayInv
<1>1. Init => ArrayInv
  BY ArrayInit
<1>2. ArrayInv /\ [OrderlyNext]_arrayVars => ArrayInv'
  BY ArrayStep
<1>3. QED
  BY <1>1, <1>2, PTL DEF OrderlySpec

(* The variables keep their types.                                         *)
THEOREM TypeCorrect == OrderlySpec => []TypeOK
<1>1. ArrayInv => TypeOK
  BY DEF ArrayInv
<1>2. QED
  BY <1>1, ArrayCorrect, PTL

(* Every segment lies inside what was allocated, also after the dimensions *)
(* or the record length have been set anew, which moves no pointer and     *)
(* allocates nothing (cServer.c:738, 896).                                 *)
THEOREM RecordsStayInArray == OrderlySpec => []RecordsInArray
<1>1. ASSUME ArrayInv
      PROVE  RecordsInArray
  <2> SUFFICES ASSUME NEW s \in stored
               PROVE  s.at + s.len <= size
    BY DEF RecordsInArray
  <2>1. PICK l : l \in Dims /\ \E r \in Records, n \in Nat :
                   StoredIn(l, r, n) /\ n * Events(l) * r.len <= size
    BY <1>1 DEF ArrayInv, Packed
  <2>2. PICK r \in Records, n \in Nat :
               StoredIn(l, r, n) /\ n * Events(l) * r.len <= size
    BY <2>1
  <2>3. /\ s.event \in EventSet(l) /\ s.board \in 0..(n - 1) /\ s.port \in 1..NP(r)
        /\ s.at = PlaceOf(l, r, n, s.event, s.board, s.port)
        /\ s.len = CLen(r, s.port)
    BY <2>2 DEF StoredIn
  <2>4. Shape(l) /\ l \in Nat \X Nat \X Nat
    BY <2>1 DEF Dims
  <2>5. /\ s.at \in Nat
        /\ s.at + s.len <= n * Events(l) * r.len
    BY <2>3, <2>4, PlaceIs
  <2>6. s.len \in Nat
    <3>1. CLen(r, s.port) \in 1..r.packet
      BY <2>3, SegmentIs
    <3>2. r.packet \in Nat
      BY RecordsAre
    <3>3. QED
      BY <2>3, <3>1, <3>2
  <2>7. PICK z \in Nat, y \in Nat : z = n * Events(l) * r.len /\ y = size
    BY <1>1, <2>4, CapacityIs DEF ArrayInv, TypeOK
  <2>8. QED
    BY <2>2, <2>5, <2>6, <2>7
<1>2. QED
  BY <1>1, ArrayCorrect, PTL

(* No segment overwrites one of another index, board or port, whatever the *)
(* order in which the indices are declared (cServer.c:366, 373).           *)
THEOREM RecordsStayApart == OrderlySpec => []RecordsApart
<1>1. ASSUME ArrayInv
      PROVE  RecordsApart
  <2> SUFFICES ASSUME NEW s \in stored, NEW t \in stored,
                      ~(s.event = t.event /\ s.board = t.board /\ s.port = t.port)
               PROVE  s.at + s.len <= t.at \/ t.at + t.len <= s.at
    BY DEF RecordsApart
  <2>1. PICK l : l \in Dims /\ \E r \in Records, n \in Nat : StoredIn(l, r, n)
    BY <1>1 DEF ArrayInv, Packed
  <2>2. PICK r \in Records, n \in Nat : StoredIn(l, r, n)
    BY <2>1
  <2>3. /\ s.event \in EventSet(l) /\ s.board \in 0..(n - 1) /\ s.port \in 1..NP(r)
        /\ s.at = PlaceOf(l, r, n, s.event, s.board, s.port)
        /\ s.len = CLen(r, s.port)
    BY <2>2 DEF StoredIn
  <2>4. /\ t.event \in EventSet(l) /\ t.board \in 0..(n - 1) /\ t.port \in 1..NP(r)
        /\ t.at = PlaceOf(l, r, n, t.event, t.board, t.port)
        /\ t.len = CLen(r, t.port)
    BY <2>2 DEF StoredIn
  <2>5. Shape(l)
    BY <2>1 DEF Dims
  <2>6. QED
    BY <2>3, <2>4, <2>5, PlacesApart
<1>2. QED
  BY <1>1, ArrayCorrect, PTL

(* In a ready array, saving and sharing find every segment at the place    *)
(* given by the number of events before its own, in the order of the       *)
(* script's indices, then by its board and port (cServer.c:738, 447).      *)
THEOREM ReadsFind == OrderlySpec => []ReadsFindRecords
<1>1. ASSUME ArrayInv
      PROVE  ReadsFindRecords
  <2> SUFFICES ASSUME ready
               PROVE  /\ Read <= size
                      /\ \A s \in stored :
                           s.at = (Place(s.event) * numBoards + s.board) * record.len
                                    + (s.port - 1) * record.packet
    BY DEF ReadsFindRecords
  <2>1. Prepared /\ TypeOK /\ Shape(lens)
    BY <1>1 DEF ArrayInv, Shapes
  <2>2. Read <= size
    <3>1. size = Read /\ size \in Nat
      BY <2>1 DEF Prepared, Read, TypeOK
    <3>2. QED
      BY <3>1
  <2>3. ASSUME NEW s \in stored
        PROVE  s.at = (Place(s.event) * numBoards + s.board) * record.len
                        + (s.port - 1) * record.packet
    <3>1. /\ s.event \in EventSet(lens)
          /\ s.at = PlaceOf(lens, record, numBoards, s.event, s.board, s.port)
      BY <2>1 DEF Prepared, StoredIn
    <3>2. Place(s.event) = PulseIdx(lens, s.event)
      BY <2>1, <3>1, RankIs DEF Place
    <3>3. QED
      BY <3>1, <3>2 DEF PlaceOf
  <2>4. QED
    BY <2>2, <2>3
<1>2. QED
  BY <1>1, ArrayCorrect, PTL

(* In a ready array the server takes every segment to have the length the  *)
(* board sends, though it works the last port out from the sockets it has  *)
(* (cServer.c:400).                                                        *)
THEOREM LengthsAreTheBoards == OrderlySpec => []LengthsFit
<1>1. ASSUME ArrayInv
      PROVE  LengthsFit
  <2> SUFFICES ASSUME ready,
                      NEW b \in 0..(numBoards - 1), NEW p \in 1..NP(record)
               PROVE  /\ <<b, p>> \in pointed
                      /\ dataLen[<<b, p>>] = CLen(hps[b], p)
                      /\ \/ Layout(hps[b])!ClientSource(p) = (p - 1) * record.packet
                         \/ p > 1 /\ dataLen[<<b, p>>] < record.packet
    BY DEF LengthsFit, NP, CLen
  <2>1. Prepared /\ record \in Records
    BY <1>1 DEF ArrayInv, TypeOK
  <2>2. <<b, p>> \in Mine /\ hps[b] = record
    BY <2>1 DEF Prepared, Mine
  <2>3. <<b, p>> \in pointed /\ dataLen[<<b, p>>] = CLen(record, p)
    BY <2>1, <2>2 DEF Prepared
  <2>4. \/ Layout(record)!ClientSource(p) = (p - 1) * record.packet
        \/ p > 1 /\ CLen(record, p) < record.packet
    BY <2>1, SegmentIs
  <2>5. QED
    BY <2>2, <2>3, <2>4
<1>2. QED
  BY <1>1, ArrayCorrect, PTL
=============================================================================
