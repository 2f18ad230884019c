-------------------------- MODULE BoardRegistryProofs --------------------------
(***************************************************************************)
(* What the server knows of its boards, for any number of boards, ports    *)
(* and descriptors: tables made when every connection was there and        *)
(* identified stay true while boards connect, are asked and answer.        *)
(***************************************************************************)
EXTENDS BoardRegistry, FiniteSetTheorems, SequenceTheorems, TLAPS

-----------------------------------------------------------------------------
(* The invariant *)

(* A descriptor is one connection's; a board holds one on each port.       *)
OwnFds == \A i, j \in DOMAIN socks : socks[i].fd = socks[j].fd => i = j
OneEach == \A i, j \in DOMAIN socks :
             /\ socks[i].alive /\ socks[j].alive
             /\ socks[i].from = socks[j].from /\ socks[i].port = socks[j].port
             => i = j

(* Who holds a connection runs, with a comm socket; who does not has no    *)
(* messages and nothing to connect.                                        *)
Present == /\ \A i \in DOMAIN socks : socks[i].alive => socks[i].from \in on
           /\ \A b \in on : Held(b, 0)
           /\ \A b \in Boards \ on : inbox[b] = <<>> /\ dialing[b] = {}
           /\ \A b \in Boards : \A p \in dialing[b] : ~Held(b, p)

(* Numbers come from answers, and answers on comm sockets.                 *)
Numbered == \A i \in DOMAIN socks : /\ socks[i].known => socks[i].num = socks[i].from
                                    /\ socks[i].answers > 0 => Comm(socks[i])

(* The connections boards have left behind are not too many for the        *)
(* descriptors there are.                                                  *)
LeftFds == {socks[i].fd : i \in {j \in DOMAIN socks : ~socks[j].alive}}
FewLeft == Cardinality(LeftFds) <= (DataPorts + 1) * leaves

(* In trusted tables the entries are the sockets of the boards that have   *)
(* answered; a board that has not has been asked nothing but its number,   *)
(* and nothing at all outside queryBoardInfo.                              *)
Entry(k) == \E i \in DOMAIN socks :
              /\ Comm(socks[i]) /\ socks[i].known
              /\ socks[i].from = k /\ socks[i].fd = commFd[k]
New(i) == LET b == socks[i].from
          IN  /\ dialing[b] = {}
              /\ \A n \in 1..Len(inbox[b]) : inbox[b][n] = "info"
              /\ ~asking => inbox[b] = <<>> /\ socks[i].answers = 0
Tables == /\ \A k \in Numbers : commFd[k] # NoFd => Entry(k)
          /\ \A i \in DOMAIN socks :
               /\ socks[i].alive
               /\ socks[i].known /\ Comm(socks[i])
                    => commFd[socks[i].from] = socks[i].fd
               /\ ~socks[i].known => Comm(socks[i]) /\ New(i)

(* What updateBoardGlobals has counted is what is in the table.            *)
InTable == {k \in Numbers : commFd[k] # NoFd}
Counted == /\ numBoards = Cardinality(InTable)
           /\ \A j, k \in InTable : boardIdx[j] = boardIdx[k] => j = k
           /\ \A k \in InTable : boardIdx[k] < numBoards

Connections == OwnFds /\ OneEach /\ Present /\ Numbered /\ FewLeft

RegistryInv == /\ TypeOK
               /\ Connections
               /\ trusted => Tables
               /\ trusted /\ ~asking => Counted

-----------------------------------------------------------------------------
(* Least and greatest numbers *)

Less == {ss \in Nat \X Nat : ss[1] < ss[2]}

LEMMA LeastNumber ==
  ASSUME NEW S \in SUBSET Nat, S # {}
  PROVE  Min(S) \in S /\ \A n \in S : Min(S) <= n
<1>1. IsWellFoundedOn(Less, Nat)
  BY NatLessThanWellFounded, Zenon DEF OpToRel, Less
<1>2. PICK m \in S : \A n \in S : <<n, m>> \notin Less
  BY <1>1, WFMin
<1>3. ASSUME NEW n \in S
      PROVE  m <= n
  <2>1. m \in Nat /\ n \in Nat /\ <<n, m>> \notin Less
    BY <1>2
  <2>2. ASSUME n < m
        PROVE  <<n, m>> \in Less
    BY <2>1, <2>2 DEF Less
  <2>3. QED
    BY <2>1, <2>2
<1>4. \E k \in S : \A n \in S : k <= n
  BY <1>3
<1>5. QED
  BY <1>4 DEF Min

LEMMA GreatestNumber ==
  ASSUME NEW S \in SUBSET Nat, S # {}, NEW b \in Nat, \A n \in S : n <= b
  PROVE  Max(S) \in S /\ \A n \in S : n <= Max(S)
<1> DEFINE T == {m \in Nat : \A n \in S : n <= m}
<1>1. T \in SUBSET Nat /\ b \in T
  OBVIOUS
<1>2. PICK m \in T : \A k \in T : m <= k
  BY <1>1, LeastNumber
<1>3. m \in Nat /\ \A n \in S : n <= m
  BY <1>2
<1>4. ASSUME m \notin S
      PROVE  FALSE
  <2>1. \A n \in S : n < m /\ n \in Nat
    BY <1>3, <1>4
  <2>2. PICK s \in S : TRUE
    OBVIOUS
  <2>3. m - 1 \in Nat /\ \A n \in S : n <= m - 1
    BY <1>3, <2>1, <2>2
  <2>4. m - 1 \in T
    BY <2>3
  <2>5. m <= m - 1
    BY <1>2, <2>4
  <2>6. QED
    BY <1>3, <2>5
<1>5. \E k \in S : \A n \in S : k >= n
  BY <1>3, <1>4
<1>6. QED
  BY <1>5 DEF Max

-----------------------------------------------------------------------------
(* The list of sockets *)

LEMMA ListIs ==
  ASSUME TypeOK
  PROVE  /\ Len(socks) \in Nat /\ DOMAIN socks = 1..Len(socks)
         /\ socks \in Seq(Sock)
         /\ \A i \in DOMAIN socks :
              /\ socks[i].fd \in Fds /\ socks[i].from \in Boards
              /\ socks[i].port \in 0..DataPorts /\ socks[i].num \in Int
              /\ socks[i].known \in BOOLEAN /\ socks[i].alive \in BOOLEAN
              /\ socks[i].answers \in 0..MaxInbox
<1>1. socks \in Seq(Sock)
  BY DEF TypeOK
<1>2. Len(socks) \in Nat /\ DOMAIN socks = 1..Len(socks)
  BY <1>1, LenProperties
<1>3. \A i \in DOMAIN socks : socks[i] \in Sock
  BY <1>1, <1>2, ElementOfSeq
<1>4. QED
  BY <1>1, <1>2, <1>3 DEF Sock

(* A connection is put at its head, ...                                    *)
LEMMA Added ==
  ASSUME TypeOK, NEW r \in Sock, socks' = <<r>> \o socks
  PROVE  /\ socks' \in Seq(Sock)
         /\ 1 \in DOMAIN socks' /\ socks'[1] = r
         /\ \A i \in DOMAIN socks : /\ i + 1 \in DOMAIN socks' /\ i + 1 # 1
                                    /\ socks'[i + 1] = socks[i]
         /\ \A j \in DOMAIN socks' :
              j # 1 => \E i \in DOMAIN socks : j = i + 1 /\ socks'[j] = socks[i]
<1>1. PICK s \in Seq(Sock) : s = socks
  BY ListIs
<1>2. PICK n \in Nat : n = Len(s)
  BY <1>1, LenProperties
<1>3. DOMAIN s = 1..n
  BY <1>2, LenProperties
<1>4. <<r>> \in Seq(Sock) /\ Len(<<r>>) = 1 /\ <<r>>[1] = r
  OBVIOUS
<1>5. PICK t \in Seq(Sock) : t = <<r>> \o s
  BY <1>4, ConcatProperties
<1>6. /\ Len(t) = 1 + n
      /\ \A i \in 1..(1 + n) : t[i] = IF i <= 1 THEN <<r>>[i] ELSE s[i - 1]
  BY <1>2, <1>4, <1>5, ConcatProperties
<1>7. DOMAIN t = 1..(n + 1)
  BY <1>6, LenProperties
<1>8. t[1] = r /\ 1 \in 1..(n + 1) /\ \A i \in 1..n : t[i + 1] = s[i] /\ i + 1 \in 1..(n + 1) /\ i + 1 # 1
  BY <1>4, <1>6
<1>9. ASSUME NEW j \in 1..(n + 1), j # 1
      PROVE  \E i \in 1..n : j = i + 1 /\ t[j] = s[i]
  <2>1. j - 1 \in 1..n /\ j = (j - 1) + 1
    BY <1>9
  <2>2. QED
    BY <1>8, <2>1
<1>10. socks' = t
  BY <1>1, <1>5
<1>11. /\ 1 \in DOMAIN t /\ t[1] = r
       /\ \A i \in DOMAIN s : i + 1 \in DOMAIN t /\ i + 1 # 1 /\ t[i + 1] = s[i]
       /\ \A j \in DOMAIN t :
            j # 1 => \E i \in DOMAIN s : j = i + 1 /\ t[j] = s[i]
  BY <1>3, <1>7, <1>8, <1>9, Zenon
<1>12. QED
  BY <1>1, <1>10, <1>11

(* ... or taken out, and the others close up.                              *)
ClosesUp(t, s, k) ==
  \E m \in [DOMAIN t -> DOMAIN s] :
    /\ \A j \in DOMAIN t : t[j] = s[m[j]]
    /\ \A i, j \in DOMAIN t : m[i] = m[j] => i = j
    /\ \A i \in DOMAIN s : i # k => \E j \in DOMAIN t : m[j] = i

LEMMA Removed ==
  ASSUME TypeOK, NEW k \in DOMAIN socks, socks' = RemoveAt(socks, k)
  PROVE  socks' \in Seq(Sock) /\ ClosesUp(socks', socks, k)
<1>1. PICK s \in Seq(Sock) : s = socks
  BY ListIs
<1>2. PICK n \in Nat : n = Len(s)
  BY <1>1, LenProperties
<1>3. DOMAIN s = 1..n /\ k \in 1..n
  BY <1>1, <1>2, LenProperties
<1>4. \A i \in 1..n : s[i] \in Sock
  BY <1>2, ElementOfSeq
<1>5. PICK a \in Seq(Sock) : /\ a = SubSeq(s, 1, k - 1) /\ Len(a) = k - 1
                             /\ \A i \in 1..(k - 1) : a[i] = s[i]
  <2>1. \A i \in 1..(k - 1) : s[i] \in Sock
    BY <1>3, <1>4
  <2>2. 1 \in Int /\ k - 1 \in Int
    BY <1>3
  <2>3. /\ SubSeq(s, 1, k - 1) \in Seq(Sock)
        /\ Len(SubSeq(s, 1, k - 1)) = IF 1 <= k - 1 THEN (k - 1) - 1 + 1 ELSE 0
        /\ \A i \in 1..((k - 1) - 1 + 1) : SubSeq(s, 1, k - 1)[i] = s[1 + i - 1]
    BY <2>1, <2>2, SubSeqProperties
  <2>4. (IF 1 <= k - 1 THEN (k - 1) - 1 + 1 ELSE 0) = k - 1 /\ (k - 1) - 1 + 1 = k - 1
    BY <1>3
  <2>5. \A i \in 1..(k - 1) : 1 + i - 1 = i
    BY <1>3
  <2>6. QED
    BY <2>3, <2>4, <2>5, Zenon
<1>6. PICK b \in Seq(Sock) : /\ b = SubSeq(s, k + 1, n) /\ Len(b) = n - k
                             /\ \A i \in 1..(n - k) : b[i] = s[k + i]
  <2>1. \A i \in (k + 1)..n : s[i] \in Sock
    BY <1>3, <1>4
  <2>2. k + 1 \in Int /\ n \in Int
    BY <1>3
  <2>3. PICK b : b = SubSeq(s, k + 1, n)
    OBVIOUS
  <2>4. /\ b \in Seq(Sock)
        /\ Len(b) = IF k + 1 <= n THEN n - (k + 1) + 1 ELSE 0
        /\ \A i \in 1..(n - (k + 1) + 1) : b[i] = s[(k + 1) + i - 1]
    <3>1. /\ SubSeq(s, k + 1, n) \in Seq(Sock)
          /\ Len(SubSeq(s, k + 1, n)) = IF k + 1 <= n THEN n - (k + 1) + 1 ELSE 0
          /\ \A i \in 1..(n - (k + 1) + 1) :
               SubSeq(s, k + 1, n)[i] = s[(k + 1) + i - 1]
      BY <2>1, <2>2, SubSeqProperties
    <3>2. QED
      BY <2>3, <3>1, Zenon
  <2>5. Len(b) = n - k
    BY <1>3, <2>4
  <2>6. \A i \in 1..(n - k) : b[i] = s[k + i]
    <3>1. \A i \in 1..(n - k) : i \in 1..(n - (k + 1) + 1) /\ (k + 1) + i - 1 = k + i
      BY <1>3
    <3>2. QED
      BY <2>4, <3>1
  <2>7. QED
    BY <2>3, <2>4, <2>5, <2>6
<1>7. PICK t : t = a \o b
  OBVIOUS
<1>a. /\ t \in Seq(Sock) /\ Len(t) = Len(a) + Len(b)
      /\ \A i \in 1..(Len(a) + Len(b)) :
           t[i] = IF i <= Len(a) THEN a[i] ELSE b[i - Len(a)]
  BY <1>7, ConcatProperties, Zenon
<1>8. /\ Len(t) = n - 1
      /\ \A i \in 1..(n - 1) : t[i] = IF i <= k - 1 THEN a[i] ELSE b[i - (k - 1)]
  <2>1. Len(a) + Len(b) = n - 1
    BY <1>3, <1>5, <1>6
  <2>2. QED
    BY <1>5, <1>a, <2>1, Zenon
<1>9. DOMAIN t = 1..(n - 1)
  BY <1>a, <1>8, LenProperties
<1> DEFINE m == [j \in 1..(n - 1) |-> IF j <= k - 1 THEN j ELSE j + 1]
<1>10. m \in [1..(n - 1) -> 1..n]
  BY <1>3
<1>11. \A j \in 1..(n - 1) : t[j] = s[m[j]]
  <2> SUFFICES ASSUME NEW j \in 1..(n - 1)
               PROVE  t[j] = s[m[j]]
    OBVIOUS
  <2>1. CASE j <= k - 1
    BY <1>3, <1>5, <1>8, <2>1
  <2>2. CASE ~(j <= k - 1)
    <3>1. j - (k - 1) \in 1..(n - k) /\ k + (j - (k - 1)) = j + 1
      BY <1>3, <2>2
    <3>2. QED
      BY <1>3, <1>6, <1>8, <2>2, <3>1
  <2>3. QED
    BY <2>1, <2>2
<1>12. \A i, j \in 1..(n - 1) : m[i] = m[j] => i = j
  BY <1>3
<1>13. ASSUME NEW i \in 1..n, i # k
       PROVE  \E j \in 1..(n - 1) : m[j] = i
  <2>1. CASE i < k
    <3>1. i \in 1..(n - 1) /\ i <= k - 1
      BY <1>3, <2>1
    <3>2. m[i] = i
      BY <3>1
    <3>3. QED
      BY <3>1, <3>2
  <2>2. CASE i > k
    <3>1. i - 1 \in 1..(n - 1) /\ ~(i - 1 <= k - 1) /\ (i - 1) + 1 = i
      BY <1>3, <2>2
    <3>2. m[i - 1] = i
      BY <3>1
    <3>3. QED
      BY <3>1, <3>2
  <2>3. QED
    BY <1>3, <1>13, <2>1, <2>2
<1>14. socks' = t
  BY <1>1, <1>2, <1>5, <1>6, <1>7 DEF RemoveAt
<1> HIDE DEF m
<1>15. /\ m \in [DOMAIN t -> DOMAIN s]
       /\ \A j \in DOMAIN t : t[j] = s[m[j]]
       /\ \A i, j \in DOMAIN t : m[i] = m[j] => i = j
       /\ \A i \in DOMAIN s : i # k => \E j \in DOMAIN t : m[j] = i
  BY <1>3, <1>9, <1>10, <1>11, <1>12, <1>13, Zenon
<1>16. ClosesUp(t, s, k)
  BY <1>15 DEF ClosesUp
<1>17. QED
  BY <1>1, <1>a, <1>14, <1>16

-----------------------------------------------------------------------------
(* There is a descriptor for the next connection *)

HeldFds == {socks[i].fd : i \in {j \in DOMAIN socks : socks[j].alive}}
BoardFds(b) == {socks[i].fd : i \in {j \in DOMAIN socks :
                                       socks[j].alive /\ socks[j].from = b}}

LEMMA ConstantsAre ==
  /\ DataPorts \in Nat /\ MaxLeaves \in Nat /\ MaxInbox \in Nat
  /\ MaxFpgas \in Nat /\ DataPorts + 1 \in Nat
  /\ IsFiniteSet(Boards) /\ Cardinality(Boards) \in Nat
  /\ Boards \subseteq Numbers /\ Boards \subseteq Nat \ {0}
  /\ Garbage \subseteq Int /\ Numbers \subseteq Nat /\ Numbers \subseteq Int
  /\ Fds \subseteq Nat \ {0} /\ NoFd \notin Fds
  /\ IsFiniteSet(Fds)
  /\ Cardinality(Fds) = (DataPorts + 1) * (Cardinality(Boards) + MaxLeaves)
<1>1. /\ DataPorts \in Nat /\ MaxLeaves \in Nat /\ MaxInbox \in Nat
      /\ MaxFpgas \in Nat /\ Boards \subseteq 1..MaxFpgas
      /\ Garbage \subseteq Int
  BY RegistryAssumption
<1>2. IsFiniteSet(Boards) /\ Cardinality(Boards) \in Nat
  <2>1. IsFiniteSet(1..MaxFpgas)
    BY <1>1, FS_Interval
  <2>2. QED
    BY <1>1, <2>1, FS_Subset, FS_CardinalityType
<1>3. PICK n \in Nat : n = (DataPorts + 1) * (Cardinality(Boards) + MaxLeaves)
  BY <1>1, <1>2
<1>4. Fds = 1..n
  BY <1>3 DEF Fds
<1>5. IsFiniteSet(1..n) /\ Cardinality(1..n) = n
  BY FS_Interval
<1>6. QED
  BY <1>1, <1>2, <1>3, <1>4, <1>5 DEF Numbers, NoFd

LEMMA PortsAre ==
  IsFiniteSet(0..DataPorts) /\ Cardinality(0..DataPorts) = DataPorts + 1
<1>1. PICK d \in Nat : d = DataPorts
  BY ConstantsAre
<1>2. /\ IsFiniteSet(0..d)
      /\ Cardinality(0..d) = IF 0 > d THEN 0 ELSE d - 0 + 1
  BY FS_Interval
<1>3. Cardinality(0..d) = d + 1
  BY <1>2
<1>4. QED
  BY <1>1, <1>2, <1>3

LEMMA Product ==
  ASSUME NEW a \in Nat, NEW b \in Nat, NEW c \in Nat, b <= c
  PROVE  a * b \in Nat /\ a * c \in Nat /\ a * b <= a * c
<1>1. PICK d \in Nat : c = b + d
  <2>1. c - b \in Nat /\ c = b + (c - b)
    OBVIOUS
  <2>2. QED
    BY <2>1
<1>2. a * b \in Nat /\ a * d \in Nat /\ a * (b + d) = a * b + a * d
  OBVIOUS
<1>3. QED
  BY <1>1, <1>2

(* A board has one on each of its ports.                                   *)
LEMMA FewOfOneBoard ==
  ASSUME TypeOK, OneEach, NEW b \in Boards
  PROVE  IsFiniteSet(BoardFds(b)) /\ Cardinality(BoardFds(b)) <= DataPorts + 1
<1> DEFINE R(x, p) == \E i \in DOMAIN socks :
                        /\ socks[i].alive /\ socks[i].from = b
                        /\ socks[i].fd = x /\ socks[i].port = p
           f == [x \in BoardFds(b) |-> CHOOSE p \in 0..DataPorts : R(x, p)]
<1>1. \A x \in BoardFds(b) : \E p \in 0..DataPorts : R(x, p)
  BY ListIs DEF BoardFds
<1>2. \A x \in BoardFds(b) : f[x] \in 0..DataPorts /\ R(x, f[x])
  <2>1. \A x \in BoardFds(b) : f[x] = CHOOSE p \in 0..DataPorts : R(x, p)
    OBVIOUS
  <2> HIDE DEF R, f
  <2>2. QED
    BY <1>1, <2>1
<1>3. f \in [BoardFds(b) -> 0..DataPorts]
  <2>1. f = [x \in BoardFds(b) |-> f[x]]
    OBVIOUS
  <2> HIDE DEF f
  <2>2. QED
    BY <1>2, <2>1
<1> HIDE DEF f
<1>4. \A x, y \in BoardFds(b) : f[x] = f[y] => x = y
  BY <1>2 DEF OneEach
<1>5. f \in Injection(BoardFds(b), 0..DataPorts)
  BY <1>3, <1>4 DEF Injection, IsInjective
<1>6. IsFiniteSet(0..DataPorts) /\ Cardinality(0..DataPorts) = DataPorts + 1
  BY PortsAre
<1>7. QED
  BY <1>5, <1>6, FS_Injection

LEMMA FreeFd ==
  ASSUME TypeOK, Connections, NEW b \in Boards, NEW p \in 0..DataPorts,
         ~Held(b, p)
  PROVE  NewFd \in Fds /\ \A i \in DOMAIN socks : socks[i].fd # NewFd
<1> DEFINE Slots == Boards \X (0..DataPorts)
           S == Slots \ {<<b, p>>}
           R(x, s) == \E i \in DOMAIN socks :
                        /\ socks[i].alive /\ socks[i].fd = x
                        /\ s = <<socks[i].from, socks[i].port>>
           f == [x \in HeldFds |-> CHOOSE s \in S : R(x, s)]
<1>1. \A x \in HeldFds : \E s \in S : R(x, s)
  BY ListIs DEF HeldFds, Held
<1>2. \A x \in HeldFds : f[x] \in S /\ R(x, f[x])
  <2>1. \A x \in HeldFds : f[x] = CHOOSE s \in S : R(x, s)
    OBVIOUS
  <2> HIDE DEF R, f, S
  <2>2. QED
    BY <1>1, <2>1
<1>3. f \in [HeldFds -> S]
  <2> HIDE DEF R, S
  <2>1. f = [x \in HeldFds |-> f[x]]
    OBVIOUS
  <2> HIDE DEF f
  <2>2. QED
    BY <1>2, <2>1
<1>4. \A x, y \in HeldFds : f[x] = f[y] => x = y
  <2> HIDE DEF f, S
  <2>1. QED
    BY <1>2 DEF Connections, OneEach
<1>5. f \in Injection(HeldFds, S)
  <2> HIDE DEF f, S
  <2>1. QED
    BY <1>3, <1>4 DEF Injection, IsInjective
<1>6. /\ IsFiniteSet(S)
      /\ Cardinality(S) = Cardinality(Boards) * (DataPorts + 1) - 1
  <2>1. IsFiniteSet(0..DataPorts) /\ Cardinality(0..DataPorts) = DataPorts + 1
    BY PortsAre
  <2>2. /\ IsFiniteSet(Slots)
        /\ Cardinality(Slots) = Cardinality(Boards) * (DataPorts + 1)
    BY <2>1, ConstantsAre, FS_Product
  <2>3. <<b, p>> \in Slots
    OBVIOUS
  <2> HIDE DEF Slots
  <2>4. QED
    BY <2>2, <2>3, FS_RemoveElement
<1> HIDE DEF f, S
<1>7. /\ IsFiniteSet(HeldFds) /\ Cardinality(HeldFds) \in Nat
      /\ Cardinality(HeldFds) <= Cardinality(Boards) * (DataPorts + 1) - 1
  BY <1>5, <1>6, FS_Injection, FS_CardinalityType
<1>8. /\ IsFiniteSet(LeftFds) /\ Cardinality(LeftFds) \in Nat
      /\ Cardinality(LeftFds) <= (DataPorts + 1) * leaves
  <2>1. LeftFds \subseteq Fds
    BY ListIs DEF LeftFds
  <2>2. QED
    BY <2>1, ConstantsAre, FS_Subset, FS_CardinalityType DEF Connections, FewLeft
<1>9. /\ IsFiniteSet(LeftFds \cup HeldFds)
      /\ Cardinality(LeftFds \cup HeldFds)
           <= Cardinality(LeftFds) + Cardinality(HeldFds)
  <2>1. /\ IsFiniteSet(LeftFds \cup HeldFds)
        /\ Cardinality(LeftFds \cup HeldFds) = Cardinality(LeftFds)
             + Cardinality(HeldFds) - Cardinality(LeftFds \cap HeldFds)
    BY <1>7, <1>8, FS_Union
  <2>2. Cardinality(LeftFds \cap HeldFds) \in Nat
    BY <1>7, FS_Intersection, FS_CardinalityType
  <2>3. QED
    BY <1>7, <1>8, <2>1, <2>2
<1>10. Cardinality(LeftFds \cup HeldFds) < Cardinality(Fds)
  <2>1. PICK d \in Nat, n \in Nat, m \in Nat, l \in Nat :
          /\ d = DataPorts + 1 /\ n = Cardinality(Boards)
          /\ m = MaxLeaves /\ l = leaves /\ l <= m
    <3>1. leaves \in Nat /\ leaves <= MaxLeaves
      BY ConstantsAre DEF TypeOK
    <3>2. QED
      BY <3>1, ConstantsAre
  <2>2. d * l <= d * m /\ d * l \in Nat /\ d * m \in Nat
    BY <2>1, Product
  <2>3. n * d = d * n /\ n * d \in Nat /\ d * (n + m) = d * n + d * m
    OBVIOUS
  <2>4. Cardinality(LeftFds \cup HeldFds) <= d * l + (n * d - 1)
    <3>1. Cardinality(LeftFds \cup HeldFds) \in Nat
      BY <1>9, FS_CardinalityType
    <3>2. QED
      BY <1>7, <1>8, <1>9, <2>1, <2>2, <2>3, <3>1
  <2>5. Cardinality(Fds) = d * n + d * m
    BY <2>1, <2>3, ConstantsAre
  <2>6. Cardinality(LeftFds \cup HeldFds) \in Nat
    BY <1>9, FS_CardinalityType
  <2>7. QED
    BY <2>2, <2>3, <2>4, <2>5, <2>6
<1>11. PICK x \in Fds : x \notin LeftFds \cup HeldFds
  <2>1. Fds # LeftFds \cup HeldFds /\ LeftFds \cup HeldFds \subseteq Fds
    <3>1. Cardinality(Fds) # Cardinality(LeftFds \cup HeldFds)
      <4>1. Cardinality(LeftFds \cup HeldFds) \in Nat
        BY <1>9, FS_CardinalityType
      <4>2. QED
        BY <1>10, <4>1
    <3>2. QED
      BY <3>1, ListIs DEF LeftFds, HeldFds
  <2>2. QED
    BY <2>1
<1>12. \A i \in DOMAIN socks : socks[i].fd \in LeftFds \cup HeldFds
  BY DEF LeftFds, HeldFds
<1> DEFINE T == {y \in Fds : \A i \in DOMAIN socks : socks[i].fd # y}
<1>13. x \in T
  BY <1>11, <1>12
<1>14. T \in SUBSET Nat /\ T # {}
  BY <1>13, ConstantsAre
<1>15. Min(T) \in T
  <2> HIDE DEF T
  <2>1. QED
    BY <1>14, LeastNumber
<1>16. NewFd = Min(T)
  BY DEF NewFd
<1>17. QED
  BY <1>15, <1>16

-----------------------------------------------------------------------------
(* What happens to the list of sockets *)

(* What a connection is to the kernel stays, and nobody comes back to life. *)
KeepsEnds == /\ DOMAIN socks' = DOMAIN socks
             /\ \A i \in DOMAIN socks :
                  /\ socks'[i].fd = socks[i].fd /\ socks'[i].from = socks[i].from
                  /\ socks'[i].port = socks[i].port
                  /\ socks'[i].alive => socks[i].alive

LEMMA EndsKept ==
  ASSUME OwnFds, OneEach, KeepsEnds
  PROVE  OwnFds' /\ OneEach'
<1>1. OwnFds'
  BY DEF OwnFds, KeepsEnds
<1>2. OneEach'
  BY DEF OneEach, KeepsEnds
<1>3. QED
  BY <1>1, <1>2

LEMMA AnsweredOnce ==
  ASSUME NEW r \in Sock, r.answers < MaxInbox,
         NEW a, a = [r EXCEPT !.answers = @ + 1]
  PROVE  /\ a \in Sock /\ a.answers = r.answers + 1
         /\ a.fd = r.fd /\ a.from = r.from /\ a.port = r.port
         /\ a.num = r.num /\ a.known = r.known /\ a.alive = r.alive
<1>1. r.answers + 1 \in 0..MaxInbox
  BY ConstantsAre DEF Sock
<1>2. QED
  BY <1>1 DEF Sock

LEMMA AnswerIs ==
  ASSUME TypeOK, NEW b \in Boards, Answer(b)
  PROVE  /\ socks' \in Seq(Sock) /\ KeepsEnds
         /\ \A i \in DOMAIN socks :
              /\ socks'[i].alive = socks[i].alive
              /\ socks'[i].known = socks[i].known
              /\ socks'[i].num = socks[i].num
              /\ ~(socks[i].from = b /\ Comm(socks[i]) /\ socks[i].alive)
                   => socks'[i].answers = socks[i].answers
<1> DEFINE C(i) == socks[i].from = b /\ Comm(socks[i]) /\ socks[i].alive
           A(i) == [socks[i] EXCEPT !.answers = @ + 1]
<1>1. socks' = [i \in DOMAIN socks |-> IF C(i) THEN A(i) ELSE socks[i]]
  BY DEF Answer
<1>2. \A i \in DOMAIN socks :
        C(i) => /\ A(i) \in Sock
                /\ A(i).fd = socks[i].fd /\ A(i).from = socks[i].from
                /\ A(i).port = socks[i].port /\ A(i).num = socks[i].num
                /\ A(i).known = socks[i].known /\ A(i).alive = socks[i].alive
  <2> SUFFICES ASSUME NEW i \in DOMAIN socks, C(i)
               PROVE  /\ A(i) \in Sock
                      /\ A(i).fd = socks[i].fd /\ A(i).from = socks[i].from
                      /\ A(i).port = socks[i].port /\ A(i).num = socks[i].num
                      /\ A(i).known = socks[i].known /\ A(i).alive = socks[i].alive
    OBVIOUS
  <2>1. PICK r \in Sock : r = socks[i]
    BY ListIs, ElementOfSeq
  <2>2. r.answers < MaxInbox
    BY <2>1 DEF Answer
  <2>3. PICK a : a = [r EXCEPT !.answers = @ + 1]
    OBVIOUS
  <2>4. /\ a \in Sock /\ a.fd = r.fd /\ a.from = r.from /\ a.port = r.port
        /\ a.num = r.num /\ a.known = r.known /\ a.alive = r.alive
    BY <2>2, <2>3, AnsweredOnce
  <2>5. A(i) = a
    BY <2>1, <2>3
  <2> HIDE DEF A
  <2>6. QED
    BY <2>1, <2>4, <2>5
<1> HIDE DEF A, C
<1>3. /\ DOMAIN socks' = DOMAIN socks
      /\ \A i \in DOMAIN socks :
           /\ C(i) => socks'[i] = A(i)
           /\ ~C(i) => socks'[i] = socks[i]
  BY <1>1
<1>4. socks' \in Seq(Sock)
  <2>1. PICK n \in Nat : DOMAIN socks = 1..n
    BY ListIs
  <2>2. \A i \in 1..n : (IF C(i) THEN A(i) ELSE socks[i]) \in Sock
    BY <1>2, <2>1, ListIs, ElementOfSeq
  <2>3. socks' \in [1..n -> Sock]
    BY <1>1, <2>1, <2>2
  <2>4. QED
    BY <2>3
<1>5. KeepsEnds
  BY <1>2, <1>3 DEF KeepsEnds
<1>6. QED
  BY <1>2, <1>3, <1>4, <1>5 DEF C

LEMMA LeaveIs ==
  ASSUME TypeOK, NEW b \in Boards, Leave(b)
  PROVE  /\ socks' \in Seq(Sock) /\ KeepsEnds
         /\ \A i \in DOMAIN socks :
              /\ socks'[i].known = socks[i].known
              /\ socks'[i].num = socks[i].num
              /\ socks'[i].answers = socks[i].answers
              /\ socks'[i].alive = (socks[i].alive /\ socks[i].from # b)
<1> DEFINE L(i) == [socks[i] EXCEPT !.alive = FALSE]
<1>1. socks' = [i \in DOMAIN socks |->
                  IF socks[i].from = b THEN L(i) ELSE socks[i]]
  BY DEF Leave
<1>2. \A i \in DOMAIN socks : socks[i] \in Sock
  BY ListIs, ElementOfSeq
<1>3. \A i \in DOMAIN socks :
        /\ L(i) \in Sock /\ L(i).alive = FALSE
        /\ L(i).fd = socks[i].fd /\ L(i).from = socks[i].from
        /\ L(i).port = socks[i].port /\ L(i).num = socks[i].num
        /\ L(i).known = socks[i].known /\ L(i).answers = socks[i].answers
  BY <1>2 DEF Sock
<1> HIDE DEF L
<1>4. /\ DOMAIN socks' = DOMAIN socks
      /\ \A i \in DOMAIN socks :
           /\ socks[i].from = b => socks'[i] = L(i)
           /\ socks[i].from # b => socks'[i] = socks[i]
  BY <1>1
<1>5. socks' \in Seq(Sock)
  <2>1. PICK n \in Nat : DOMAIN socks = 1..n
    BY ListIs
  <2>2. \A i \in 1..n : (IF socks[i].from = b THEN L(i) ELSE socks[i]) \in Sock
    BY <1>2, <1>3, <2>1
  <2>3. socks' \in [1..n -> Sock]
    BY <1>1, <2>1, <2>2
  <2>4. QED
    BY <2>3
<1>6. KeepsEnds
  BY <1>3, <1>4 DEF KeepsEnds
<1>7. \A i \in DOMAIN socks : socks[i].alive \in BOOLEAN
  BY ListIs
<1>8. QED
  BY <1>3, <1>4, <1>5, <1>6, <1>7

LEMMA IdentifyIs ==
  ASSUME TypeOK, NEW k \in DOMAIN socks, Identify(k)
  PROVE  /\ socks' \in Seq(Sock) /\ KeepsEnds
         /\ \A i \in DOMAIN socks : /\ socks'[i].alive = socks[i].alive
                                    /\ i # k => socks'[i] = socks[i]
         /\ socks'[k].known /\ socks'[k].num = socks[k].from
<1>1. PICK s \in Seq(Sock), r \in Sock : s = socks /\ r = s[k]
  BY ListIs, ElementOfSeq
<1>2. PICK a : a = [r EXCEPT !.answers = @ - 1, !.num = r.from, !.known = TRUE]
  OBVIOUS
<1>3. /\ a \in Sock /\ a.fd = r.fd /\ a.from = r.from /\ a.port = r.port
      /\ a.num = r.from /\ a.known = TRUE /\ a.alive = r.alive
  <2>1. r.answers - 1 \in 0..MaxInbox /\ r.from \in Int
    <3>1. r.answers > 0 /\ r.answers \in 0..MaxInbox /\ r.from \in Boards
      BY <1>1 DEF Identify, Sock
    <3>2. MaxInbox \in Nat /\ Boards \subseteq Int
      BY ConstantsAre
    <3>3. PICK x \in 0..MaxInbox : x = r.answers
      BY <3>1
    <3>4. x - 1 \in 0..MaxInbox
      BY <3>1, <3>2, <3>3
    <3>5. QED
      BY <3>1, <3>2, <3>3, <3>4
  <2>2. QED
    BY <1>2, <2>1 DEF Sock
<1>4. socks' = [s EXCEPT ![k] = a]
  BY <1>1, <1>2 DEF Identify
<1>5. k \in 1..Len(s) /\ DOMAIN s = 1..Len(s)
  BY <1>1, LenProperties
<1>6. [s EXCEPT ![k] = a] \in Seq(Sock)
  BY <1>3, <1>5, ExceptSeq
<1>7. /\ DOMAIN socks' = DOMAIN s /\ socks'[k] = a
      /\ \A i \in DOMAIN s : i # k => socks'[i] = s[i]
  BY <1>4, <1>5
<1>8. KeepsEnds
  BY <1>1, <1>3, <1>7 DEF KeepsEnds
<1>9. QED
  BY <1>1, <1>3, <1>4, <1>6, <1>7, <1>8

(* A connection is accepted.                                               *)
Accepts(r) == /\ r.fd = NewFd /\ r.alive /\ r.answers = 0
              /\ r.known => r.num = r.from
              /\ socks' = <<r>> \o socks

LEMMA JoinIs ==
  ASSUME TypeOK, Connections, NEW b \in Boards, Join(b)
  PROVE  \E r \in Sock : Accepts(r) /\ r.from = b /\ r.port = 0 /\ ~r.known
<1>1. b \notin on /\ ~Held(b, 0)
  BY DEF Join, Connections, Present, Held
<1>2. PICK g \in Garbage : Accept(b, 0, g, FALSE)
  BY DEF Join
<1>3. 0 \in 0..DataPorts /\ 0 \in 0..MaxInbox /\ g \in Int
  BY ConstantsAre
<1>4. PICK f \in Fds : f = NewFd
  BY <1>1, <1>3, FreeFd
<1>5. PICK r : r = [fd |-> f, from |-> b, port |-> 0, num |-> g,
                    known |-> FALSE, alive |-> TRUE, answers |-> 0]
  OBVIOUS
<1>6. r \in Sock
  BY <1>3, <1>5 DEF Sock
<1>7. socks' = <<r>> \o socks
  BY <1>2, <1>4, <1>5 DEF Accept
<1>8. QED
  BY <1>4, <1>5, <1>6, <1>7 DEF Accepts

LEMMA DialIs ==
  ASSUME TypeOK, Connections, NEW b \in Boards, Dial(b)
  PROVE  \E p \in dialing[b], r \in Sock, c \in DOMAIN socks :
           /\ Accepts(r) /\ r.from = b /\ r.port = p /\ p \in 1..DataPorts
           /\ Comm(socks[c]) /\ socks[c].from = b /\ r.known = socks[c].known
           /\ dialing' = [dialing EXCEPT ![b] = @ \ {p}]
<1> DEFINE same == {i \in DOMAIN socks : Comm(socks[i]) /\ socks[i].from = b}
<1>1. dialing[b] # {} /\ dialing[b] \subseteq 1..DataPorts
  BY DEF Dial, TypeOK
<1>2. Held(b, 0)
  BY <1>1 DEF Connections, Present
<1>3. same \in SUBSET Nat /\ same # {}
  BY <1>2, ListIs DEF Held, Comm
<1>4. PICK c \in same : c = Min(same)
  <2> HIDE DEF same
  <2>1. QED
    BY <1>3, LeastNumber
<1>5. PICK p \in dialing[b] : p = Min(dialing[b])
  <2>1. dialing[b] \in SUBSET Nat
    BY <1>1
  <2>2. QED
    BY <1>1, <2>1, LeastNumber
<1>6. /\ dialing' = [dialing EXCEPT ![b] = @ \ {p}]
      /\ Accept(b, p, socks[c].num, socks[c].known)
  BY <1>4, <1>5 DEF Dial
<1>7. ~Held(b, p) /\ p \in 0..DataPorts /\ 0 \in 0..MaxInbox
  BY <1>1, ConstantsAre DEF Connections, Present
<1>8. PICK f \in Fds : f = NewFd
  BY <1>7, FreeFd
<1>9. PICK n \in Int, kn \in BOOLEAN : n = socks[c].num /\ kn = socks[c].known
  BY ListIs
<1>10. PICK r : r = [fd |-> f, from |-> b, port |-> p, num |-> n,
                     known |-> kn, alive |-> TRUE, answers |-> 0]
  OBVIOUS
<1>11. r \in Sock
  BY <1>7, <1>10 DEF Sock
<1>12. socks' = <<r>> \o socks
  BY <1>6, <1>8, <1>9, <1>10 DEF Accept
<1>13. r.known => r.num = r.from
  BY <1>9, <1>10 DEF Connections, Numbered
<1>14. Accepts(r) /\ r.from = b /\ r.port = p /\ r.known = socks[c].known
  BY <1>8, <1>9, <1>10, <1>12, <1>13 DEF Accepts
<1>15. QED
  BY <1>1, <1>6, <1>11, <1>14

LEMMA AcceptingKeeps ==
  ASSUME TypeOK, Connections, NEW b \in Boards, NEW p \in 0..DataPorts,
         ~Held(b, p), NEW r \in Sock, Accepts(r), r.from = b, r.port = p,
         leaves' = leaves
  PROVE  /\ socks' \in Seq(Sock)
         /\ OwnFds' /\ OneEach' /\ Numbered' /\ FewLeft'
         /\ \A c, q : Held(c, q)' <=> Held(c, q) \/ (c = b /\ q = p)
<1>1. /\ socks' \in Seq(Sock)
      /\ 1 \in DOMAIN socks' /\ socks'[1] = r
      /\ \A i \in DOMAIN socks : /\ i + 1 \in DOMAIN socks' /\ i + 1 # 1
                                 /\ socks'[i + 1] = socks[i]
      /\ \A j \in DOMAIN socks' :
           j # 1 => \E i \in DOMAIN socks : j = i + 1 /\ socks'[j] = socks[i]
  BY Added DEF Accepts
<1>2. /\ \A i \in DOMAIN socks : socks[i].fd # r.fd
      /\ r.alive /\ r.answers = 0 /\ (r.known => r.num = r.from)
  BY FreeFd DEF Accepts
<1>3. OwnFds'
  <2> SUFFICES ASSUME NEW j \in DOMAIN socks', NEW k \in DOMAIN socks',
                      socks'[j].fd = socks'[k].fd
               PROVE  j = k
    BY DEF OwnFds
  <2>1. CASE j = 1 \/ k = 1
    BY <1>1, <1>2, <2>1
  <2>2. CASE j # 1 /\ k # 1
    BY <1>1, <2>2 DEF Connections, OwnFds
  <2>3. QED
    BY <2>1, <2>2
<1>4. \A i \in DOMAIN socks :
        ~(socks[i].alive /\ socks[i].from = b /\ socks[i].port = p)
  BY DEF Held
<1>5. OneEach'
  <2> SUFFICES ASSUME NEW j \in DOMAIN socks', NEW k \in DOMAIN socks',
                      socks'[j].alive, socks'[k].alive,
                      socks'[j].from = socks'[k].from,
                      socks'[j].port = socks'[k].port
               PROVE  j = k
    BY DEF OneEach
  <2>1. CASE j = 1 \/ k = 1
    BY <1>1, <1>4, <2>1
  <2>2. CASE j # 1 /\ k # 1
    BY <1>1, <2>2 DEF Connections, OneEach
  <2>3. QED
    BY <2>1, <2>2
<1>6. Numbered'
  <2> SUFFICES ASSUME NEW j \in DOMAIN socks'
               PROVE  /\ socks'[j].known => socks'[j].num = socks'[j].from
                      /\ socks'[j].answers > 0 => Comm(socks'[j])
    BY DEF Numbered, Comm
  <2>1. CASE j = 1
    BY <1>1, <1>2, <2>1
  <2>2. CASE j # 1
    BY <1>1, <2>2 DEF Connections, Numbered
  <2>3. QED
    BY <2>1, <2>2
<1>7. FewLeft'
  <2>1. LeftFds' = LeftFds
    BY <1>1, <1>2 DEF LeftFds
  <2>2. QED
    BY <2>1 DEF Connections, FewLeft
<1>8. ASSUME NEW c, NEW q
      PROVE  Held(c, q)' <=> Held(c, q) \/ (c = b /\ q = p)
  BY <1>1, <1>2 DEF Held
<1>9. QED
  BY <1>1, <1>3, <1>5, <1>6, <1>7, <1>8

-----------------------------------------------------------------------------
(* Messages *)

Messages == {"info", "setup", "illegal"}

LEMMA ReachesIs ==
  ASSUME NEW b \in Boards, NEW F, NEW m
  PROVE  Reaches(b, F, m) = <<>> \/ Reaches(b, F, m) = <<m>>
           \/ Reaches(b, F, m) = <<"illegal">>
BY DEF Reaches

LEMMA ReachesNobody ==
  ASSUME NEW b \in Boards, NEW F, NEW m,
         \A i \in DOMAIN socks :
           ~(socks[i].alive /\ socks[i].from = b /\ socks[i].fd \in F)
  PROVE  Reaches(b, F, m) = <<>>
BY DEF Reaches

LEMMA DeliverIs ==
  ASSUME TypeOK, NEW F, NEW m \in Messages, Deliver(F, m)
  PROVE  /\ inbox' \in [Boards -> Seq(Messages)]
         /\ \A b \in Boards : /\ inbox'[b] = inbox[b] \o Reaches(b, F, m)
                              /\ Reaches(b, F, m) \in Seq(Messages)
<1>1. inbox' = [b \in Boards |-> inbox[b] \o Reaches(b, F, m)]
  BY DEF Deliver
<1>2. inbox \in [Boards -> Seq(Messages)]
  BY DEF TypeOK, Messages
<1>3. \A b \in Boards : Reaches(b, F, m) \in Seq(Messages)
  <2>1. "illegal" \in Messages
    BY DEF Messages
  <2>2. <<>> \in Seq(Messages) /\ <<m>> \in Seq(Messages)
        /\ <<"illegal">> \in Seq(Messages)
    BY <2>1
  <2>3. QED
    BY <2>2, ReachesIs
<1>4. \A b \in Boards : inbox[b] \o Reaches(b, F, m) \in Seq(Messages)
  BY <1>2, <1>3, ConcatProperties
<1>5. QED
  BY <1>1, <1>3, <1>4

-----------------------------------------------------------------------------
(* The connections, action by action *)

LEMMA FirstTaken ==
  ASSUME NEW S, NEW q \in Seq(S), q # <<>>
  PROVE  /\ Tail(q) \in Seq(S) /\ Head(q) = q[1]
         /\ Len(q) \in Nat /\ 1 \in 1..Len(q)
         /\ \A n \in 1..Len(Tail(q)) : /\ n + 1 \in 1..Len(q)
                                       /\ Tail(q)[n] = q[n + 1]
OBVIOUS

LEMMA JoinKeeps ==
  ASSUME TypeOK, Connections, trusted' \in BOOLEAN,
         NEW b \in Boards, Join(b)
  PROVE  TypeOK' /\ Connections'
<1>1. PICK r \in Sock : Accepts(r) /\ r.from = b /\ r.port = 0 /\ ~r.known
  BY JoinIs
<1>2. 0 \in 0..DataPorts
  BY ConstantsAre
<1>3. /\ b \notin on /\ on' = on \cup {b}
      /\ UNCHANGED <<commFd, numBoards, boardIdx, asking, inbox, dialing, leaves>>
  BY DEF Join, Accept, tableVars
<1>4. ~Held(b, 0)
  BY <1>3 DEF Connections, Present, Held
<1>5. /\ socks' \in Seq(Sock)
      /\ OwnFds' /\ OneEach' /\ Numbered' /\ FewLeft'
      /\ \A c, q : Held(c, q)' <=> Held(c, q) \/ (c = b /\ q = 0)
  BY <1>1, <1>2, <1>3, <1>4, AcceptingKeeps
<1>6. TypeOK'
  BY <1>3, <1>5 DEF TypeOK
<1>7. Present'
  <2>1. \A i \in DOMAIN socks' : socks'[i].alive => socks'[i].from \in on'
    <3> SUFFICES ASSUME NEW i \in DOMAIN socks', socks'[i].alive
                 PROVE  socks'[i].from \in on'
      OBVIOUS
    <3>0. PICK c, q : c = socks'[i].from /\ q = socks'[i].port
      OBVIOUS
    <3>1. Held(c, q)'
      BY <3>0 DEF Held
    <3>2. Held(c, q) \/ c = b
      BY <1>5, <3>1
    <3>3. QED
      BY <1>3, <3>0, <3>2 DEF Connections, Present, Held
  <2>2. \A c \in on' : Held(c, 0)'
    BY <1>3, <1>5 DEF Connections, Present
  <2>3. \A c \in Boards \ on' : inbox'[c] = <<>> /\ dialing'[c] = {}
    BY <1>3 DEF Connections, Present
  <2>4. \A c \in Boards : \A p \in dialing'[c] : ~Held(c, p)'
    <3>1. dialing[b] = {}
      BY <1>3 DEF Connections, Present
    <3>2. QED
      BY <1>3, <1>5, <3>1 DEF Connections, Present
  <2>5. QED
    BY <2>1, <2>2, <2>3, <2>4 DEF Present
<1>8. QED
  BY <1>5, <1>6, <1>7 DEF Connections

LEMMA DialKeeps ==
  ASSUME TypeOK, Connections, trusted' \in BOOLEAN,
         NEW b \in Boards, Dial(b)
  PROVE  TypeOK' /\ Connections'
<1>1. PICK p \in dialing[b], r \in Sock, c \in DOMAIN socks :
        /\ Accepts(r) /\ r.from = b /\ r.port = p /\ p \in 1..DataPorts
        /\ Comm(socks[c]) /\ socks[c].from = b /\ r.known = socks[c].known
        /\ dialing' = [dialing EXCEPT ![b] = @ \ {p}]
  BY DialIs
<1>2. p \in 0..DataPorts
  BY <1>1, ConstantsAre
<1>3. UNCHANGED <<commFd, numBoards, boardIdx, asking, on, inbox, leaves>>
  BY DEF Dial, Accept, tableVars
<1>4. ~Held(b, p) /\ b \in on
  BY <1>1 DEF Connections, Present
<1>5. /\ socks' \in Seq(Sock)
      /\ OwnFds' /\ OneEach' /\ Numbered' /\ FewLeft'
      /\ \A d, q : Held(d, q)' <=> Held(d, q) \/ (d = b /\ q = p)
  BY <1>1, <1>2, <1>3, <1>4, AcceptingKeeps
<1>6. /\ dialing' \in [Boards -> SUBSET (1..DataPorts)]
      /\ dialing'[b] = dialing[b] \ {p}
      /\ \A d \in Boards : d # b => dialing'[d] = dialing[d]
  BY <1>1 DEF TypeOK
<1>7. TypeOK'
  BY <1>3, <1>5, <1>6 DEF TypeOK
<1>8. Present'
  <2>1. \A i \in DOMAIN socks' : socks'[i].alive => socks'[i].from \in on'
    <3> SUFFICES ASSUME NEW i \in DOMAIN socks', socks'[i].alive
                 PROVE  socks'[i].from \in on'
      OBVIOUS
    <3>0. PICK d, q : d = socks'[i].from /\ q = socks'[i].port
      OBVIOUS
    <3>1. Held(d, q)'
      BY <3>0 DEF Held
    <3>2. Held(d, q) \/ d = b
      BY <1>5, <3>1
    <3>3. QED
      BY <1>3, <1>4, <3>0, <3>2 DEF Connections, Present, Held
  <2>2. \A d \in on' : Held(d, 0)'
    BY <1>3, <1>5 DEF Connections, Present
  <2>3. \A d \in Boards \ on' : inbox'[d] = <<>> /\ dialing'[d] = {}
    BY <1>3, <1>4, <1>6 DEF Connections, Present
  <2>4. \A d \in Boards : \A q \in dialing'[d] : ~Held(d, q)'
    BY <1>5, <1>6 DEF Connections, Present
  <2>5. QED
    BY <2>1, <2>2, <2>3, <2>4 DEF Present
<1>9. QED
  BY <1>5, <1>7, <1>8 DEF Connections

LEMMA SetupKeeps ==
  ASSUME TypeOK, Connections, trusted' \in BOOLEAN,
         NEW b \in Boards, Setup(b)
  PROVE  TypeOK' /\ Connections'
<1>1. /\ UNCHANGED <<socks, commFd, numBoards, boardIdx, asking, on, leaves>>
      /\ inbox[b] # <<>> /\ inbox' = [inbox EXCEPT ![b] = Tail(@)]
      /\ dialing' = [dialing EXCEPT ![b] = {p \in 1..DataPorts : ~Held(b, p)}]
  BY DEF Setup, tableVars
<1>2. b \in on
  BY <1>1 DEF Connections, Present
<1>3. inbox \in [Boards -> Seq(Messages)] /\ Tail(inbox[b]) \in Seq(Messages)
  BY <1>1, FirstTaken DEF TypeOK, Messages
<1>4. /\ inbox' \in [Boards -> Seq(Messages)]
      /\ \A d \in Boards : d # b => inbox'[d] = inbox[d]
  BY <1>1, <1>3
<1>5. /\ dialing' \in [Boards -> SUBSET (1..DataPorts)]
      /\ dialing'[b] = {p \in 1..DataPorts : ~Held(b, p)}
      /\ \A d \in Boards : d # b => dialing'[d] = dialing[d]
  BY <1>1 DEF TypeOK
<1>6. TypeOK'
  BY <1>1, <1>4, <1>5 DEF TypeOK, Messages
<1>7. \A d, q : Held(d, q)' <=> Held(d, q)
  BY <1>1 DEF Held
<1>8. Present'
  <2>1. \A d \in Boards \ on' : inbox'[d] = <<>> /\ dialing'[d] = {}
    BY <1>1, <1>2, <1>4, <1>5 DEF Connections, Present
  <2>2. \A d \in Boards : \A q \in dialing'[d] : ~Held(d, q)'
    BY <1>5, <1>7 DEF Connections, Present
  <2>3. QED
    BY <1>1, <1>7, <2>1, <2>2 DEF Connections, Present
<1>9. OwnFds' /\ OneEach' /\ Numbered' /\ FewLeft'
  BY <1>1 DEF Connections, OwnFds, OneEach, Numbered, FewLeft, LeftFds, Comm
<1>10. QED
  BY <1>6, <1>8, <1>9 DEF Connections

LEMMA AnswerKeeps ==
  ASSUME TypeOK, Connections, trusted' \in BOOLEAN,
         NEW b \in Boards, Answer(b)
  PROVE  TypeOK' /\ Connections'
<1>1. /\ UNCHANGED <<commFd, numBoards, boardIdx, asking, on, dialing, leaves>>
      /\ inbox[b] # <<>> /\ inbox' = [inbox EXCEPT ![b] = Tail(@)]
  BY DEF Answer, tableVars
<1>2. /\ socks' \in Seq(Sock) /\ KeepsEnds
      /\ \A i \in DOMAIN socks :
           /\ socks'[i].alive = socks[i].alive
           /\ socks'[i].known = socks[i].known
           /\ socks'[i].num = socks[i].num
           /\ ~(socks[i].from = b /\ Comm(socks[i]) /\ socks[i].alive)
                => socks'[i].answers = socks[i].answers
  BY AnswerIs
<1>3. b \in on
  BY <1>1 DEF Connections, Present
<1>4. inbox \in [Boards -> Seq(Messages)] /\ Tail(inbox[b]) \in Seq(Messages)
  BY <1>1, FirstTaken DEF TypeOK, Messages
<1>5. /\ inbox' \in [Boards -> Seq(Messages)]
      /\ \A d \in Boards : d # b => inbox'[d] = inbox[d]
  BY <1>1, <1>4
<1>6. TypeOK'
  BY <1>1, <1>2, <1>5 DEF TypeOK, Messages
<1>7. \A d, q : Held(d, q)' <=> Held(d, q)
  BY <1>2 DEF Held, KeepsEnds
<1>8. Present'
  <2>1. \A d \in Boards \ on' : inbox'[d] = <<>> /\ dialing'[d] = {}
    BY <1>1, <1>3, <1>5 DEF Connections, Present
  <2>2. \A i \in DOMAIN socks' : socks'[i].alive => socks'[i].from \in on'
    BY <1>1, <1>2 DEF Connections, Present, KeepsEnds
  <2>3. QED
    BY <1>1, <1>7, <2>1, <2>2 DEF Connections, Present
<1>9. OwnFds' /\ OneEach'
  BY <1>2, EndsKept DEF Connections
<1>10. Numbered'
  <2>1. \A i \in DOMAIN socks : Comm(socks[i]) <=> Comm(socks'[i])
    BY <1>2 DEF KeepsEnds, Comm
  <2>2. QED
    BY <1>2, <2>1 DEF Connections, Numbered, KeepsEnds
<1>11. FewLeft'
  <2>1. LeftFds' = LeftFds
    BY <1>2 DEF LeftFds, KeepsEnds
  <2>2. QED
    BY <1>1, <2>1 DEF Connections, FewLeft
<1>12. QED
  BY <1>6, <1>8, <1>9, <1>10, <1>11 DEF Connections

LEMMA LeaveKeeps ==
  ASSUME TypeOK, Connections, trusted' \in BOOLEAN,
         NEW b \in Boards, Leave(b)
  PROVE  TypeOK' /\ Connections'
<1>1. /\ UNCHANGED <<commFd, numBoards, boardIdx, asking>>
      /\ leaves < MaxLeaves /\ leaves' = leaves + 1 /\ on' = on \ {b}
      /\ inbox' = [inbox EXCEPT ![b] = <<>>]
      /\ dialing' = [dialing EXCEPT ![b] = {}]
  BY DEF Leave, tableVars
<1>2. /\ socks' \in Seq(Sock) /\ KeepsEnds
      /\ \A i \in DOMAIN socks :
           /\ socks'[i].known = socks[i].known
           /\ socks'[i].num = socks[i].num
           /\ socks'[i].answers = socks[i].answers
           /\ socks'[i].alive = (socks[i].alive /\ socks[i].from # b)
  BY LeaveIs
<1>3. /\ inbox' \in [Boards -> Seq(Messages)] /\ inbox'[b] = <<>>
      /\ \A d \in Boards : d # b => inbox'[d] = inbox[d]
  <2>1. inbox \in [Boards -> Seq(Messages)] /\ <<>> \in Seq(Messages)
    BY DEF TypeOK, Messages
  <2>2. QED
    BY <1>1, <2>1
<1>4. /\ dialing' \in [Boards -> SUBSET (1..DataPorts)] /\ dialing'[b] = {}
      /\ \A d \in Boards : d # b => dialing'[d] = dialing[d]
  BY <1>1 DEF TypeOK
<1>5. leaves' \in 0..MaxLeaves /\ leaves \in Nat
  BY <1>1, ConstantsAre DEF TypeOK
<1>6. TypeOK'
  BY <1>1, <1>2, <1>3, <1>4, <1>5 DEF TypeOK, Messages
<1>7. \A d, q : Held(d, q)' <=> Held(d, q) /\ d # b
  BY <1>2 DEF Held, KeepsEnds
<1>8. Present'
  <2>1. \A d \in Boards \ on' : inbox'[d] = <<>> /\ dialing'[d] = {}
    BY <1>1, <1>3, <1>4 DEF Connections, Present
  <2>2. \A i \in DOMAIN socks' : socks'[i].alive => socks'[i].from \in on'
    BY <1>1, <1>2 DEF Connections, Present, KeepsEnds
  <2>3. \A d \in on' : Held(d, 0)'
    BY <1>1, <1>7 DEF Connections, Present
  <2>4. \A d \in Boards : \A q \in dialing'[d] : ~Held(d, q)'
    BY <1>4, <1>7 DEF Connections, Present
  <2>5. QED
    BY <2>1, <2>2, <2>3, <2>4 DEF Present
<1>9. OwnFds' /\ OneEach'
  BY <1>2, EndsKept DEF Connections
<1>10. Numbered'
  <2>1. \A i \in DOMAIN socks : Comm(socks[i]) <=> Comm(socks'[i])
    BY <1>2 DEF KeepsEnds, Comm
  <2>2. QED
    BY <1>2, <2>1 DEF Connections, Numbered, KeepsEnds
<1>11. FewLeft'
  <2>1. LeftFds' \subseteq LeftFds \cup BoardFds(b)
    BY <1>2, ListIs DEF LeftFds, BoardFds, KeepsEnds
  <2>2. IsFiniteSet(LeftFds)
    <3>1. LeftFds \subseteq Fds
      BY ListIs DEF LeftFds
    <3>2. QED
      BY <3>1, FS_Subset, ConstantsAre
  <2>3. /\ IsFiniteSet(BoardFds(b))
        /\ Cardinality(BoardFds(b)) <= DataPorts + 1
    BY FewOfOneBoard DEF Connections
  <2>4. PICK x \in Nat, y \in Nat, z \in Nat, w \in Nat :
          /\ x = Cardinality(LeftFds) /\ y = Cardinality(BoardFds(b))
          /\ z = Cardinality(LeftFds \cup BoardFds(b))
          /\ w = Cardinality(LeftFds')
          /\ z <= x + y /\ w <= z
    <3>1. PICK L, B : L = LeftFds /\ B = BoardFds(b)
      OBVIOUS
    <3>2. IsFiniteSet(L) /\ IsFiniteSet(B)
      BY <2>2, <2>3, <3>1
    <3>3. /\ IsFiniteSet(L \cup B) /\ IsFiniteSet(L \cap B)
          /\ Cardinality(L \cup B) =
               Cardinality(L) + Cardinality(B) - Cardinality(L \cap B)
      BY <3>2, FS_Union, FS_Intersection
    <3>4. /\ Cardinality(L) \in Nat /\ Cardinality(B) \in Nat
          /\ Cardinality(L \cap B) \in Nat /\ Cardinality(L \cup B) \in Nat
      BY <3>2, <3>3, FS_CardinalityType
    <3>5. PICK M : M = LeftFds'
      OBVIOUS
    <3>6. M \subseteq L \cup B
      BY <2>1, <3>1, <3>5
    <3>7. /\ IsFiniteSet(M) /\ Cardinality(M) <= Cardinality(L \cup B)
      BY <3>3, <3>6, FS_Subset
    <3>8. Cardinality(M) \in Nat
      BY <3>7, FS_CardinalityType
    <3>9. Cardinality(L \cup B) <= Cardinality(L) + Cardinality(B)
      BY <3>3, <3>4
    <3>10. QED
      BY <3>1, <3>4, <3>5, <3>7, <3>8, <3>9
  <2>5. PICK d \in Nat, l \in Nat : d = DataPorts + 1 /\ l = leaves
    BY <1>5, ConstantsAre
  <2>6. x <= d * l /\ y <= d
    BY <2>3, <2>4, <2>5 DEF Connections, FewLeft
  <2>7. d * l \in Nat /\ d * (l + 1) = d * l + d
    OBVIOUS
  <2>8. w <= d * (l + 1)
    BY <2>4, <2>6, <2>7
  <2>9. QED
    BY <1>1, <2>4, <2>5, <2>8 DEF FewLeft
<1>12. QED
  BY <1>6, <1>8, <1>9, <1>10, <1>11 DEF Connections

LEMMA IdentifyKeeps ==
  ASSUME TypeOK, Connections, trusted' \in BOOLEAN,
         NEW k \in DOMAIN socks, Identify(k)
  PROVE  TypeOK' /\ Connections'
<1>1. /\ UNCHANGED <<numBoards, boardIdx, asking, on, inbox, dialing, leaves>>
      /\ commFd' = [commFd EXCEPT ![socks[k].from] = socks[k].fd]
      /\ socks[k].answers > 0
  BY DEF Identify, hpsVars
<1>2. /\ socks' \in Seq(Sock) /\ KeepsEnds
      /\ \A i \in DOMAIN socks : /\ socks'[i].alive = socks[i].alive
                                 /\ i # k => socks'[i] = socks[i]
      /\ socks'[k].known /\ socks'[k].num = socks[k].from
  BY IdentifyIs
<1>3. commFd' \in [Numbers -> Fds \cup {NoFd}]
  BY <1>1, ListIs DEF TypeOK
<1>4. TypeOK'
  BY <1>1, <1>2, <1>3 DEF TypeOK
<1>5. \A d, q : Held(d, q)' <=> Held(d, q)
  BY <1>2 DEF Held, KeepsEnds
<1>6. Present'
  BY <1>1, <1>2, <1>5 DEF Connections, Present, KeepsEnds
<1>7. OwnFds' /\ OneEach'
  BY <1>2, EndsKept DEF Connections
<1>8. Numbered'
  <2>1. \A i \in DOMAIN socks : Comm(socks[i]) <=> Comm(socks'[i])
    BY <1>2 DEF KeepsEnds, Comm
  <2>2. QED
    BY <1>1, <1>2, <2>1 DEF Connections, Numbered, KeepsEnds
<1>9. FewLeft'
  <2>1. LeftFds' = LeftFds
    BY <1>2 DEF LeftFds, KeepsEnds
  <2>2. QED
    BY <1>1, <2>1 DEF Connections, FewLeft
<1>10. QED
  BY <1>4, <1>6, <1>7, <1>8, <1>9 DEF Connections

LEMMA DropKeeps ==
  ASSUME TypeOK, Connections, trusted' \in BOOLEAN,
         NEW k \in DOMAIN socks, Drop(k)
  PROVE  TypeOK' /\ Connections'
<1>1. /\ UNCHANGED <<commFd, numBoards, boardIdx, asking, on, inbox, dialing, leaves>>
      /\ socks' = RemoveAt(socks, k) /\ ~socks[k].alive
  BY DEF Drop, hpsVars, tableVars
<1>2. socks' \in Seq(Sock) /\ ClosesUp(socks', socks, k)
  BY <1>1, Removed
<1>3. PICK m \in [DOMAIN socks' -> DOMAIN socks] :
        /\ \A j \in DOMAIN socks' : socks'[j] = socks[m[j]]
        /\ \A i, j \in DOMAIN socks' : m[i] = m[j] => i = j
        /\ \A i \in DOMAIN socks : i # k => \E j \in DOMAIN socks' : m[j] = i
  BY <1>2 DEF ClosesUp
<1>4. TypeOK'
  BY <1>1, <1>2 DEF TypeOK
<1>5. ASSUME NEW d, NEW q
      PROVE  Held(d, q)' <=> Held(d, q)
  BY <1>1, <1>3 DEF Held
<1>6. Present'
  <2>1. \A i \in DOMAIN socks' : socks'[i].alive => socks'[i].from \in on'
    BY <1>1, <1>3 DEF Connections, Present
  <2>2. QED
    BY <1>1, <1>5, <2>1 DEF Connections, Present
<1>7. OwnFds' /\ OneEach'
  <2>1. OwnFds'
    BY <1>3 DEF Connections, OwnFds
  <2>2. OneEach'
    BY <1>3 DEF Connections, OneEach
  <2>3. QED
    BY <2>1, <2>2
<1>8. Numbered'
  BY <1>3 DEF Connections, Numbered, Comm
<1>9. FewLeft'
  <2>1. PICK L, M : L = LeftFds /\ M = LeftFds'
    OBVIOUS
  <2>2. LeftFds' \subseteq LeftFds
    BY <1>3 DEF LeftFds
  <2>3. IsFiniteSet(L)
    <3>1. L \subseteq Fds
      BY <2>1, ListIs DEF LeftFds
    <3>2. QED
      BY <3>1, FS_Subset, ConstantsAre
  <2>4. IsFiniteSet(M) /\ Cardinality(M) <= Cardinality(L)
    BY <2>1, <2>2, <2>3, FS_Subset
  <2>5. Cardinality(M) \in Nat /\ Cardinality(L) \in Nat
    BY <2>3, <2>4, FS_CardinalityType
  <2>6. Cardinality(L) <= (DataPorts + 1) * leaves
    BY <2>1 DEF Connections, FewLeft
  <2>7. PICK d \in Nat, l \in Nat : d = DataPorts + 1 /\ l = leaves
    BY ConstantsAre DEF TypeOK
  <2>8. Cardinality(M) <= d * l
    <3>1. d * l \in Nat
      OBVIOUS
    <3>2. QED
      BY <2>4, <2>5, <2>6, <2>7, <3>1
  <2>9. QED
    BY <1>1, <2>1, <2>7, <2>8 DEF FewLeft
<1>10. QED
  BY <1>4, <1>6, <1>7, <1>8, <1>9 DEF Connections

(* A message for whichever descriptors.                                    *)
LEMMA DeliveryKeeps ==
  ASSUME TypeOK, Connections, trusted' \in BOOLEAN, asking' \in BOOLEAN,
         NEW F, NEW m \in Messages, Deliver(F, m),
         UNCHANGED <<socks, commFd, numBoards, boardIdx, on, dialing, leaves>>
  PROVE  TypeOK' /\ Connections'
<1>1. /\ inbox' \in [Boards -> Seq(Messages)]
      /\ \A b \in Boards : /\ inbox'[b] = inbox[b] \o Reaches(b, F, m)
                           /\ Reaches(b, F, m) \in Seq(Messages)
  BY DeliverIs
<1>2. TypeOK'
  BY <1>1 DEF TypeOK, Messages
<1>3. \A d, q : Held(d, q)' <=> Held(d, q)
  BY DEF Held
<1>4. ASSUME NEW b \in Boards \ on
      PROVE  inbox'[b] = <<>>
  <2>1. Reaches(b, F, m) = <<>>
    BY <1>4, ReachesNobody DEF Connections, Present
  <2>2. inbox[b] = <<>>
    BY DEF Connections, Present
  <2>3. <<>> \o <<>> = <<>>
    OBVIOUS
  <2>4. QED
    BY <1>1, <2>1, <2>2, <2>3
<1>5. Present'
  BY <1>3, <1>4 DEF Connections, Present
<1>6. OwnFds' /\ OneEach' /\ Numbered' /\ FewLeft'
  BY DEF Connections, OwnFds, OneEach, Numbered, FewLeft, LeftFds, Comm
<1>7. QED
  BY <1>2, <1>5, <1>6 DEF Connections

-----------------------------------------------------------------------------
(* The update of the tables *)

SameNum(k) == {i \in DOMAIN socks : Comm(socks[i]) /\ socks[i].num = k}
CommSocks == {i \in DOMAIN socks : Comm(socks[i])}

LEMMA NewCommFdIs ==
  ASSUME TypeOK
  PROVE  /\ NewCommFd \in [Numbers -> Fds \cup {NoFd}]
         /\ \A k \in Numbers :
              \/ SameNum(k) = {} /\ NewCommFd[k] = NoFd
              \/ \E i \in SameNum(k) : NewCommFd[k] = socks[i].fd
<1>1. ASSUME NEW k \in Numbers, SameNum(k) # {}
      PROVE  Max(SameNum(k)) \in SameNum(k)
  <2>1. /\ SameNum(k) \in SUBSET Nat /\ Len(socks) \in Nat
        /\ \A n \in SameNum(k) : n <= Len(socks)
    BY ListIs DEF SameNum
  <2>2. QED
    BY <1>1, <2>1, GreatestNumber
<1>2. NewCommFd = [k \in Numbers |-> IF SameNum(k) = {} THEN NoFd
                                     ELSE socks[Max(SameNum(k))].fd]
  BY DEF NewCommFd, SameNum
<1>3. \A k \in Numbers : SameNum(k) # {} => socks[Max(SameNum(k))].fd \in Fds
  BY <1>1, ListIs DEF SameNum
<1>4. QED
  BY <1>1, <1>2, <1>3

LEMMA NewBoardIdxIs ==
  ASSUME TypeOK
  PROVE  /\ NewBoardIdx \in [Numbers -> Nat]
         /\ \A k \in Numbers : NewCommFd[k] # NoFd =>
              NewBoardIdx[k] = Cardinality({j \in 0..(k - 1) : NewCommFd[j] # NoFd})
<1>1. \A k \in Numbers :
        NewCommFd[k] # NoFd =>
          Cardinality({j \in 0..(k - 1) : NewCommFd[j] # NoFd}) \in Nat
  <2> SUFFICES ASSUME NEW k \in Numbers
               PROVE  Cardinality({j \in 0..(k - 1) : NewCommFd[j] # NoFd}) \in Nat
    OBVIOUS
  <2>1. k - 1 \in Int /\ 0 \in Int
    BY ConstantsAre
  <2>2. IsFiniteSet(0..(k - 1))
    BY <2>1, FS_Interval
  <2>3. {j \in 0..(k - 1) : NewCommFd[j] # NoFd} \subseteq 0..(k - 1)
    OBVIOUS
  <2>4. QED
    BY <2>2, <2>3, FS_Subset, FS_CardinalityType
<1>2. boardIdx \in [Numbers -> Nat]
  BY DEF TypeOK
<1>3. QED
  BY <1>1, <1>2 DEF NewBoardIdx

LEMMA CommSocksAre ==
  ASSUME TypeOK
  PROVE  IsFiniteSet(CommSocks) /\ Cardinality(CommSocks) \in Nat
<1>1. PICK n \in Nat : DOMAIN socks = 1..n
  BY ListIs
<1>2. IsFiniteSet(1..n)
  BY FS_Interval
<1>3. CommSocks \subseteq 1..n
  BY <1>1 DEF CommSocks
<1>4. QED
  BY <1>2, <1>3, FS_Subset, FS_CardinalityType

LEMMA UpdateKeeps ==
  ASSUME TypeOK, Connections, trusted' \in BOOLEAN, Update
  PROVE  TypeOK' /\ Connections'
<1>1. /\ UNCHANGED <<socks, on, inbox, dialing, leaves>>
      /\ asking' \in BOOLEAN /\ UpdateBoardGlobals
  BY DEF Update, GetBoardInfo, Allocate, hpsVars, TypeOK
<1>2. /\ commFd' = NewCommFd /\ boardIdx' = NewBoardIdx
      /\ numBoards' = Cardinality(CommSocks)
  BY <1>1 DEF UpdateBoardGlobals, CommSocks
<1>3. TypeOK'
  BY <1>1, <1>2, NewCommFdIs, NewBoardIdxIs, CommSocksAre DEF TypeOK
<1>4. Connections'
  BY <1>1 DEF Connections, OwnFds, OneEach, Present, Held, Numbered, FewLeft,
              LeftFds, Comm
<1>5. QED
  BY <1>3, <1>4

LEMMA ConnectionsKept ==
  ASSUME TypeOK, Connections, [Next]_regVars
  PROVE  TypeOK' /\ Connections'
<1>1. CASE UNCHANGED regVars
  <2>1. /\ UNCHANGED <<socks, commFd, numBoards, boardIdx, asking, inbox>>
        /\ UNCHANGED <<dialing, on, leaves, trusted>>
    BY <1>1 DEF regVars, tableVars, hpsVars
  <2>2. TypeOK'
    BY <2>1 DEF TypeOK
  <2>3. OwnFds' /\ OneEach' /\ Numbered' /\ FewLeft'
    BY <2>1 DEF Connections, OwnFds, OneEach, Numbered, FewLeft, LeftFds, Comm
  <2>4. Present'
    BY <2>1 DEF Connections, Present, Held
  <2>5. QED
    BY <2>2, <2>3, <2>4 DEF Connections
<1>2. CASE Next
  <2>1. trusted' \in BOOLEAN
    <3>1. \A i \in DOMAIN socks : socks[i].alive \in BOOLEAN /\ socks[i].known \in BOOLEAN
      BY ListIs
    <3>2. Settled \in BOOLEAN
      BY <3>1 DEF Settled
    <3>3. QED
      BY <1>2, <3>2 DEF Next, TypeOK
  <2>2. ASSUME NEW b \in Boards, Join(b)
        PROVE  TypeOK' /\ Connections'
    BY <2>1, <2>2, JoinKeeps
  <2>3. ASSUME NEW b \in Boards, Answer(b)
        PROVE  TypeOK' /\ Connections'
    BY <2>1, <2>3, AnswerKeeps
  <2>4. ASSUME NEW b \in Boards, Setup(b)
        PROVE  TypeOK' /\ Connections'
    BY <2>1, <2>4, SetupKeeps
  <2>5. ASSUME NEW b \in Boards, Dial(b)
        PROVE  TypeOK' /\ Connections'
    BY <2>1, <2>5, DialKeeps
  <2>6. ASSUME NEW b \in Boards, Leave(b)
        PROVE  TypeOK' /\ Connections'
    BY <2>1, <2>6, LeaveKeeps
  <2>7. ASSUME NEW i \in DOMAIN socks, Identify(i)
        PROVE  TypeOK' /\ Connections'
    BY <2>1, <2>7, IdentifyKeeps
  <2>8. ASSUME NEW i \in DOMAIN socks, Drop(i)
        PROVE  TypeOK' /\ Connections'
    BY <2>1, <2>8, DropKeeps
  <2>9. CASE QueryBoardInfo
    <3>1. "info" \in Messages /\ asking' \in BOOLEAN
      BY <2>9 DEF Messages, QueryBoardInfo
    <3>2. \E F : Deliver(F, "info")
      BY <2>9 DEF QueryBoardInfo, Broadcast
    <3>3. UNCHANGED <<socks, commFd, numBoards, boardIdx, on, dialing, leaves>>
      BY <2>9 DEF QueryBoardInfo, tableVars
    <3>4. QED
      BY <2>1, <3>1, <3>2, <3>3, DeliveryKeeps
  <2>10. CASE Configure
    <3>1. "setup" \in Messages /\ asking' \in BOOLEAN
      BY <2>10 DEF Messages, Configure, TypeOK
    <3>2. \E F : Deliver(F, "setup")
      BY <2>10 DEF Configure, SendToAll
    <3>3. UNCHANGED <<socks, commFd, numBoards, boardIdx, on, dialing, leaves>>
      BY <2>10 DEF Configure, tableVars
    <3>4. QED
      BY <2>1, <3>1, <3>2, <3>3, DeliveryKeeps
  <2>11. CASE Update
    BY <2>1, <2>11, UpdateKeeps
  <2>12. QED
    BY <1>2, <2>2, <2>3, <2>4, <2>5, <2>6, <2>7, <2>8, <2>9, <2>10, <2>11
       DEF Next, OrderlyStep, DisorderlyStep
<1>3. QED
  BY <1>1, <1>2

-----------------------------------------------------------------------------
(* The tables *)

DialsNoMore == \A b \in Boards : dialing'[b] \subseteq dialing[b]
Starts(r) == \/ r.known /\ r.port # 0
             \/ /\ ~r.known /\ r.port = 0
                /\ dialing'[r.from] = {} /\ inbox[r.from] = <<>>

LEMMA AcceptedTables ==
  ASSUME TypeOK, Tables, NEW r \in Sock, Accepts(r),
         UNCHANGED <<commFd, inbox, asking>>,
         DialsNoMore, Starts(r)
  PROVE  Tables'
<1>1. /\ socks' \in Seq(Sock)
      /\ 1 \in DOMAIN socks' /\ socks'[1] = r
      /\ \A i \in DOMAIN socks : /\ i + 1 \in DOMAIN socks' /\ i + 1 # 1
                                 /\ socks'[i + 1] = socks[i]
      /\ \A j \in DOMAIN socks' :
           j # 1 => \E i \in DOMAIN socks : j = i + 1 /\ socks'[j] = socks[i]
  BY Added DEF Accepts
<1>2. r.alive /\ r.answers = 0 /\ r.known \in BOOLEAN
  BY DEF Accepts, Sock
<1> USE DEF DialsNoMore, Starts
<1>3. \A k \in Numbers : commFd'[k] # NoFd => Entry(k)'
  BY <1>1 DEF Tables, Entry, Comm
<1>4. ASSUME NEW j \in DOMAIN socks'
      PROVE  /\ socks'[j].alive
             /\ socks'[j].known /\ Comm(socks'[j])
                  => commFd'[socks'[j].from] = socks'[j].fd
             /\ ~socks'[j].known => Comm(socks'[j]) /\ New(j)'
  <2>1. CASE j = 1
    <3>1. socks'[j] = r
      BY <1>1, <2>1
    <3>2. ~r.known => New(j)'
      <4>1. Len(<<>>) = 0
        BY EmptySeq
      <4>2. QED
        BY <1>2, <3>1, <4>1 DEF New
    <3>3. QED
      BY <1>2, <3>1, <3>2 DEF Comm
  <2>2. CASE j # 1
    <3>1. PICK i \in DOMAIN socks : socks'[j] = socks[i]
      BY <1>1, <2>2
    <3>2. /\ socks[i].alive /\ socks[i].from \in Boards
          /\ socks[i].known /\ Comm(socks[i])
               => commFd[socks[i].from] = socks[i].fd
          /\ ~socks[i].known => Comm(socks[i]) /\ New(i)
      BY ListIs DEF Tables
    <3>3. New(i) => New(j)'
      BY <3>1, <3>2 DEF New
    <3>4. QED
      BY <3>1, <3>2, <3>3 DEF Comm
  <2>3. QED
    BY <2>1, <2>2
<1>5. QED
  BY <1>3, <1>4 DEF Tables

LEMMA JoinTables ==
  ASSUME TypeOK, Connections, Tables, NEW b \in Boards, Join(b)
  PROVE  Tables'
<1>1. PICK r \in Sock : Accepts(r) /\ r.from = b /\ r.port = 0 /\ ~r.known
  BY JoinIs
<1>2. b \notin on /\ UNCHANGED <<commFd, asking, inbox, dialing>>
  BY DEF Join, Accept, tableVars
<1>3. inbox[b] = <<>> /\ dialing'[b] = {}
  BY <1>2 DEF Connections, Present
<1>4. DialsNoMore /\ Starts(r)
  BY <1>1, <1>2, <1>3 DEF DialsNoMore, Starts
<1>5. QED
  BY <1>1, <1>2, <1>4, AcceptedTables

LEMMA DialTables ==
  ASSUME TypeOK, Connections, Tables, NEW b \in Boards, Dial(b)
  PROVE  Tables'
<1>1. PICK p \in dialing[b], r \in Sock, c \in DOMAIN socks :
        /\ Accepts(r) /\ r.from = b /\ r.port = p /\ p \in 1..DataPorts
        /\ Comm(socks[c]) /\ socks[c].from = b /\ r.known = socks[c].known
        /\ dialing' = [dialing EXCEPT ![b] = @ \ {p}]
  BY DialIs
<1>2. socks[c].known
  BY <1>1 DEF Tables, New
<1>3. UNCHANGED <<commFd, inbox, asking>>
  BY DEF Dial, Accept, tableVars
<1>4. DialsNoMore
  BY <1>1 DEF TypeOK, DialsNoMore
<1>5. r.port # 0 /\ r.known
  <2>1. p # 0
    BY <1>1, ConstantsAre
  <2>2. QED
    BY <1>1, <1>2, <2>1
<1>6. Starts(r)
  BY <1>5 DEF Starts
<1>7. r \in Sock /\ Accepts(r)
  BY <1>1
<1>8. QED
  BY <1>3, <1>4, <1>6, <1>7, AcceptedTables

LEMMA SetupTables ==
  ASSUME TypeOK, Connections, Tables, NEW b \in Boards, Setup(b)
  PROVE  Tables'
<1>1. /\ UNCHANGED <<socks, commFd, asking>>
      /\ inbox[b] # <<>> /\ Head(inbox[b]) = "setup"
      /\ inbox' = [inbox EXCEPT ![b] = Tail(@)]
      /\ dialing' = [dialing EXCEPT ![b] = {p \in 1..DataPorts : ~Held(b, p)}]
  BY DEF Setup, tableVars
<1>2. \A i \in DOMAIN socks : socks[i].from = b => socks[i].known
  <2>1. PICK q \in Seq(Messages) : q = inbox[b]
    BY DEF TypeOK, Messages
  <2>2. Head(q) = q[1] /\ 1 \in 1..Len(q)
    BY <1>1, <2>1, FirstTaken
  <2>3. inbox[b][1] # "info" /\ 1 \in 1..Len(inbox[b])
    BY <1>1, <2>1, <2>2
  <2>4. QED
    BY <2>3 DEF Tables, New
<1>3. \A d \in Boards : d # b => inbox'[d] = inbox[d] /\ dialing'[d] = dialing[d]
  BY <1>1 DEF TypeOK
<1>4. \A i \in DOMAIN socks : socks[i].from # b /\ New(i) => New(i)'
  BY <1>1, <1>3, ListIs DEF New
<1>5. \A k \in Numbers : Entry(k) => Entry(k)'
  BY <1>1 DEF Entry, Comm
<1>6. QED
  BY <1>1, <1>2, <1>4, <1>5 DEF Tables, Comm

LEMMA AnswerTables ==
  ASSUME TypeOK, Connections, Tables, NEW b \in Boards, Answer(b)
  PROVE  Tables'
<1>1. /\ UNCHANGED <<commFd, asking, dialing>>
      /\ inbox[b] # <<>> /\ inbox' = [inbox EXCEPT ![b] = Tail(@)]
  BY DEF Answer, tableVars
<1>2. /\ KeepsEnds
      /\ \A i \in DOMAIN socks :
           /\ socks'[i].alive = socks[i].alive
           /\ socks'[i].known = socks[i].known
           /\ ~(socks[i].from = b /\ Comm(socks[i]) /\ socks[i].alive)
                => socks'[i].answers = socks[i].answers
  BY AnswerIs
<1>3. inbox \in [Boards -> Seq(Messages)]
  BY DEF TypeOK, Messages
<1>4. \A d \in Boards : d # b => inbox'[d] = inbox[d]
  BY <1>1
<1>5. /\ inbox'[b] = Tail(inbox[b])
      /\ \A n \in 1..Len(inbox'[b]) : /\ n + 1 \in 1..Len(inbox[b])
                                      /\ inbox'[b][n] = inbox[b][n + 1]
  <2>1. inbox'[b] = Tail(inbox[b])
    BY <1>1, <1>3
  <2>2. PICK q \in Seq(Messages) : q = inbox[b]
    BY <1>3
  <2>3. \A n \in 1..Len(Tail(q)) : n + 1 \in 1..Len(q) /\ Tail(q)[n] = q[n + 1]
    BY <1>1, <2>2, FirstTaken
  <2>4. QED
    BY <2>1, <2>2, <2>3
<1>6. ASSUME NEW i \in DOMAIN socks, New(i)
      PROVE  New(i)'
  <2>1. CASE socks[i].from = b
    <3>1. asking
      BY <1>1, <1>6, <2>1 DEF New
    <3>2. \A n \in 1..Len(inbox'[b]) : inbox'[b][n] = "info"
      BY <1>5, <1>6, <2>1 DEF New
    <3>3. QED
      BY <1>1, <1>2, <1>6, <2>1, <3>1, <3>2 DEF New, KeepsEnds
  <2>2. CASE socks[i].from # b
    BY <1>1, <1>2, <1>4, <1>6, <2>2, ListIs DEF New, KeepsEnds
  <2>3. QED
    BY <2>1, <2>2
<1>7. \A i \in DOMAIN socks : Comm(socks[i]) <=> Comm(socks'[i])
  BY <1>2 DEF KeepsEnds, Comm
<1>8. \A k \in Numbers : Entry(k) => Entry(k)'
  BY <1>1, <1>2, <1>7 DEF Entry, KeepsEnds
<1>9. QED
  BY <1>1, <1>2, <1>6, <1>7, <1>8 DEF Tables, KeepsEnds

LEMMA IdentifyTables ==
  ASSUME TypeOK, Connections, Tables, NEW k \in DOMAIN socks, Identify(k)
  PROVE  /\ Tables'
         /\ ~asking => commFd' = commFd
<1>1. /\ UNCHANGED <<asking, inbox, dialing>>
      /\ commFd' = [commFd EXCEPT ![socks[k].from] = socks[k].fd]
      /\ socks[k].answers > 0
  BY DEF Identify, hpsVars
<1>2. /\ KeepsEnds
      /\ \A i \in DOMAIN socks : /\ socks'[i].alive = socks[i].alive
                                 /\ i # k => socks'[i] = socks[i]
      /\ socks'[k].known /\ socks'[k].num = socks[k].from
  BY IdentifyIs
<1>3. PICK f \in Boards : f = socks[k].from
  BY ListIs
<1>4. commFd \in [Numbers -> Fds \cup {NoFd}] /\ f \in Numbers
  BY ConstantsAre DEF TypeOK
<1>5. /\ commFd'[f] = socks[k].fd
      /\ \A n \in Numbers : n # f => commFd'[n] = commFd[n]
  BY <1>1, <1>3, <1>4
<1>6. Comm(socks[k])
  BY <1>1 DEF Connections, Numbered
<1>7. \A i \in DOMAIN socks : Comm(socks[i]) <=> Comm(socks'[i])
  BY <1>2 DEF KeepsEnds, Comm
<1>8. ASSUME NEW n \in Numbers, commFd'[n] # NoFd
      PROVE  Entry(n)'
  <2>1. CASE n = f
    BY <1>2, <1>3, <1>5, <1>6, <1>7, <2>1 DEF Entry, KeepsEnds
  <2>2. CASE n # f
    <3>1. PICK i \in DOMAIN socks : /\ Comm(socks[i]) /\ socks[i].known
                                    /\ socks[i].from = n /\ socks[i].fd = commFd[n]
      BY <1>5, <1>8, <2>2 DEF Tables, Entry
    <3>2. i # k
      BY <1>3, <2>2, <3>1
    <3>3. i \in DOMAIN socks' /\ socks'[i] = socks[i] /\ commFd'[n] = commFd[n]
      BY <1>2, <1>5, <2>2, <3>2 DEF KeepsEnds
    <3>4. QED
      BY <3>1, <3>3 DEF Entry, Comm
  <2>3. QED
    BY <2>1, <2>2
<1>9. ASSUME NEW i \in DOMAIN socks, socks'[i].known, Comm(socks[i])
      PROVE  commFd'[socks[i].from] = socks[i].fd
  <2>1. CASE socks[i].from = f
    <3>1. i = k
      BY <1>3, <1>6, <1>9, <2>1 DEF Connections, OneEach, Tables, Comm
    <3>2. QED
      BY <1>3, <1>5, <3>1
  <2>2. CASE socks[i].from # f
    <3>1. socks[i].known /\ socks[i].from \in Numbers
      BY <1>2, <1>3, <1>9, <2>2, ListIs, ConstantsAre
    <3>2. QED
      BY <1>5, <1>9, <2>2, <3>1 DEF Tables
  <2>3. QED
    BY <2>1, <2>2
<1>10. ASSUME NEW i \in DOMAIN socks, ~socks'[i].known
       PROVE  Comm(socks[i]) /\ New(i)'
  <2>1. i # k /\ socks'[i] = socks[i]
    BY <1>2, <1>10
  <2>2. Comm(socks[i]) /\ New(i)
    BY <1>10, <2>1 DEF Tables
  <2>3. QED
    BY <1>1, <2>1, <2>2 DEF New
<1>11. Tables'
  BY <1>2, <1>7, <1>8, <1>9, <1>10 DEF Tables, KeepsEnds
<1>12. ASSUME ~asking
       PROVE  commFd' = commFd
  <2>1. socks[k].known
    BY <1>1, <1>12 DEF Tables, New
  <2>2. commFd[f] = socks[k].fd
    BY <1>3, <1>6, <2>1 DEF Tables
  <2>3. QED
    BY <1>1, <1>3, <1>4, <2>2
<1>13. QED
  BY <1>11, <1>12

LEMMA QueryTables ==
  ASSUME TypeOK, Connections, Tables, QueryBoardInfo
  PROVE  Tables'
<1> DEFINE F == {socks[i].fd : i \in {j \in DOMAIN socks : Comm(socks[j])}}
<1>1. /\ UNCHANGED <<socks, commFd, dialing>> /\ asking' = TRUE
      /\ Deliver(F, "info")
  BY DEF QueryBoardInfo, Broadcast, tableVars
<1>2. "info" \in Messages
  BY DEF Messages
<1>3. ASSUME NEW j \in DOMAIN socks, socks[j].fd \in F
      PROVE  Comm(socks[j])
  BY <1>3 DEF Connections, OwnFds
<1>4. \A b \in Boards : Reaches(b, F, "info") \in {<<>>, <<"info">>}
  <2> HIDE DEF F
  <2>1. QED
    BY <1>3 DEF Reaches
<1> HIDE DEF F
<1>5. ASSUME NEW i \in DOMAIN socks, New(i)
      PROVE  New(i)'
  <2>1. PICK b \in Boards : b = socks[i].from
    BY ListIs
  <2>2. PICK q \in Seq(Messages), a \in {<<>>, <<"info">>} :
          q = inbox[b] /\ a = Reaches(b, F, "info")
    BY <1>4 DEF TypeOK, Messages
  <2>3. inbox'[b] = q \o a
    BY <1>1, <1>2, <2>2, DeliverIs
  <2>4. \A n \in 1..Len(q) : q[n] = "info"
    BY <1>5, <2>1, <2>2 DEF New
  <2>5. \A n \in 1..Len(q \o a) : (q \o a)[n] = "info"
    <3>1. CASE a = <<>>
      <4>1. q \o a = q
        BY <3>1
      <4>2. QED
        BY <2>4, <4>1
    <3>2. CASE a = <<"info">>
      <4>1. Len(q \o a) = Len(q) + 1 /\ (q \o a)[Len(q) + 1] = "info"
            /\ \A n \in 1..Len(q) : (q \o a)[n] = q[n]
        BY <3>2
      <4>2. Len(q) \in Nat
        OBVIOUS
      <4>3. QED
        BY <2>4, <4>1, <4>2
    <3>3. QED
      BY <3>1, <3>2
  <2>6. dialing'[b] = {}
    BY <1>1, <1>5, <2>1 DEF New
  <2>7. QED
    BY <1>1, <2>1, <2>3, <2>5, <2>6 DEF New
<1>6. \A k \in Numbers : Entry(k) => Entry(k)'
  BY <1>1 DEF Entry, Comm
<1>7. QED
  BY <1>1, <1>5, <1>6 DEF Tables, Comm

(* A board that has not answered is in no entry.                           *)
LEMMA ConfigureTables ==
  ASSUME TypeOK, Connections, Tables, Configure
  PROVE  Tables'
<1> DEFINE F == {commFd[k] : k \in 0..(MaxFpgas - 1)} \ {NoFd}
<1>1. UNCHANGED <<socks, commFd, dialing, asking>> /\ Deliver(F, "setup")
  BY DEF Configure, SendToAll, tableVars
<1>2. "setup" \in Messages
  BY DEF Messages
<1>3. ASSUME NEW j \in DOMAIN socks, socks[j].fd \in F
      PROVE  Comm(socks[j]) /\ socks[j].known
  <2>1. PICK k \in 0..(MaxFpgas - 1) : commFd[k] = socks[j].fd /\ commFd[k] # NoFd
    BY <1>3
  <2>2. k \in Numbers
    BY ConstantsAre DEF Numbers
  <2>3. PICK i \in DOMAIN socks : Comm(socks[i]) /\ socks[i].known
                                  /\ socks[i].fd = commFd[k]
    BY <2>1, <2>2 DEF Tables, Entry
  <2>4. i = j
    BY <2>1, <2>3 DEF Connections, OwnFds
  <2>5. QED
    BY <2>3, <2>4
<1> HIDE DEF F
<1>5. ASSUME NEW i \in DOMAIN socks, ~socks[i].known, New(i)
      PROVE  New(i)'
  <2>1. PICK b \in Boards : b = socks[i].from
    BY ListIs
  <2>2. Comm(socks[i]) /\ socks[i].alive
    BY <1>5 DEF Tables
  <2>3. ASSUME NEW j \in DOMAIN socks, socks[j].alive, socks[j].from = b,
               socks[j].fd \in F
        PROVE  FALSE
    <3>1. Comm(socks[j]) /\ socks[j].known
      BY <1>3, <2>3
    <3>2. i = j
      BY <2>1, <2>2, <2>3, <3>1 DEF Connections, OneEach, Comm
    <3>3. QED
      BY <1>5, <3>1, <3>2
  <2>4. Reaches(b, F, "setup") = <<>>
    BY <2>3, ReachesNobody
  <2>5. PICK q \in Seq(Messages) : q = inbox[b]
    BY DEF TypeOK, Messages
  <2>6. inbox'[b] = q \o <<>>
    BY <1>1, <1>2, <2>4, <2>5, DeliverIs
  <2>7. q \o <<>> = q
    OBVIOUS
  <2>8. inbox'[b] = inbox[b]
    BY <2>5, <2>6, <2>7
  <2>9. QED
    BY <1>1, <1>5, <2>1, <2>8 DEF New
<1>6. \A k \in Numbers : Entry(k) => Entry(k)'
  BY <1>1 DEF Entry, Comm
<1>7. QED
  BY <1>1, <1>5, <1>6 DEF Tables, Comm

(* With everybody there and identified.                                    *)
LEMMA SettledSocks ==
  ASSUME TypeOK, Connections, Settled
  PROVE  /\ \A i, j \in CommSocks : socks[i].from = socks[j].from => i = j
         /\ \A i \in DOMAIN socks : /\ socks[i].alive /\ socks[i].known
                                    /\ socks[i].num = socks[i].from
         /\ \A k \in Numbers :
              NewCommFd[k] # NoFd <=> \E i \in CommSocks : socks[i].from = k
         /\ \A i \in CommSocks : NewCommFd[socks[i].from] = socks[i].fd
<1>1. \A i \in DOMAIN socks : /\ socks[i].alive /\ socks[i].known
                              /\ socks[i].num = socks[i].from
  BY DEF Settled, Connections, Numbered
<1>2. \A i, j \in CommSocks : socks[i].from = socks[j].from => i = j
  BY <1>1 DEF CommSocks, Connections, OneEach, Comm
<1>3. \A i \in CommSocks : NewCommFd[socks[i].from] = socks[i].fd
  <2> SUFFICES ASSUME NEW i \in CommSocks
               PROVE  NewCommFd[socks[i].from] = socks[i].fd
    OBVIOUS
  <2>1. PICK k \in Numbers : k = socks[i].from
    BY ListIs, ConstantsAre DEF CommSocks
  <2>2. i \in SameNum(k)
    BY <1>1, <2>1 DEF SameNum, CommSocks
  <2>3. PICK j \in SameNum(k) : NewCommFd[k] = socks[j].fd
    BY <2>2, NewCommFdIs
  <2>4. j \in CommSocks /\ socks[j].from = k
    BY <1>1, <2>3 DEF SameNum, CommSocks
  <2>5. i = j
    BY <1>2, <2>1, <2>4
  <2>6. QED
    BY <2>1, <2>3, <2>5
<1>4. ASSUME NEW k \in Numbers
      PROVE  NewCommFd[k] # NoFd <=> \E i \in CommSocks : socks[i].from = k
  <2>1. ASSUME NewCommFd[k] # NoFd
        PROVE  \E i \in CommSocks : socks[i].from = k
    <3>1. PICK i \in SameNum(k) : TRUE
      BY <2>1, NewCommFdIs
    <3>2. QED
      BY <1>1, <3>1 DEF SameNum, CommSocks
  <2>2. ASSUME NEW i \in CommSocks, socks[i].from = k
        PROVE  NewCommFd[k] # NoFd
    <3>1. socks[i].fd \in Fds
      BY ListIs DEF CommSocks
    <3>2. QED
      BY <1>3, <2>2, <3>1, ConstantsAre
  <2>3. QED
    BY <2>1, <2>2
<1>5. QED
  BY <1>1, <1>2, <1>3, <1>4

LEMMA UpdateTables ==
  ASSUME TypeOK, Connections, Settled, Update
  PROVE  Tables'
<1>1. UNCHANGED <<socks, inbox, dialing>> /\ commFd' = NewCommFd
  BY DEF Update, GetBoardInfo, Allocate, UpdateBoardGlobals, hpsVars
<1>2. /\ \A i \in DOMAIN socks : /\ socks[i].alive /\ socks[i].known
                                 /\ socks[i].num = socks[i].from
      /\ \A k \in Numbers :
           NewCommFd[k] # NoFd <=> \E i \in CommSocks : socks[i].from = k
      /\ \A i \in CommSocks : NewCommFd[socks[i].from] = socks[i].fd
  BY SettledSocks
<1>3. ASSUME NEW k \in Numbers, commFd'[k] # NoFd
      PROVE  Entry(k)'
  <2>1. PICK i \in CommSocks : socks[i].from = k
    BY <1>1, <1>2, <1>3
  <2>2. i \in DOMAIN socks /\ Comm(socks[i]) /\ socks[i].known
        /\ socks[i].fd = commFd'[k]
    BY <1>1, <1>2, <2>1 DEF CommSocks
  <2>3. QED
    BY <1>1, <2>1, <2>2 DEF Entry, Comm
<1>4. \A i \in DOMAIN socks : Comm(socks[i]) => commFd'[socks[i].from] = socks[i].fd
  BY <1>1, <1>2 DEF CommSocks
<1>5. QED
  BY <1>1, <1>2, <1>3, <1>4 DEF Tables, Comm

(* The boards in the table are ranked one by one, from 0.                  *)
LEMMA Ranks ==
  ASSUME NEW T \in SUBSET Numbers, NEW rank,
         \A k \in T : rank[k] = Cardinality({j \in 0..(k - 1) : j \in T})
  PROVE  /\ \A j, k \in T : rank[j] = rank[k] => j = k
         /\ \A k \in T : rank[k] < Cardinality(T)
<1> DEFINE Before(k) == {j \in 0..(k - 1) : j \in T}
<1>1. IsFiniteSet(T) /\ T \subseteq Nat
  <2>1. 0 \in Int /\ MaxFpgas \in Int
    BY ConstantsAre
  <2>2. IsFiniteSet(0..MaxFpgas)
    BY <2>1, FS_Interval
  <2>3. QED
    BY <2>2, FS_Subset, ConstantsAre DEF Numbers
<1>2. \A k \in T : /\ Before(k) \subseteq T /\ k \notin Before(k)
                   /\ IsFiniteSet(Before(k)) /\ Cardinality(Before(k)) \in Nat
  <2> SUFFICES ASSUME NEW k \in T
               PROVE  /\ Before(k) \subseteq T /\ k \notin Before(k)
                      /\ IsFiniteSet(Before(k)) /\ Cardinality(Before(k)) \in Nat
    OBVIOUS
  <2>1. Before(k) \subseteq T /\ k \notin Before(k)
    BY <1>1
  <2> HIDE DEF Before
  <2>2. QED
    BY <1>1, <2>1, FS_Subset, FS_CardinalityType
<1>3. ASSUME NEW j \in T, NEW k \in T, j < k
      PROVE  Before(j) \cup {j} \subseteq Before(k)
  <2>1. j \in Nat /\ k \in Nat
    BY <1>1
  <2>2. j \in 0..(k - 1) /\ \A i \in 0..(j - 1) : i \in 0..(k - 1)
    BY <1>3, <2>1
  <2>3. QED
    BY <2>2
<1>4. \A k \in T : rank[k] = Cardinality(Before(k))
  OBVIOUS
<1> HIDE DEF Before
<1>5. \A k \in T : /\ IsFiniteSet(Before(k) \cup {k})
                   /\ Cardinality(Before(k) \cup {k}) = Cardinality(Before(k)) + 1
  BY <1>2, FS_AddElement
<1>6. ASSUME NEW j \in T, NEW k \in T, j < k
      PROVE  rank[j] < rank[k]
  <2>1. Cardinality(Before(j) \cup {j}) <= Cardinality(Before(k))
    BY <1>2, <1>3, <1>6, FS_Subset
  <2>2. PICK x \in Nat, y \in Nat : rank[j] = x /\ x = Cardinality(Before(j))
                                   /\ rank[k] = y /\ y = Cardinality(Before(k))
    BY <1>2, <1>4
  <2>3. Cardinality(Before(j) \cup {j}) = x + 1
    BY <1>5, <2>2
  <2>4. x + 1 <= y
    BY <2>1, <2>2, <2>3
  <2>5. QED
    BY <2>2, <2>4
<1>7. ASSUME NEW k \in T
      PROVE  rank[k] < Cardinality(T)
  <2>1. Before(k) \cup {k} \subseteq T
    BY <1>2
  <2>2. Cardinality(Before(k) \cup {k}) <= Cardinality(T)
    BY <1>1, <2>1, FS_Subset
  <2>3. PICK x \in Nat, y \in Nat : rank[k] = x /\ x = Cardinality(Before(k))
                                   /\ y = Cardinality(T)
    BY <1>1, <1>2, <1>4, FS_CardinalityType
  <2>4. Cardinality(Before(k) \cup {k}) = x + 1
    BY <1>5, <2>3
  <2>5. x + 1 <= y
    BY <2>2, <2>3, <2>4
  <2>6. QED
    BY <2>3, <2>5
<1>8. ASSUME NEW j \in T, NEW k \in T, rank[j] = rank[k]
      PROVE  j = k
  <2>1. j \in Nat /\ k \in Nat /\ rank[j] \in Nat /\ rank[k] \in Nat
    BY <1>1, <1>2, <1>4
  <2>2. ~(j < k) /\ ~(k < j)
    BY <1>6, <1>8, <2>1
  <2>3. QED
    BY <2>1, <2>2
<1>9. QED
  BY <1>7, <1>8

(* One entry for each comm socket, and for each board that runs.           *)
NewTable == {k \in Numbers : NewCommFd[k] # NoFd}

LEMMA NewTableIs ==
  ASSUME TypeOK, Connections, Settled
  PROVE  Cardinality(NewTable) = Cardinality(CommSocks) /\ NewTable = on
<1>1. /\ \A i, j \in CommSocks : socks[i].from = socks[j].from => i = j
      /\ \A i \in DOMAIN socks : socks[i].alive
      /\ \A k \in Numbers :
           NewCommFd[k] # NoFd <=> \E i \in CommSocks : socks[i].from = k
  BY SettledSocks
<1>2. PICK f : f = [i \in CommSocks |-> socks[i].from]
  OBVIOUS
<1>3. \A i \in CommSocks : socks[i].from \in Boards /\ socks[i].from \in Numbers
  BY ListIs, ConstantsAre DEF CommSocks
<1>4. f \in [CommSocks -> NewTable] /\ \A i \in CommSocks : f[i] = socks[i].from
  BY <1>1, <1>2, <1>3 DEF NewTable
<1>5. f \in Injection(CommSocks, NewTable)
  BY <1>1, <1>4 DEF Injection, IsInjective
<1>6. f \in Surjection(CommSocks, NewTable)
  <2>1. \A k \in NewTable : \E i \in CommSocks : f[i] = k
    BY <1>1, <1>4 DEF NewTable
  <2>2. QED
    BY <1>4, <2>1 DEF Surjection
<1>7. ExistsBijection(CommSocks, NewTable)
  BY <1>5, <1>6 DEF ExistsBijection, Bijection
<1>8. Cardinality(NewTable) = Cardinality(CommSocks)
  BY <1>7, CommSocksAre, FS_Bijection
<1>9. ASSUME NEW k \in NewTable
      PROVE  k \in on
  BY <1>1 DEF NewTable, CommSocks, Connections, Present
<1>10. ASSUME NEW k \in on
       PROVE  k \in NewTable
  <2>1. PICK i \in DOMAIN socks : socks[i].from = k /\ socks[i].port = 0
    BY DEF Connections, Present, Held
  <2>2. i \in CommSocks /\ k \in Numbers
    BY <2>1, ListIs, ConstantsAre DEF CommSocks, Comm
  <2>3. QED
    BY <1>1, <2>1, <2>2 DEF NewTable
<1>11. QED
  BY <1>8, <1>9, <1>10

LEMMA UpdateCounts ==
  ASSUME TypeOK, Connections, Settled, Update
  PROVE  Counted'
<1>1. commFd' = NewCommFd /\ boardIdx' = NewBoardIdx
      /\ numBoards' = Cardinality(CommSocks)
  BY DEF Update, GetBoardInfo, Allocate, UpdateBoardGlobals, CommSocks
<1>2. InTable' = NewTable
  BY <1>1 DEF InTable, NewTable
<1>3. NewTable \subseteq Numbers
  BY DEF NewTable
<1>4. \A k \in NewTable :
        NewBoardIdx[k] = Cardinality({j \in 0..(k - 1) : j \in NewTable})
  <2> SUFFICES ASSUME NEW k \in NewTable
               PROVE  NewBoardIdx[k] = Cardinality({j \in 0..(k - 1) : j \in NewTable})
    OBVIOUS
  <2>1. \A j \in 0..(k - 1) : j \in Numbers
    BY <1>3, ConstantsAre DEF Numbers
  <2>2. {j \in 0..(k - 1) : j \in NewTable} = {j \in 0..(k - 1) : NewCommFd[j] # NoFd}
    BY <2>1 DEF NewTable
  <2>3. k \in Numbers /\ NewCommFd[k] # NoFd
    BY DEF NewTable
  <2>4. QED
    BY <2>2, <2>3, NewBoardIdxIs
<1>5. PICK rank : rank = NewBoardIdx
  OBVIOUS
<1>6. /\ \A j, k \in NewTable : rank[j] = rank[k] => j = k
      /\ \A k \in NewTable : rank[k] < Cardinality(NewTable)
  BY <1>3, <1>4, <1>5, Ranks
<1>7. Cardinality(NewTable) = Cardinality(CommSocks)
  BY NewTableIs
<1>8. QED
  BY <1>1, <1>2, <1>5, <1>6, <1>7 DEF Counted

LEMMA TablesKept ==
  ASSUME RegistryInv, [Next]_regVars
  PROVE  /\ trusted' => Tables'
         /\ trusted' /\ ~asking' => Counted'
<1>1. CASE UNCHANGED regVars
  <2>1. /\ UNCHANGED <<socks, commFd, numBoards, boardIdx, asking, inbox>>
        /\ UNCHANGED <<dialing, trusted>>
    BY <1>1 DEF regVars, tableVars, hpsVars
  <2>2. \A k \in Numbers : Entry(k)' <=> Entry(k)
    BY <2>1 DEF Entry, Comm
  <2>3. \A i \in DOMAIN socks : New(i)' <=> New(i)
    BY <2>1 DEF New
  <2>4. Tables => Tables'
    BY <2>1, <2>2, <2>3 DEF Tables, Comm
  <2>5. Counted => Counted'
    BY <2>1 DEF Counted, InTable
  <2>6. QED
    BY <2>1, <2>4, <2>5 DEF RegistryInv
<1>2. CASE OrderlyStep /\ UNCHANGED trusted
  <2> SUFFICES ASSUME trusted
               PROVE  Tables' /\ (~asking' => Counted')
    BY <1>2
  <2>1. TypeOK /\ Connections /\ Tables /\ (~asking => Counted)
    BY DEF RegistryInv
  <2>2. ASSUME UNCHANGED <<commFd, numBoards, boardIdx, asking>>
        PROVE  ~asking' => Counted'
    BY <2>1, <2>2 DEF Counted, InTable
  <2>3. ASSUME NEW b \in Boards, Join(b)
        PROVE  Tables' /\ (~asking' => Counted')
    BY <2>1, <2>2, <2>3, JoinTables DEF Join, Accept, tableVars
  <2>4. ASSUME NEW b \in Boards, Answer(b)
        PROVE  Tables' /\ (~asking' => Counted')
    BY <2>1, <2>2, <2>4, AnswerTables DEF Answer, tableVars
  <2>5. ASSUME NEW b \in Boards, Setup(b)
        PROVE  Tables' /\ (~asking' => Counted')
    BY <2>1, <2>2, <2>5, SetupTables DEF Setup, tableVars
  <2>6. ASSUME NEW b \in Boards, Dial(b)
        PROVE  Tables' /\ (~asking' => Counted')
    BY <2>1, <2>2, <2>6, DialTables DEF Dial, Accept, tableVars
  <2>7. ASSUME NEW i \in DOMAIN socks, Identify(i)
        PROVE  Tables' /\ (~asking' => Counted')
    <3>1. Tables' /\ (~asking => commFd' = commFd)
      BY <2>1, <2>7, IdentifyTables
    <3>2. UNCHANGED <<numBoards, boardIdx, asking>>
      BY <2>7 DEF Identify
    <3>3. QED
      BY <2>2, <3>1, <3>2
  <2>8. CASE QueryBoardInfo
    BY <2>1, <2>8, QueryTables DEF QueryBoardInfo
  <2>9. CASE Configure
    BY <2>1, <2>2, <2>9, ConfigureTables DEF Configure, tableVars
  <2>10. QED
    BY <1>2, <2>3, <2>4, <2>5, <2>6, <2>7, <2>8, <2>9 DEF OrderlyStep
<1>3. CASE DisorderlyStep /\ trusted' = FALSE
  BY <1>3
<1>4. CASE Update /\ trusted' = Settled
  BY <1>4, UpdateTables, UpdateCounts DEF RegistryInv
<1>5. QED
  BY <1>1, <1>2, <1>3, <1>4 DEF Next

-----------------------------------------------------------------------------
(* The theorems *)

LEMMA RegistryInit == Init => RegistryInv
<1> SUFFICES ASSUME Init
             PROVE  RegistryInv
  OBVIOUS
<1>1. /\ socks = <<>> /\ asking = FALSE /\ on = {} /\ leaves = 0 /\ trusted = TRUE
      /\ commFd = [k \in Numbers |-> NoFd] /\ boardIdx = [k \in Numbers |-> 0]
      /\ numBoards = 0 /\ inbox = [b \in Boards |-> <<>>]
      /\ dialing = [b \in Boards |-> {}]
  BY DEF Init
<1>2. DOMAIN socks = {} /\ socks \in Seq(Sock)
  BY <1>1
<1>3. TypeOK
  <2>1. inbox \in [Boards -> Seq({"info", "setup", "illegal"})]
    BY <1>1
  <2>2. 0 \in 0..MaxLeaves
    BY ConstantsAre
  <2>3. QED
    BY <1>1, <1>2, <2>1, <2>2 DEF TypeOK
<1>4. LeftFds = {} /\ Cardinality({}) = 0
  BY <1>2, FS_EmptySet DEF LeftFds
<1>5. FewLeft
  <2>1. PICK d \in Nat : d = DataPorts + 1
    BY ConstantsAre
  <2>2. 0 <= d * 0
    OBVIOUS
  <2>3. QED
    BY <1>1, <1>4, <2>1, <2>2 DEF FewLeft
<1>6. Connections
  BY <1>1, <1>2, <1>5 DEF Connections, OwnFds, OneEach, Present, Held, Numbered
<1>7. Tables
  BY <1>1, <1>2 DEF Tables
<1>8. Counted
  <2>1. InTable = {}
    BY <1>1 DEF InTable
  <2>2. QED
    BY <1>1, <1>4, <2>1 DEF Counted
<1>9. QED
  BY <1>3, <1>6, <1>7, <1>8 DEF RegistryInv

LEMMA RegistryStep ==
  ASSUME RegistryInv, [Next]_regVars
  PROVE  RegistryInv'
<1>1. TypeOK /\ Connections
  BY DEF RegistryInv
<1>2. TypeOK' /\ Connections'
  BY <1>1, ConnectionsKept
<1>3. /\ trusted' => Tables'
      /\ trusted' /\ ~asking' => Counted'
  BY TablesKept
<1>4. QED
  BY <1>2, <1>3 DEF RegistryInv

(* The invariant of the registry holds of every behaviour.                 *)
THEOREM RegistryCorrect == Spec => []RegistryInv
<1>1. Init => RegistryInv
  BY RegistryInit
<1>2. RegistryInv /\ [Next]_regVars => RegistryInv'
  BY RegistryStep
<1>3. QED
  BY <1>1, <1>2, PTL DEF Spec

(* The list, the tables and the boards' queues keep their types; there is  *)
(* always a descriptor for the next connection.                            *)
THEOREM TypeCorrect == Spec => []TypeOK
<1>1. RegistryInv => TypeOK
  BY DEF RegistryInv
<1>2. QED
  BY <1>1, RegistryCorrect, PTL

(* What is sent to the entry of a board in trusted tables reaches the comm *)
(* socket of that board or nobody, whoever has connected since.            *)
THEOREM EntriesAreTheBoards == Spec => []MessagesReachTheirBoard
<1>1. ASSUME RegistryInv
      PROVE  MessagesReachTheirBoard
  <2> SUFFICES ASSUME trusted, NEW k \in Boards, NEW i \in DOMAIN socks,
                      socks[i].alive, socks[i].fd = commFd[k]
               PROVE  Comm(socks[i]) /\ socks[i].from = k
    BY DEF MessagesReachTheirBoard
  <2>1. TypeOK /\ Connections /\ Tables
    BY <1>1 DEF RegistryInv
  <2>2. commFd[k] # NoFd /\ k \in Numbers
    BY <2>1, ListIs, ConstantsAre
  <2>3. PICK j \in DOMAIN socks : /\ Comm(socks[j]) /\ socks[j].from = k
                                  /\ socks[j].fd = commFd[k]
    BY <2>1, <2>2 DEF Tables, Entry
  <2>4. i = j
    BY <2>1, <2>3 DEF Connections, OwnFds
  <2>5. QED
    BY <2>3, <2>4
<1>2. QED
  BY <1>1, RegistryCorrect, PTL

(* While the tables are trusted, every data socket holds the number of the *)
(* board it comes from.                                                    *)
THEOREM DataIsStoredUnderItsBoard == Spec => []DataSocketsKnowTheirBoard
<1>1. RegistryInv => DataSocketsKnowTheirBoard
  BY DEF RegistryInv, Connections, Numbered, Tables, DataSocketsKnowTheirBoard
<1>2. QED
  BY <1>1, RegistryCorrect, PTL

(* Outside queryBoardInfo the entries of trusted tables are as many as     *)
(* g_numBoards and have the segments below it, one each.                   *)
THEOREM CountIsOfTheEntries == Spec => []QueriedBoardsAreCounted
<1>1. RegistryInv => QueriedBoardsAreCounted
  BY DEF RegistryInv, Counted, InTable, QueriedBoardsAreCounted
<1>2. QED
  BY <1>1, RegistryCorrect, PTL

(* An update with everybody there and identified puts exactly the boards   *)
(* that run in the table, whatever the tables were before.                 *)
THEOREM SettledUpdateRestores == Spec => UpdateRestores
<1>1. ASSUME RegistryInv, [Next]_regVars, Update, Settled
      PROVE  /\ numBoards' = Cardinality(on)
             /\ \A k \in Numbers : commFd'[k] # NoFd <=> k \in on
             /\ \A i \in DOMAIN socks : Comm(socks[i]) =>
                  commFd'[socks[i].from] = socks[i].fd
  <2>1. TypeOK /\ Connections
    BY <1>1 DEF RegistryInv
  <2>2. commFd' = NewCommFd /\ numBoards' = Cardinality(CommSocks)
    BY <1>1 DEF Update, GetBoardInfo, Allocate, UpdateBoardGlobals, CommSocks
  <2>3. Cardinality(NewTable) = Cardinality(CommSocks) /\ NewTable = on
    BY <1>1, <2>1, NewTableIs
  <2>4. \A i \in CommSocks : NewCommFd[socks[i].from] = socks[i].fd
    BY <1>1, <2>1, SettledSocks
  <2>5. QED
    BY <2>2, <2>3, <2>4 DEF NewTable, CommSocks
<1>2. RegistryInv /\ [Next]_regVars =>
        [Update /\ Settled =>
           /\ numBoards' = Cardinality(on)
           /\ \A k \in Numbers : commFd'[k] # NoFd <=> k \in on
           /\ \A i \in DOMAIN socks : Comm(socks[i]) =>
                commFd'[socks[i].from] = socks[i].fd]_regVars
  BY <1>1
<1>3. QED
  BY <1>2, RegistryCorrect, PTL DEF Spec, UpdateRestores

(* Unless a board has the number MAX_FPGAS, whose entry sendENETmsg leaves *)
(* out, a message for all the boards reaches every board in the table.     *)
THEOREM AllAreReached ==
  ASSUME MaxFpgas \notin Boards
  PROVE  Spec => MessagesForAllReachAll
<1>1. ASSUME RegistryInv, trusted, Configure, NEW b \in on, commFd[b] # NoFd
      PROVE  inbox'[b] # inbox[b]
  <2> DEFINE F == {commFd[k] : k \in 0..(MaxFpgas - 1)} \ {NoFd}
  <2>1. TypeOK /\ Connections /\ Tables
    BY <1>1 DEF RegistryInv
  <2>2. b \in Boards /\ b \in Numbers /\ b \in 0..(MaxFpgas - 1)
    <3>1. b \in Boards /\ b \in Numbers /\ b # MaxFpgas
      BY <2>1, ConstantsAre DEF TypeOK
    <3>2. QED
      BY <3>1, ConstantsAre DEF Numbers
  <2>3. PICK i \in DOMAIN socks : Comm(socks[i]) /\ socks[i].from = b
                                  /\ socks[i].fd = commFd[b]
    BY <1>1, <2>1, <2>2 DEF Tables, Entry
  <2>4. socks[i].alive /\ socks[i].fd \in F
    BY <1>1, <2>1, <2>2, <2>3 DEF Tables
  <2>5. Deliver(F, "setup") /\ "setup" \in Messages
    BY <1>1 DEF Configure, SendToAll, Messages
  <2> HIDE DEF F
  <2>6. PICK a \in {<<"setup">>, <<"illegal">>} : a = Reaches(b, F, "setup")
    BY <2>3, <2>4 DEF Reaches
  <2>7. PICK q \in Seq(Messages) : q = inbox[b]
    BY <2>1, <2>2 DEF TypeOK, Messages
  <2>8. inbox'[b] = q \o a
    BY <2>1, <2>2, <2>5, <2>6, <2>7, DeliverIs
  <2>9. q \o a # q
    <3>1. PICK x \in {"setup", "illegal"} : a = <<x>>
      OBVIOUS
    <3>2. Len(q \o <<x>>) = Len(q) + 1 /\ Len(q) \in Nat
      BY <2>7
    <3>3. QED
      BY <3>1, <3>2
  <2>10. QED
    BY <2>7, <2>8, <2>9
<1>2. RegistryInv /\ [Next]_regVars =>
        [trusted /\ Configure =>
           \A b \in on : commFd[b] # NoFd => inbox'[b] # inbox[b]]_regVars
  BY <1>1
<1>3. QED
  BY <1>2, RegistryCorrect, PTL DEF Spec, MessagesForAllReachAll
=============================================================================
