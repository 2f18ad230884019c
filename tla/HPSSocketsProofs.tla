--------------------------- MODULE HPSSocketsProofs ---------------------------
(***************************************************************************)
(* A board's socket table, for any number of ports: whatever record        *)
(* lengths it is given and whichever connections the server closes, the    *)
(* comm socket stays heard and select sees open descriptors only; and no   *)
(* descriptor is shared until a record needs fewer ports.                  *)
(***************************************************************************)
EXTENDS HPSSockets, Integers, FiniteSetTheorems, TLAPS

-----------------------------------------------------------------------------
(* The invariant *)

(* What the table and the kernel keep to with any record lengths.  An      *)
(* active port may be left with descriptor 0, which the console or another *)
(* port may have; every other descriptor has one owner, which knows it.    *)
InChain(t) == \A p \in AllPorts : t.active[p] => p <= t.last
IdleHasNone(t) == \A p \in AllPorts : ~t.active[p] => t.fd[p] = Stdin
ActiveOwns(t) ==
  \A p \in AllPorts : t.active[p] /\ t.fd[p] # Stdin => t.owner[t.fd[p]] = p
OwnerHolds(t) ==
  \A f \in Fds : t.owner[f] \in AllPorts =>
                   t.active[t.owner[f]] /\ t.fd[t.owner[f]] = f
OneConsole(t) == \A f \in Fds : t.owner[f] = Console => f = Stdin
WatchedOwned(t) ==
  \A f \in t.watched : t.owner[f] \in AllPorts /\ f <= t.maxfd
Sound(t) == /\ t \in Table
            /\ InChain(t) /\ IdleHasNone(t) /\ ActiveOwns(t) /\ OwnerHolds(t)
            /\ OneConsole(t) /\ WatchedOwned(t)

(* The comm socket, which nothing closes.                                  *)
Heard(t) == t.active[0] /\ t.fd[0] # Stdin /\ t.fd[0] \in t.watched

(* Until 0 is closed, no active port is without a descriptor of its own.   *)
Proper(t) == /\ t.owner[Stdin] = Console
             /\ \A p \in AllPorts : t.active[p] => t.fd[p] # Stdin

(* The chain is lost when it is to grow while the head is not at its end.  *)
SocketInv ==
  /\ TypeOK /\ Sound(table) /\ Heard(table)
  /\ ~shrunk => /\ Proper(table) /\ table.head = table.last
                /\ table.last <= numPorts /\ up # "chain lost"

-----------------------------------------------------------------------------
(* Numbers *)

Less == {ss \in Nat \X Nat : ss[1] < ss[2]}

LEMMA LeastNumber ==
  ASSUME NEW S \in SUBSET Nat, S # {}
  PROVE  \E m \in S : \A n \in S : m <= n
<1>1. IsWellFoundedOn(Less, Nat)
  BY NatLessThanWellFounded, Zenon DEF OpToRel, Less
<1>2. PICK m \in S : \A n \in S : <<n, m>> \notin Less
  BY <1>1, WFMin
<1>3. ASSUME NEW n \in S
      PROVE  m <= n
  <2>1. m \in Nat /\ n \in Nat /\ <<n, m>> \notin Less
    BY <1>2
  <2>2. ASSUME n < m
        PROVE  <<n, m>> \in Less
    BY <2>1, <2>2 DEF Less
  <2>3. QED
    BY <2>1, <2>2
<1>4. QED
  BY <1>3

LEMMA MinIs ==
  ASSUME NEW S \in SUBSET Nat, S # {}
  PROVE  Min(S) \in S /\ \A n \in S : Min(S) <= n
<1>1. \E m \in S : \A n \in S : m <= n
  BY LeastNumber
<1>2. QED
  BY <1>1 DEF Min

LEMMA MaxIs ==
  ASSUME NEW b \in Nat, NEW S \in SUBSET (0..b), S # {}
  PROVE  Max(S) \in S /\ \A n \in S : n <= Max(S)
<1> DEFINE T == {b - n : n \in S}
<1>1. T \in SUBSET Nat /\ T # {}
  OBVIOUS
<1>2. PICK d \in T : \A e \in T : d <= e
  BY <1>1, LeastNumber
<1>3. PICK m \in S : d = b - m
  BY <1>2
<1>4. ASSUME NEW n \in S
      PROVE  m >= n
  <2>1. b - m <= b - n
    BY <1>2, <1>3
  <2>2. m \in 0..b /\ n \in 0..b
    OBVIOUS
  <2>3. QED
    BY <2>1, <2>2
<1>5. \E k \in S : \A n \in S : k >= n
  BY <1>4
<1>6. PICK k \in S : k = Max(S) /\ \A n \in S : k >= n
  BY <1>5 DEF Max
<1>7. QED
  BY <1>6

LEMMA NumbersAre ==
  /\ MaxPorts \in Nat \ {0}
  /\ AllPorts \subseteq Nat /\ 0 \in AllPorts /\ 1..MaxPorts \subseteq AllPorts
  /\ Fds \subseteq Nat /\ Stdin \in Fds /\ Stdin = 0
  /\ Free \notin AllPorts /\ Console \notin AllPorts /\ Free # Console
  /\ AllPorts \subseteq 0..Console /\ Free \in 0..Console /\ Console \in 0..Console
<1>1. MaxPorts \in Nat \ {0}
  BY MaxPortsAssumption
<1>2. QED
  BY <1>1 DEF AllPorts, Fds, Stdin, FirstFd, Free, Console

-----------------------------------------------------------------------------
(* Descriptors *)

Kernels == FirstFd..(FirstFd + MaxPorts)

(* With a port idle there are fewer owners than descriptors.               *)
LEMMA NewFdIs ==
  ASSUME NEW t, Sound(t), NEW p \in AllPorts, ~t.active[p]
  PROVE  NewFd(t) \in Fds /\ t.owner[NewFd(t)] = Free
<1> DEFINE S == {f \in Fds : t.owner[f] = Free}
           Others == AllPorts \ {p}
<1>1. t.owner \in [Fds -> 0..Console] /\ Kernels \subseteq Fds /\ Stdin \notin Kernels
  BY NumbersAre DEF Sound, Table, Kernels, Fds, FirstFd, Stdin
<1>2. ASSUME S = {}
      PROVE  FALSE
  <2>1. ASSUME NEW f \in Kernels
        PROVE  t.owner[f] \in Others
    <3>1. f \in Fds /\ t.owner[f] # Free /\ t.owner[f] # Console
      BY <1>1, <1>2 DEF Sound, OneConsole
    <3>2. t.owner[f] \in 0..Console
      BY <1>1, <3>1
    <3>3. t.owner[f] \in AllPorts
      BY <3>1, <3>2, NumbersAre DEF AllPorts, Free, Console
    <3>4. t.active[t.owner[f]]
      BY <3>1, <3>3 DEF Sound, OwnerHolds
    <3>5. QED
      BY <3>3, <3>4
  <2>2. PICK g : g = [f \in Kernels |-> t.owner[f]]
    OBVIOUS
  <2>3. g \in [Kernels -> Others] /\ \A f \in Kernels : g[f] = t.owner[f]
    BY <2>1, <2>2
  <2>4. ASSUME NEW e \in Kernels, NEW f \in Kernels, g[e] = g[f]
        PROVE  e = f
    <3>1. e \in Fds /\ f \in Fds /\ t.owner[e] = t.owner[f]
      BY <1>1, <2>3, <2>4
    <3>2. t.owner[e] \in AllPorts /\ t.owner[f] \in AllPorts
      BY <2>1
    <3>3. t.fd[t.owner[e]] = e /\ t.fd[t.owner[f]] = f
      BY <3>1, <3>2 DEF Sound, OwnerHolds
    <3>4. QED
      BY <3>1, <3>3
  <2> HIDE DEF Others
  <2>5. g \in Injection(Kernels, Others)
    BY <2>3, <2>4 DEF Injection, IsInjective
  <2>6. IsFiniteSet(AllPorts) /\ Cardinality(AllPorts) = MaxPorts + 1
    <3>1. PICK M \in Int : M = MaxPorts /\ M >= 0
      BY NumbersAre
    <3>2. /\ IsFiniteSet(0..M)
          /\ Cardinality(0..M) = IF 0 > M THEN 0 ELSE M - 0 + 1
      BY FS_Interval
    <3>3. QED
      BY <3>1, <3>2 DEF AllPorts
  <2>7. IsFiniteSet(Kernels) /\ Cardinality(Kernels) = MaxPorts + 1
    <3>1. PICK a \in Int, b \in Int :
            a = FirstFd /\ b = FirstFd + MaxPorts /\ b - a = MaxPorts /\ b >= a
      BY NumbersAre DEF FirstFd
    <3>2. /\ IsFiniteSet(a..b)
          /\ Cardinality(a..b) = IF a > b THEN 0 ELSE b - a + 1
      BY FS_Interval
    <3>3. QED
      BY <3>1, <3>2 DEF Kernels
  <2>8. IsFiniteSet(Others) /\ Cardinality(Others) = MaxPorts
    <3>1. /\ IsFiniteSet(AllPorts \ {p})
          /\ Cardinality(AllPorts \ {p}) = Cardinality(AllPorts) - 1
      BY <2>6, FS_RemoveElement
    <3>2. QED
      BY <2>6, <3>1, NumbersAre DEF Others
  <2>9. Cardinality(Kernels) <= Cardinality(Others)
    BY <2>5, <2>8, FS_Injection
  <2>10. QED
    BY <2>7, <2>8, <2>9, NumbersAre
<1>3. S \in SUBSET Nat
  BY NumbersAre
<1>4. Min(S) \in S
  <2> HIDE DEF S
  <2>1. QED
    BY <1>2, <1>3, MinIs
<1>5. QED
  BY <1>4 DEF NewFd

-----------------------------------------------------------------------------
(* Connecting and disconnecting *)

Idle(t, p) == ~t.active[p] /\ p <= t.last

(* What connectEnetSock leaves, with f for the new descriptor.             *)
Connected(t, u, p, f) ==
  /\ u.last = t.last
  /\ u.fd = [t.fd EXCEPT ![p] = f] /\ u.active = [t.active EXCEPT ![p] = TRUE]
  /\ u.owner = [t.owner EXCEPT ![f] = p] /\ u.watched = t.watched \cup {f}
  /\ u.head \in p..t.last /\ u.active[u.head]
  /\ \A q \in p..t.last : u.active[q] => q <= u.head
  /\ \A q \in 0..(p - 1) : u.fd[q] <= u.maxfd
  /\ \A q \in p..t.last : u.active[q] => u.fd[q] <= u.maxfd

LEMMA ConnectIs ==
  ASSUME NEW t \in Table, NEW p \in AllPorts, p <= t.last, NewFd(t) \in Fds
  PROVE  Connected(t, Connect(t, p), p, NewFd(t)) /\ Connect(t, p) \in Table
<1> DEFINE f == NewFd(t)
           fd == [t.fd EXCEPT ![p] = f]
           on == [t.active EXCEPT ![p] = TRUE]
           from == {q \in p..t.last : on[q]}
           H == Max(from)
           M == Max({fd[q] : q \in 0..(p - 1) \cup from})
           u == Connect(t, p)
<1>1. /\ t.last \in AllPorts /\ t.head \in AllPorts /\ t.fd \in [AllPorts -> Fds]
      /\ t.active \in [AllPorts -> BOOLEAN] /\ t.owner \in [Fds -> 0..Console]
      /\ t.watched \in SUBSET Fds /\ t.maxfd \in Fds
  BY DEF Table
<1>2. /\ fd \in [AllPorts -> Fds] /\ on \in [AllPorts -> BOOLEAN]
      /\ [t.owner EXCEPT ![f] = p] \in [Fds -> 0..Console] /\ on[p]
  BY <1>1, NumbersAre
<1>3. p..t.last \subseteq AllPorts /\ 0..(p - 1) \subseteq AllPorts /\ p \in p..t.last
  BY <1>1, NumbersAre DEF AllPorts
<1>4. p \in from /\ from \in SUBSET (0..MaxPorts)
  BY <1>2, <1>3 DEF AllPorts
<1> HIDE DEF on
<1>5. H \in from /\ \A q \in from : q <= H
  <2> HIDE DEF from
  <2>1. QED
    BY <1>4, MaxIs, NumbersAre
<1>6. M \in Fds /\ \A q \in 0..(p - 1) \cup from : fd[q] <= M
  <2> DEFINE S == {fd[q] : q \in 0..(p - 1) \cup from}
             b == FirstFd + MaxPorts
  <2>1. S \subseteq Fds /\ S # {}
    BY <1>2, <1>3, <1>4 DEF AllPorts
  <2>2. Fds \subseteq 0..b /\ b \in Nat
    BY NumbersAre DEF Fds, FirstFd, Stdin
  <2>3. Max(S) \in S /\ \A n \in S : n <= Max(S)
    <3> HIDE DEF S, b
    <3>1. S \in SUBSET (0..b)
      BY <2>1, <2>2
    <3>2. QED
      BY <2>1, <2>2, <3>1, MaxIs
  <2>4. QED
    BY <2>1, <2>3
<1> HIDE DEF f, fd, from, H, M
<1>7. u = [t EXCEPT !.fd = fd, !.active = on, !.owner = [t.owner EXCEPT ![f] = p],
                    !.watched = t.watched \cup {f}, !.head = H, !.maxfd = M]
  BY DEF Connect, f, fd, on, from, H, M
<1>8. /\ u.last = t.last /\ u.fd = fd /\ u.active = on
      /\ u.owner = [t.owner EXCEPT ![f] = p] /\ u.watched = t.watched \cup {f}
      /\ u.head = H /\ u.maxfd = M
  BY <1>7 DEF Table
<1> HIDE DEF u
<1>9. H \in AllPorts /\ H \in p..t.last /\ on[H]
  BY <1>3, <1>5 DEF from
<1>10. u \in Table
  <2>1. f \in Fds
    BY DEF f
  <2>2. QED
    BY <1>1, <1>2, <1>6, <1>7, <1>9, <2>1 DEF Table
<1>11. Connected(t, u, p, f)
  <2>1. \A q \in p..t.last : on[q] => q <= H /\ fd[q] <= M
    BY <1>5, <1>6 DEF from
  <2>2. QED
    BY <1>6, <1>8, <1>9, <2>1 DEF Connected, fd, on
<1>12. QED
  BY <1>10, <1>11 DEF u, f

(* A free descriptor goes to a port that was idle.                         *)
LEMMA ConnectedSound ==
  ASSUME NEW t, Sound(t), NEW p \in AllPorts, Idle(t, p),
         NEW f \in Fds, t.owner[f] = Free, NEW u \in Table, Connected(t, u, p, f)
  PROVE  Sound(u)
<1>1. /\ t.last \in AllPorts /\ t.fd \in [AllPorts -> Fds]
      /\ t.active \in [AllPorts -> BOOLEAN] /\ t.owner \in [Fds -> 0..Console]
      /\ t.watched \in SUBSET Fds
  BY DEF Sound, Table
<1>2. /\ u.last = t.last /\ u.active[p] /\ u.fd[p] = f /\ u.owner[f] = p
      /\ \A q \in AllPorts : q # p => u.active[q] = t.active[q] /\ u.fd[q] = t.fd[q]
      /\ \A g \in Fds : g # f => u.owner[g] = t.owner[g]
      /\ u.watched = t.watched \cup {f}
  BY <1>1 DEF Connected
<1>3. InChain(u)
  BY <1>2 DEF Idle, Sound, InChain
<1>4. IdleHasNone(u)
  BY <1>2 DEF Sound, IdleHasNone
<1>5. ActiveOwns(u)
  <2> SUFFICES ASSUME NEW q \in AllPorts, u.active[q], u.fd[q] # Stdin
               PROVE  u.owner[u.fd[q]] = q
    BY DEF ActiveOwns
  <2>1. CASE q = p
    BY <1>2, <2>1
  <2>2. CASE q # p
    <3>1. t.owner[t.fd[q]] = q
      BY <1>2, <2>2 DEF Sound, ActiveOwns
    <3>2. t.fd[q] # f /\ t.fd[q] \in Fds
      BY <1>1, <3>1, NumbersAre
    <3>3. QED
      BY <1>2, <2>2, <3>1, <3>2
  <2>3. QED
    BY <2>1, <2>2
<1>6. OwnerHolds(u)
  <2> SUFFICES ASSUME NEW g \in Fds, u.owner[g] \in AllPorts
               PROVE  u.active[u.owner[g]] /\ u.fd[u.owner[g]] = g
    BY DEF OwnerHolds
  <2>1. CASE g = f
    BY <1>2, <2>1
  <2>2. CASE g # f
    <3>1. u.owner[g] = t.owner[g]
      BY <1>2, <2>2
    <3>2. t.active[t.owner[g]] /\ t.fd[t.owner[g]] = g
      BY <3>1 DEF Sound, OwnerHolds
    <3>3. t.owner[g] # p
      BY <3>2 DEF Idle
    <3>4. QED
      BY <1>2, <3>1, <3>2, <3>3
  <2>3. QED
    BY <2>1, <2>2
<1>7. OneConsole(u)
  <2>1. p # Console
    BY NumbersAre
  <2>2. QED
    BY <1>2, <2>1 DEF Sound, OneConsole
<1>8. WatchedOwned(u)
  <2> SUFFICES ASSUME NEW g \in u.watched
               PROVE  u.owner[g] \in AllPorts /\ g <= u.maxfd
    BY DEF WatchedOwned
  <2>1. g \in Fds /\ u.owner[g] \in AllPorts
    <3>1. CASE g = f
      BY <1>2, <3>1
    <3>2. CASE g # f
      BY <1>1, <1>2, <3>2 DEF Sound, WatchedOwned
    <3>3. QED
      BY <3>1, <3>2
  <2>2. PICK q \in AllPorts : q = u.owner[g] /\ u.active[q] /\ u.fd[q] = g
    BY <1>6, <2>1 DEF OwnerHolds
  <2>3. q <= t.last
    BY <1>2, <1>3, <2>2 DEF InChain
  <2>4. q \in 0..(p - 1) \/ q \in p..t.last
    BY <1>1, <2>3, NumbersAre
  <2>5. g <= u.maxfd
    BY <2>2, <2>4 DEF Connected
  <2>6. QED
    BY <2>1, <2>5
<1>9. QED
  BY <1>3, <1>4, <1>5, <1>6, <1>7, <1>8 DEF Sound

LEMMA ConnectedKeeps ==
  ASSUME NEW t, Sound(t), NEW p \in AllPorts, Idle(t, p),
         NEW f \in Fds, t.owner[f] = Free, NEW u \in Table, Connected(t, u, p, f)
  PROVE  /\ Heard(t) => Heard(u)
         /\ Proper(t) => Proper(u)
         /\ u.active[u.last] => u.head = u.last
<1>1. /\ t.last \in AllPorts /\ t.fd \in [AllPorts -> Fds]
      /\ t.active \in [AllPorts -> BOOLEAN] /\ t.owner \in [Fds -> 0..Console]
      /\ t.watched \in SUBSET Fds
  BY DEF Sound, Table
<1>2. /\ u.last = t.last /\ u.active[p] /\ u.fd[p] = f /\ u.owner[f] = p
      /\ \A q \in AllPorts : q # p => u.active[q] = t.active[q] /\ u.fd[q] = t.fd[q]
      /\ \A g \in Fds : g # f => u.owner[g] = t.owner[g]
      /\ u.watched = t.watched \cup {f}
  BY <1>1 DEF Connected
<1>3. Heard(t) => Heard(u)
  <2>1. Heard(t) => p # 0
    BY DEF Heard, Idle
  <2>2. QED
    BY <1>2, <2>1, NumbersAre DEF Heard
<1>4. ASSUME Proper(t)
      PROVE  Proper(u)
  <2>1. f # Stdin
    BY <1>4, NumbersAre DEF Proper
  <2>2. u.owner[Stdin] = Console
    BY <1>2, <1>4, <2>1, NumbersAre DEF Proper
  <2>3. \A q \in AllPorts : u.active[q] => u.fd[q] # Stdin
    BY <1>2, <1>4, <2>1 DEF Proper
  <2>4. QED
    BY <2>2, <2>3 DEF Proper
<1>5. ASSUME u.active[u.last]
      PROVE  u.head = u.last
  <2>1. t.last \in p..t.last /\ t.last \in Nat
    <3>1. PICK l \in Nat, q \in Nat : l = t.last /\ q = p /\ q <= l
      BY <1>1, NumbersAre DEF Idle
    <3>2. l \in q..l
      BY <3>1
    <3>3. QED
      BY <3>1, <3>2
  <2>2. t.last <= u.head /\ u.head \in p..t.last
    BY <1>2, <1>5, <2>1 DEF Connected
  <2>3. QED
    BY <1>2, <2>1, <2>2, NumbersAre
<1>6. QED
  BY <1>3, <1>4, <1>5

(* What closing the sockets of some ports leaves.                          *)
Closed(t, P) == {t.fd[p] : p \in P}
Disconnected(t, u, P) ==
  /\ u.last = t.last /\ u.head = t.head /\ u.maxfd = t.maxfd
  /\ u.fd = [p \in AllPorts |-> IF p \in P THEN 0 ELSE t.fd[p]]
  /\ u.active = [p \in AllPorts |-> p \notin P /\ t.active[p]]
  /\ u.owner = [f \in Fds |-> IF f \in Closed(t, P) THEN Free ELSE t.owner[f]]
  /\ u.watched = t.watched \ Closed(t, P)

LEMMA DisconnectIs ==
  ASSUME NEW t \in Table, NEW P
  PROVE  Disconnected(t, Disconnect(t, P), P) /\ Disconnect(t, P) \in Table
<1> DEFINE fd == [p \in AllPorts |-> IF p \in P THEN 0 ELSE t.fd[p]]
           on == [p \in AllPorts |-> p \notin P /\ t.active[p]]
           ow == [f \in Fds |-> IF f \in Closed(t, P) THEN Free ELSE t.owner[f]]
           u == Disconnect(t, P)
<1>1. /\ t.last \in AllPorts /\ t.head \in AllPorts /\ t.fd \in [AllPorts -> Fds]
      /\ t.active \in [AllPorts -> BOOLEAN] /\ t.owner \in [Fds -> 0..Console]
      /\ t.watched \in SUBSET Fds /\ t.maxfd \in Fds
  BY DEF Table
<1>2. /\ fd \in [AllPorts -> Fds] /\ on \in [AllPorts -> BOOLEAN]
      /\ ow \in [Fds -> 0..Console]
  <2>1. fd \in [AllPorts -> Fds]
    BY <1>1, NumbersAre
  <2>2. on \in [AllPorts -> BOOLEAN]
    BY <1>1
  <2>3. ow \in [Fds -> 0..Console]
    BY <1>1, NumbersAre
  <2>4. QED
    BY <2>1, <2>2, <2>3
<1>3. u = [t EXCEPT !.owner = ow, !.watched = t.watched \ Closed(t, P),
                    !.fd = fd, !.active = on]
  BY DEF Disconnect, Closed
<1> HIDE DEF fd, on, ow, u
<1>4. /\ u.last = t.last /\ u.head = t.head /\ u.maxfd = t.maxfd
      /\ u.fd = fd /\ u.active = on /\ u.owner = ow
      /\ u.watched = t.watched \ Closed(t, P)
  BY <1>3 DEF Table
<1>5. u \in Table
  BY <1>1, <1>2, <1>3 DEF Table
<1>6. Disconnected(t, u, P)
  BY <1>4 DEF Disconnected, fd, on, ow
<1>7. QED
  BY <1>5, <1>6 DEF u

(* Closing the sockets of data ports, connected or not, takes none from    *)
(* another port, but for descriptor 0.                                     *)
LEMMA DisconnectKeeps ==
  ASSUME NEW t, Sound(t), NEW P \in SUBSET (1..MaxPorts),
         NEW u, u = Disconnect(t, P)
  PROVE  /\ Sound(u) /\ u.last = t.last /\ u.head = t.head
         /\ \A p \in AllPorts : u.active[p] <=> p \notin P /\ t.active[p]
         /\ Heard(t) => Heard(u)
         /\ Proper(t) /\ (\A p \in P : t.active[p]) => Proper(u)
<1>1. /\ t.last \in AllPorts /\ t.fd \in [AllPorts -> Fds]
      /\ t.active \in [AllPorts -> BOOLEAN] /\ t.owner \in [Fds -> 0..Console]
      /\ t.watched \in SUBSET Fds
  BY DEF Sound, Table
<1>2. u \in Table /\ Disconnected(t, u, P)
  BY DisconnectIs DEF Sound
<1>3. /\ u.last = t.last /\ u.head = t.head /\ u.maxfd = t.maxfd
      /\ \A p \in AllPorts : u.fd[p] = IF p \in P THEN Stdin ELSE t.fd[p]
      /\ \A p \in AllPorts : u.active[p] <=> p \notin P /\ t.active[p]
      /\ \A f \in Fds : u.owner[f] = IF f \in Closed(t, P) THEN Free ELSE t.owner[f]
      /\ u.watched = t.watched \ Closed(t, P)
  BY <1>1, <1>2, NumbersAre DEF Disconnected
<1>4. P \subseteq AllPorts /\ 0 \notin P
  BY NumbersAre
<1>5. ASSUME NEW p \in AllPorts, t.active[p], t.fd[p] # Stdin, p \notin P
      PROVE  t.fd[p] \notin Closed(t, P) /\ t.owner[t.fd[p]] = p
  <2>1. t.owner[t.fd[p]] = p
    BY <1>5 DEF Sound, ActiveOwns
  <2>2. ASSUME NEW q \in P, t.fd[q] = t.fd[p]
        PROVE  FALSE
    <3>1. t.active[q]
      BY <1>4, <1>5, <2>2 DEF Sound, IdleHasNone
    <3>2. t.owner[t.fd[q]] = q
      BY <1>4, <1>5, <2>2, <3>1 DEF Sound, ActiveOwns
    <3>3. QED
      BY <1>5, <2>1, <2>2, <3>2
  <2>3. QED
    BY <2>1, <2>2 DEF Closed
<1>6. Sound(u)
  <2>1. InChain(u)
    BY <1>3 DEF Sound, InChain
  <2>2. IdleHasNone(u)
    BY <1>3 DEF Sound, IdleHasNone
  <2>3. ActiveOwns(u)
    <3> SUFFICES ASSUME NEW p \in AllPorts, u.active[p], u.fd[p] # Stdin
                 PROVE  u.owner[u.fd[p]] = p
      BY DEF ActiveOwns
    <3>1. p \notin P /\ t.active[p] /\ u.fd[p] = t.fd[p] /\ t.fd[p] \in Fds
      BY <1>1, <1>3
    <3>2. QED
      BY <1>3, <1>5, <3>1
  <2>4. OwnerHolds(u)
    <3> SUFFICES ASSUME NEW f \in Fds, u.owner[f] \in AllPorts
                 PROVE  u.active[u.owner[f]] /\ u.fd[u.owner[f]] = f
      BY DEF OwnerHolds
    <3>1. f \notin Closed(t, P) /\ u.owner[f] = t.owner[f]
      BY <1>3, NumbersAre
    <3>2. t.active[t.owner[f]] /\ t.fd[t.owner[f]] = f
      BY <3>1 DEF Sound, OwnerHolds
    <3>3. t.owner[f] \notin P
      BY <3>1, <3>2 DEF Closed
    <3>4. QED
      BY <1>3, <3>1, <3>2, <3>3
  <2>5. OneConsole(u)
    BY <1>3, NumbersAre DEF Sound, OneConsole
  <2>6. WatchedOwned(u)
    BY <1>1, <1>3 DEF Sound, WatchedOwned
  <2>7. QED
    BY <1>2, <2>1, <2>2, <2>3, <2>4, <2>5, <2>6 DEF Sound
<1>7. ASSUME Heard(t)
      PROVE  Heard(u)
  <2>1. 0 \in AllPorts /\ 0 \notin P /\ t.active[0] /\ t.fd[0] # Stdin
    BY <1>4, <1>7, NumbersAre DEF Heard
  <2>2. t.fd[0] \notin Closed(t, P)
    BY <1>5, <2>1
  <2>3. QED
    BY <1>3, <1>7, <2>1, <2>2 DEF Heard
<1>8. ASSUME Proper(t), \A p \in P : t.active[p]
      PROVE  Proper(u)
  <2>1. Stdin \notin Closed(t, P)
    BY <1>4, <1>8 DEF Proper, Closed
  <2>2. QED
    BY <1>3, <1>8, <2>1, NumbersAre DEF Proper
<1>9. QED
  BY <1>3, <1>6, <1>7, <1>8

-----------------------------------------------------------------------------
(* The loop that connects *)

(* The table after each turn of the loop, which there is for any n.        *)
Turns(c, t, n) ==
  c = [p \in 0..n |-> IF p = 0 THEN t ELSE ConnectIfIdle(c[p - 1], p)]

LEMMA TurnsExtend ==
  ASSUME NEW t, NEW n \in Nat, NEW c, Turns(c, t, n)
  PROVE  \E d : Turns(d, t, n + 1)
<1>1. PICK d : d = [p \in 0..(n + 1) |->
                      IF p = n + 1 THEN ConnectIfIdle(c[n], p) ELSE c[p]]
  OBVIOUS
<1>2. \A p \in 0..n : c[p] = IF p = 0 THEN t ELSE ConnectIfIdle(c[p - 1], p)
  BY DEF Turns
<1>3. (\A p \in 0..n : d[p] = c[p]) /\ d[n + 1] = ConnectIfIdle(c[n], n + 1)
  BY <1>1
<1>4. ASSUME NEW p \in 0..(n + 1)
      PROVE  d[p] = IF p = 0 THEN t ELSE ConnectIfIdle(d[p - 1], p)
  <2>1. CASE p = n + 1
    <3>1. p - 1 = n /\ n \in 0..n /\ p # 0
      BY <2>1
    <3>2. QED
      BY <1>3, <2>1, <3>1
  <2>2. CASE p \in 0..n /\ p # 0
    <3>1. p - 1 \in 0..n
      BY <2>2
    <3>2. QED
      BY <1>2, <1>3, <2>2, <3>1
  <2>3. CASE p = 0
    <3>1. 0 \in 0..n
      OBVIOUS
    <3>2. QED
      BY <1>2, <1>3, <2>3, <3>1
  <2>4. QED
    BY <2>1, <2>2, <2>3
<1>5. d = [p \in 0..(n + 1) |-> d[p]]
  BY <1>1
<1>6. Turns(d, t, n + 1)
  BY <1>4, <1>5 DEF Turns
<1>7. QED
  BY <1>6

LEMMA TurnsExist ==
  ASSUME NEW t, NEW n \in Nat
  PROVE  \E c : Turns(c, t, n)
<1> DEFINE S == {k \in Nat : ~ \E c : Turns(c, t, k)}
<1>1. ASSUME S # {}
      PROVE  FALSE
  <2>1. S \in SUBSET Nat
    OBVIOUS
  <2>2. PICK k \in S : \A m \in S : k <= m
    <3> HIDE DEF S
    <3>1. QED
      BY <1>1, <2>1, LeastNumber
  <2>3. k \in Nat /\ ~ \E c : Turns(c, t, k)
    OBVIOUS
  <2>4. CASE k = 0
    <3>1. PICK c : c = [p \in 0..0 |-> t]
      OBVIOUS
    <3>2. c = [p \in 0..0 |-> IF p = 0 THEN t ELSE ConnectIfIdle(c[p - 1], p)]
      BY <3>1
    <3>3. Turns(c, t, 0)
      BY <3>2 DEF Turns
    <3>4. QED
      BY <2>3, <2>4, <3>3
  <2>5. CASE k # 0
    <3>1. PICK m \in Nat : m = k - 1 /\ k = m + 1
      BY <2>3, <2>5
    <3>2. m \notin S
      BY <2>2, <3>1
    <3>3. PICK c : Turns(c, t, m)
      BY <3>2
    <3>4. \E d : Turns(d, t, m + 1)
      BY <3>3, TurnsExtend
    <3>5. QED
      BY <2>3, <3>1, <3>4
  <2>6. QED
    BY <2>4, <2>5
<1>2. QED
  BY <1>1

LEMMA ConnectIdleIs ==
  ASSUME NEW t, NEW n \in Nat
  PROVE  \E c : Turns(c, t, n) /\ ConnectIdle(t, n) = c[n]
<1> DEFINE upTo[p \in 0..n] == IF p = 0 THEN t ELSE ConnectIfIdle(upTo[p - 1], p)
<1>1. ConnectIdle(t, n) = upTo[n]
  BY DEF ConnectIdle
<1>2. upTo = CHOOSE c : Turns(c, t, n)
  BY DEF Turns
<1> HIDE DEF upTo
<1>3. \E c : Turns(c, t, n)
  BY TurnsExist
<1>4. Turns(upTo, t, n)
  BY <1>2, <1>3
<1>5. QED
  BY <1>1, <1>4

(* What holds of the table t when u is what the first k turns make of it.  *)
Reached(t, u, k) ==
  /\ Sound(u) /\ u.last = t.last /\ Heard(u)
  /\ \A p \in AllPorts : u.active[p] <=> t.active[p] \/ p \in 1..k
  /\ Proper(t) => Proper(u)
  /\ t.head = t.last /\ u.active[u.last] => u.head = u.last

LEMMA OneTurn ==
  ASSUME NEW t, NEW k \in Nat, NEW u, Reached(t, u, k),
         k + 1 \in AllPorts, k + 1 <= t.last
  PROVE  Reached(t, ConnectIfIdle(u, k + 1), k + 1)
<1>1. PICK p : p = k + 1 /\ p \in AllPorts /\ p <= u.last
  BY DEF Reached
<1>2. \A q \in AllPorts : q \in 1..p <=> q = p \/ q \in 1..k
  BY <1>1, NumbersAre
<1>3. Sound(u) /\ Heard(u) /\ u \in Table
  BY DEF Reached, Sound
<1>4. CASE u.active[p]
  <2>1. ConnectIfIdle(u, p) = u
    BY <1>4 DEF ConnectIfIdle
  <2>2. Reached(t, u, p)
    BY <1>1, <1>2, <1>4 DEF Reached
  <2>3. QED
    BY <1>1, <2>1, <2>2
<1>5. CASE ~u.active[p]
  <2>1. PICK v, f : v = Connect(u, p) /\ f = NewFd(u)
    OBVIOUS
  <2>2. f \in Fds /\ u.owner[f] = Free
    BY <1>1, <1>3, <1>5, <2>1, NewFdIs
  <2>3. Connected(u, v, p, f) /\ v \in Table
    BY <1>1, <1>3, <2>1, <2>2, ConnectIs
  <2>4. Idle(u, p)
    BY <1>1, <1>5 DEF Idle
  <2>5. Sound(v)
    BY <1>1, <1>3, <2>2, <2>3, <2>4, ConnectedSound
  <2>6. /\ Heard(u) => Heard(v)
        /\ Proper(u) => Proper(v)
        /\ v.active[v.last] => v.head = v.last
    BY <1>1, <1>3, <2>2, <2>3, <2>4, ConnectedKeeps
  <2>7. v.last = u.last /\ v.active = [u.active EXCEPT ![p] = TRUE]
    BY <2>3 DEF Connected
  <2>8. \A q \in AllPorts : v.active[q] <=> t.active[q] \/ q \in 1..p
    <3>1. u.active \in [AllPorts -> BOOLEAN]
      BY <1>3 DEF Table
    <3>2. \A q \in AllPorts : v.active[q] <=> q = p \/ u.active[q]
      BY <1>1, <2>7, <3>1
    <3>3. \A q \in AllPorts : u.active[q] <=> t.active[q] \/ q \in 1..k
      BY DEF Reached
    <3>4. QED
      BY <1>2, <3>2, <3>3
  <2>9. Reached(t, v, p)
    BY <2>5, <2>6, <2>7, <2>8 DEF Reached
  <2>10. ConnectIfIdle(u, p) = v
    BY <1>5, <2>1 DEF ConnectIfIdle
  <2>11. QED
    BY <1>1, <2>9, <2>10
<1>6. QED
  BY <1>4, <1>5

LEMMA ConnectIdleKeeps ==
  ASSUME NEW t, Sound(t), Heard(t), NEW n \in 1..MaxPorts, n <= t.last
  PROVE  Reached(t, ConnectIdle(t, n), n)
<1>1. n \in Nat
  OBVIOUS
<1>2. PICK c : Turns(c, t, n) /\ ConnectIdle(t, n) = c[n]
  BY <1>1, ConnectIdleIs
<1>3. \A p \in 0..n : c[p] = IF p = 0 THEN t ELSE ConnectIfIdle(c[p - 1], p)
  BY <1>2 DEF Turns
<1> DEFINE S == {k \in 0..n : ~Reached(t, c[k], k)}
<1>4. ASSUME S # {}
      PROVE  FALSE
  <2>1. S \in SUBSET Nat
    OBVIOUS
  <2>2. PICK k \in S : \A m \in S : k <= m
    <3> HIDE DEF S
    <3>1. QED
      BY <1>4, <2>1, LeastNumber
  <2>3. k \in 0..n /\ ~Reached(t, c[k], k)
    OBVIOUS
  <2>4. CASE k = 0
    <3>1. c[0] = t
      BY <1>3
    <3>2. \A p \in AllPorts : p \notin 1..0
      BY NumbersAre
    <3>3. Reached(t, t, 0)
      BY <3>2 DEF Reached
    <3>4. QED
      BY <2>3, <2>4, <3>1, <3>3
  <2>5. CASE k # 0
    <3>1. PICK m \in Nat : m = k - 1 /\ k = m + 1 /\ m \in 0..n
      BY <2>3, <2>5
    <3>2. m \notin S
      BY <2>2, <3>1
    <3>3. Reached(t, c[m], m)
      BY <3>1, <3>2
    <3>4. c[k] = ConnectIfIdle(c[m], k)
      BY <1>3, <2>3, <2>5, <3>1
    <3>5. m + 1 \in AllPorts /\ m + 1 <= t.last
      <4>1. t.last \in Nat
        BY NumbersAre DEF Sound, Table
      <4>2. k \in 1..MaxPorts /\ k <= t.last
        BY <2>3, <2>5, <4>1, NumbersAre
      <4>3. QED
        BY <3>1, <4>2, NumbersAre
    <3>6. Reached(t, ConnectIfIdle(c[m], m + 1), m + 1)
      BY <3>3, <3>5, OneTurn
    <3>7. QED
      BY <2>3, <3>1, <3>4, <3>6
  <2>6. QED
    BY <2>4, <2>5
<1>5. Reached(t, c[n], n)
  <2>1. n \in 0..n
    BY <1>1
  <2>2. QED
    BY <1>4, <2>1
<1>6. QED
  BY <1>2, <1>5

-----------------------------------------------------------------------------
(* setDataAddrPointers *)

LEMMA GrowIs ==
  ASSUME NEW t, Sound(t), Heard(t), NEW n \in 1..MaxPorts,
         NEW u, u = Grow(t, n)
  PROVE  /\ Sound(u) /\ Heard(u) /\ n <= u.last /\ u.active = t.active
         /\ Proper(t) => Proper(u)
         /\ t.head = t.last => u.head = u.last
         /\ t.last <= n => u.last = n
<1>1. t \in Table /\ t.last \in Nat /\ n \in AllPorts /\ n \in Nat
  BY NumbersAre DEF Sound, Table
<1>2. CASE n > t.last
  <2>1. u = [t EXCEPT !.last = n, !.head = n]
    BY <1>2 DEF Grow
  <2>2. u \in Table
    BY <1>1, <2>1 DEF Table
  <2>3. /\ u.last = n /\ u.head = n /\ u.fd = t.fd /\ u.active = t.active
        /\ u.owner = t.owner /\ u.watched = t.watched /\ u.maxfd = t.maxfd
    BY <1>1, <2>1 DEF Table
  <2>4. InChain(u)
    <3> SUFFICES ASSUME NEW p \in AllPorts, u.active[p]
                 PROVE  p <= u.last
      BY DEF InChain
    <3>1. p <= t.last /\ p \in Nat
      BY <2>3, NumbersAre DEF Sound, InChain
    <3>2. QED
      BY <1>1, <1>2, <2>3, <3>1
  <2>5. Sound(u)
    BY <2>2, <2>3, <2>4
       DEF Sound, IdleHasNone, ActiveOwns, OwnerHolds, OneConsole, WatchedOwned
  <2>6. Heard(u) /\ (Proper(t) => Proper(u))
    BY <2>3 DEF Heard, Proper
  <2>7. QED
    BY <1>1, <2>3, <2>5, <2>6
<1>3. CASE ~(n > t.last)
  <2>1. u = t
    BY <1>3 DEF Grow
  <2>2. QED
    BY <1>1, <1>3, <2>1
<1>4. QED
  BY <1>2, <1>3

LEMMA SetDataAddrPointersKeeps ==
  ASSUME NEW t, Sound(t), Heard(t), NEW n \in 1..MaxPorts,
         NEW u, u = SetDataAddrPointers(t, n)
  PROVE  /\ Sound(u) /\ Heard(u)
         /\ Proper(t) /\ t.head = t.last /\ t.last <= n =>
              Proper(u) /\ u.head = u.last /\ u.last = n
<1>1. PICK g : g = Grow(t, n)
  OBVIOUS
<1>2. /\ Sound(g) /\ Heard(g) /\ n <= g.last
      /\ Proper(t) => Proper(g)
      /\ t.head = t.last => g.head = g.last
      /\ t.last <= n => g.last = n
  BY <1>1, GrowIs
<1>3. PICK P : P = (n + 1)..g.last
  OBVIOUS
<1>4. P \in SUBSET (1..MaxPorts) /\ (g.last = n => P = {})
  <2>1. PICK l \in Nat, m \in Nat, N \in Nat :
          l = g.last /\ m = n /\ N = MaxPorts /\ l <= N /\ 1 <= m
    BY <1>2, NumbersAre DEF Sound, Table, AllPorts
  <2>2. (m + 1)..l \subseteq 1..N /\ (l = m => (m + 1)..l = {})
    BY <2>1
  <2>3. QED
    BY <1>3, <2>1, <2>2
<1>5. PICK d : d = Disconnect(g, P)
  OBVIOUS
<1>6. /\ Sound(d) /\ d.last = g.last /\ d.head = g.head /\ Heard(d)
      /\ Proper(g) /\ (\A p \in P : g.active[p]) => Proper(d)
  BY <1>2, <1>4, <1>5, DisconnectKeeps
<1>7. PICK c : c = ConnectIdle(d, n)
  OBVIOUS
<1>8. Reached(d, c, n)
  BY <1>2, <1>6, <1>7, ConnectIdleKeeps
<1>9. u = Disconnect(c, P)
  BY <1>1, <1>3, <1>5, <1>7 DEF SetDataAddrPointers
<1>10. Sound(c) /\ Heard(c) /\ c.last = d.last
  BY <1>8 DEF Reached
<1>11. /\ Sound(u) /\ u.last = c.last /\ u.head = c.head /\ Heard(u)
       /\ Proper(c) /\ (\A p \in P : c.active[p]) => Proper(u)
  BY <1>4, <1>9, <1>10, DisconnectKeeps
<1>12. ASSUME Proper(t), t.head = t.last, t.last <= n
       PROVE  Proper(u) /\ u.head = u.last /\ u.last = n
  <2>1. g.last = n /\ g.head = g.last /\ Proper(g) /\ P = {}
    BY <1>2, <1>4, <1>12
  <2>2. Proper(d) /\ d.head = d.last /\ d.last = n
    BY <1>6, <2>1
  <2>3. Proper(c)
    BY <1>8, <2>2 DEF Reached
  <2>4. c.active[c.last]
    <3>1. n \in AllPorts /\ n \in 1..n
      BY NumbersAre
    <3>2. QED
      BY <1>8, <1>10, <2>2, <3>1 DEF Reached
  <2>5. c.head = c.last
    BY <1>8, <2>2, <2>4 DEF Reached
  <2>6. QED
    BY <1>10, <1>11, <2>1, <2>2, <2>3, <2>5
<1>13. QED
  BY <1>11, <1>12

-----------------------------------------------------------------------------
(* The steps *)

LEMMA PortsAre ==
  ASSUME TypeOK
  PROVE  /\ numPorts \in Nat /\ numPorts <= MaxPorts
         /\ table.last \in Nat
<1>1. PICK M \in Nat : M = MaxPorts
  BY NumbersAre
<1>2. numPorts \in 1..M
  BY <1>1 DEF TypeOK
<1>3. numPorts \in Nat /\ numPorts <= M
  BY <1>2
<1>4. table.last \in Nat
  BY NumbersAre DEF TypeOK, Table
<1>5. QED
  BY <1>1, <1>3, <1>4

LEMMA InitSockets == Init => SocketInv
<1> SUFFICES ASSUME Init
             PROVE  SocketInv
  OBVIOUS
<1>1. up = "running" /\ numPorts = 1 /\ table = Connect(NoSockets, 0) /\ shrunk = FALSE
  BY DEF Init
<1>2. PICK t : t = NoSockets
  OBVIOUS
<1>3. /\ t.last = 0 /\ t.head = 0 /\ t.fd = [p \in AllPorts |-> 0]
      /\ t.active = [p \in AllPorts |-> FALSE]
      /\ t.owner = [f \in Fds |-> IF f = Stdin THEN Console ELSE Free]
      /\ t.watched = {} /\ t.maxfd = 0
  BY <1>2 DEF NoSockets
<1>4. t \in Table
  <2>1. t.fd \in [AllPorts -> Fds] /\ t.active \in [AllPorts -> BOOLEAN]
    BY <1>3, NumbersAre
  <2>2. t.owner \in [Fds -> 0..Console]
    BY <1>3, NumbersAre
  <2>3. t.last \in AllPorts /\ t.head \in AllPorts /\ t.maxfd \in Fds
    BY <1>3, NumbersAre
  <2>4. t = [last |-> t.last, head |-> t.head, fd |-> t.fd, active |-> t.active,
             owner |-> t.owner, watched |-> t.watched, maxfd |-> t.maxfd]
    BY <1>2, <1>3 DEF NoSockets
  <2>5. t.watched \in SUBSET Fds
    BY <1>3
  <2>6. QED
    BY <2>1, <2>2, <2>3, <2>4, <2>5 DEF Table
<1>5. Sound(t) /\ Proper(t)
  <2>1. \A p \in AllPorts : ~t.active[p] /\ t.fd[p] = Stdin
    BY <1>3, NumbersAre
  <2>2. \A f \in Fds : t.owner[f] = IF f = Stdin THEN Console ELSE Free
    BY <1>3
  <2>3. OwnerHolds(t) /\ OneConsole(t)
    BY <2>2, NumbersAre DEF OwnerHolds, OneConsole
  <2>4. InChain(t) /\ IdleHasNone(t) /\ ActiveOwns(t) /\ WatchedOwned(t)
    BY <1>3, <2>1 DEF InChain, IdleHasNone, ActiveOwns, WatchedOwned
  <2>5. Proper(t)
    BY <2>1, <2>2, NumbersAre DEF Proper
  <2>6. QED
    BY <1>4, <2>3, <2>4, <2>5 DEF Sound
<1>6. 0 \in AllPorts /\ Idle(t, 0) /\ 0 <= t.last
  BY <1>3, NumbersAre DEF Idle
<1>7. PICK u, f : u = Connect(t, 0) /\ f = NewFd(t)
  OBVIOUS
<1>8. f \in Fds /\ t.owner[f] = Free
  BY <1>5, <1>6, <1>7, NewFdIs DEF Idle
<1>9. Connected(t, u, 0, f) /\ u \in Table
  BY <1>4, <1>6, <1>7, <1>8, ConnectIs
<1>10. Sound(u)
  BY <1>5, <1>6, <1>8, <1>9, ConnectedSound
<1>11. Proper(u) /\ (u.active[u.last] => u.head = u.last)
  BY <1>5, <1>6, <1>8, <1>9, ConnectedKeeps
<1>12. Heard(u)
  <2>1. u.active[0] /\ u.fd[0] = f /\ f \in u.watched
    BY <1>3, <1>6, <1>9 DEF Connected
  <2>2. f # Stdin
    BY <1>3, <1>8, NumbersAre
  <2>3. QED
    BY <2>1, <2>2 DEF Heard
<1>13. u.last = 0 /\ u.head = u.last
  <2>1. u.last = 0
    BY <1>3, <1>9 DEF Connected
  <2>2. QED
    BY <1>11, <1>12, <2>1 DEF Heard
<1>14. table = u
  BY <1>1, <1>2, <1>7
<1>15. TypeOK
  <2>1. PICK M \in Nat \ {0} : M = MaxPorts
    BY NumbersAre
  <2>2. 1 \in 1..M
    BY <2>1
  <2>3. QED
    BY <1>1, <1>9, <1>14, <2>1, <2>2 DEF TypeOK
<1>16. QED
  BY <1>1, <1>10, <1>11, <1>12, <1>13, <1>14, <1>15 DEF SocketInv

LEMMA ArrangeKeeps ==
  ASSUME SocketInv, NEW n \in 1..MaxPorts, Arrange(n), up = "running",
         numPorts' = n, shrunk' \in BOOLEAN, shrunk' \/ (~shrunk /\ numPorts <= n)
  PROVE  SocketInv'
<1>1. TypeOK /\ Sound(table) /\ Heard(table)
  BY DEF SocketInv
<1>2. PICK l \in Nat, m \in Nat, k \in Nat : l = table.last /\ m = n /\ k = numPorts
  BY <1>1, NumbersAre DEF TypeOK, Table
<1>3. ASSUME ~shrunk'
      PROVE  /\ Proper(table) /\ table.head = table.last /\ table.last <= n
             /\ ~LosesChain(table, n)
  <2>1. /\ Proper(table) /\ table.head = table.last /\ table.last <= numPorts
        /\ numPorts <= n
    BY <1>3 DEF SocketInv
  <2>2. table.last <= n
    BY <1>2, <2>1
  <2>3. QED
    BY <2>1, <2>2 DEF LosesChain
<1>4. CASE LosesChain(table, n)
  <2>1. up' = "chain lost" /\ table' = table
    BY <1>4 DEF Arrange
  <2>2. TypeOK'
    BY <1>1, <2>1 DEF TypeOK
  <2>3. Sound(table)' /\ Heard(table)'
    BY <1>1, <2>1 DEF Sound, Heard, InChain, IdleHasNone, ActiveOwns, OwnerHolds,
                      OneConsole, WatchedOwned
  <2>4. QED
    BY <1>3, <1>4, <2>2, <2>3 DEF SocketInv
<1>5. CASE ~LosesChain(table, n)
  <2>1. PICK t, u : t = table /\ u = table'
    OBVIOUS
  <2>2. u = SetDataAddrPointers(t, n) /\ up' = up
    BY <1>5, <2>1 DEF Arrange
  <2>3. Sound(t) /\ Heard(t)
    BY <1>1, <2>1
  <2>4. /\ Sound(u) /\ Heard(u)
        /\ Proper(t) /\ t.head = t.last /\ t.last <= n =>
             Proper(u) /\ u.head = u.last /\ u.last = n
    BY <2>2, <2>3, SetDataAddrPointersKeeps
  <2>5. TypeOK'
    BY <1>1, <2>1, <2>2, <2>4 DEF TypeOK, Sound
  <2>6. ~shrunk' => Proper(u) /\ u.head = u.last /\ u.last <= n
    <3>1. n <= n
      BY <1>2
    <3>2. QED
      BY <1>3, <2>1, <2>4, <3>1
  <2>7. Sound(table)' /\ Heard(table)' /\ (Proper(table)' <=> Proper(u))
    BY <2>1, <2>4 DEF Sound, Heard, Proper, InChain, IdleHasNone, ActiveOwns,
                      OwnerHolds, OneConsole, WatchedOwned
  <2>8. QED
    BY <2>1, <2>2, <2>5, <2>6, <2>7 DEF SocketInv
<1>6. QED
  BY <1>4, <1>5

LEMMA ServerClosesKeeps ==
  ASSUME SocketInv, NEW f \in Fds, ServerCloses(f)
  PROVE  SocketInv'
<1> DEFINE H == {p \in 1..Min({numPorts, table.last}) : table.fd[p] = f}
<1>1. /\ up = "running" /\ f \in table.watched /\ H # {}
      /\ table' = Disconnect(table, {Min(H)}) /\ UNCHANGED <<up, numPorts, shrunk>>
  BY DEF ServerCloses
<1>2. TypeOK /\ Sound(table) /\ Heard(table)
  BY DEF SocketInv
<1>3. PICK t, u : t = table /\ u = table'
  OBVIOUS
<1>4. Min(H) \in 1..MaxPorts /\ t.fd[Min(H)] = f
  <2>1. numPorts \in Nat /\ table.last \in Nat /\ numPorts <= MaxPorts
    BY <1>2, PortsAre
  <2>2. Min({numPorts, table.last}) <= numPorts /\ Min({numPorts, table.last}) \in Nat
    BY <2>1, MinIs
  <2>3. PICK m \in Nat : m = Min({numPorts, table.last}) /\ m <= MaxPorts
    BY <2>1, <2>2, NumbersAre
  <2>4. H \in SUBSET Nat /\ \A p \in H : p \in 1..MaxPorts
    BY <2>3, NumbersAre
  <2>5. Min(H) \in H
    <3> HIDE DEF H
    <3>1. QED
      BY <1>1, <2>4, MinIs
  <2>6. QED
    BY <1>3, <2>4, <2>5
<1>5. PICK p \in 1..MaxPorts : p = Min(H) /\ t.fd[p] = f
  BY <1>4
<1> HIDE DEF H
<1>6. u = Disconnect(t, {p}) /\ {p} \in SUBSET (1..MaxPorts)
  BY <1>1, <1>3, <1>5
<1>7. Sound(t) /\ Heard(t)
  BY <1>2, <1>3
<1>8. /\ Sound(u) /\ u.last = t.last /\ u.head = t.head /\ Heard(u)
      /\ Proper(t) /\ (\A q \in {p} : t.active[q]) => Proper(u)
  BY <1>6, <1>7, DisconnectKeeps
<1>9. Proper(t) => Proper(u)
  <2>1. ASSUME Proper(t)
        PROVE  t.active[p]
    <3>1. f # Stdin
      BY <1>1, <1>3, <1>7, <2>1, NumbersAre DEF Proper, Sound, WatchedOwned
    <3>2. p \in AllPorts
      BY NumbersAre
    <3>3. QED
      BY <1>5, <1>7, <3>1, <3>2 DEF Sound, IdleHasNone
  <2>2. QED
    BY <1>8, <2>1
<1>10. TypeOK'
  BY <1>1, <1>2, <1>3, <1>8 DEF TypeOK, Sound
<1>11. Sound(table)' /\ Heard(table)' /\ (Proper(table)' <=> Proper(u))
  BY <1>3, <1>8 DEF Sound, Heard, Proper, InChain, IdleHasNone, ActiveOwns,
                    OwnerHolds, OneConsole, WatchedOwned
<1>12. QED
  BY <1>1, <1>3, <1>8, <1>9, <1>10, <1>11 DEF SocketInv

LEMMA StepSockets ==
  SocketInv /\ [\E n \in 1..MaxPorts : SockNext(n)]_sockVars => SocketInv'
<1> SUFFICES ASSUME SocketInv, [\E n \in 1..MaxPorts : SockNext(n)]_sockVars
             PROVE  SocketInv'
  OBVIOUS
<1>1. TypeOK /\ Sound(table) /\ Heard(table)
  BY DEF SocketInv
<1>2. ASSUME NEW n \in 1..MaxPorts, RecLenMessage(n)
      PROVE  SocketInv'
  <2>1. /\ up = "running" /\ numPorts' = n /\ Arrange(n)
        /\ shrunk' = (shrunk \/ n < numPorts)
    BY <1>2 DEF RecLenMessage
  <2>2. shrunk' \in BOOLEAN /\ (shrunk' \/ (~shrunk /\ ~(n < numPorts)))
    BY <2>1
  <2>3. ~(n < numPorts) => numPorts <= n
    BY <1>1, PortsAre
  <2>4. QED
    BY <2>1, <2>2, <2>3, ArrangeKeeps
<1>3. CASE DataGo
  <2>1. /\ up = "running" /\ Arrange(numPorts) /\ numPorts' = numPorts
        /\ shrunk' = shrunk /\ numPorts \in 1..MaxPorts
    BY <1>1, <1>3 DEF DataGo, TypeOK
  <2>2. numPorts <= numPorts /\ shrunk' \in BOOLEAN
    BY <1>1, <2>1, NumbersAre DEF TypeOK
  <2>3. QED
    BY <2>1, <2>2, ArrangeKeeps
<1>4. CASE QueryWithoutSockets
  <2>1. up' = "no data socket" /\ UNCHANGED <<numPorts, table, shrunk>>
    BY <1>4 DEF QueryWithoutSockets
  <2>2. TypeOK'
    BY <1>1, <2>1 DEF TypeOK
  <2>3. Sound(table)' /\ Heard(table)' /\ (Proper(table)' <=> Proper(table))
    BY <1>1, <2>1 DEF Sound, Heard, Proper, InChain, IdleHasNone, ActiveOwns,
                      OwnerHolds, OneConsole, WatchedOwned
  <2>4. QED
    BY <2>1, <2>2, <2>3 DEF SocketInv
<1>5. CASE \E f \in Fds : ServerCloses(f)
  BY <1>5, ServerClosesKeeps
<1>6. CASE UNCHANGED sockVars
  <2>1. UNCHANGED <<up, numPorts, table, shrunk>>
    BY <1>6 DEF sockVars
  <2>2. TypeOK'
    BY <1>1, <2>1 DEF TypeOK
  <2>3. Sound(table)' /\ Heard(table)' /\ (Proper(table)' <=> Proper(table))
    BY <1>1, <2>1 DEF Sound, Heard, Proper, InChain, IdleHasNone, ActiveOwns,
                      OwnerHolds, OneConsole, WatchedOwned
  <2>4. QED
    BY <2>1, <2>2, <2>3 DEF SocketInv
<1>7. QED
  BY <1>2, <1>3, <1>4, <1>5, <1>6 DEF SockNext

(* The invariant of the socket table, for any number of ports.             *)
THEOREM SocketsCorrect == Spec => []SocketInv
<1>1. Init => SocketInv
  BY InitSockets
<1>2. SocketInv /\ [\E n \in 1..MaxPorts : SockNext(n)]_sockVars => SocketInv'
  BY StepSockets
<1>3. QED
  BY <1>1, <1>2, PTL DEF Spec

(* The table keeps its type: there is a free descriptor for every port     *)
(* that is to be connected, and g_maxfd is a descriptor.                   *)
THEOREM TypeCorrect == Spec => []TypeOK
<1>1. SocketInv => TypeOK
  BY DEF SocketInv
<1>2. QED
  BY <1>1, SocketsCorrect, PTL

(* Whatever happens to the data ports, select hears the comm socket        *)
(* (HPSmain.c:147).                                                        *)
THEOREM CommStaysHeard == Spec => []CommSocketHeard
<1>1. ASSUME SocketInv
      PROVE  CommSocketHeard
  <2>1. table.active[0] /\ table.fd[0] # Stdin /\ table.fd[0] \in table.watched
    BY <1>1 DEF SocketInv, Heard
  <2>2. table.fd[0] <= table.maxfd
    BY <1>1, <2>1 DEF SocketInv, Sound, WatchedOwned
  <2>3. table.fd[0] \in Fds /\ 0 \in AllPorts
    BY <1>1, NumbersAre DEF SocketInv, TypeOK, Table
  <2>4. table.owner[table.fd[0]] = 0
    BY <1>1, <2>1, <2>3 DEF SocketInv, Sound, ActiveOwns
  <2>5. QED
    BY <2>1, <2>2, <2>4 DEF CommSocketHeard
<1>2. QED
  BY <1>1, SocketsCorrect, PTL

(* select is given open descriptors only, and looks at all it is given     *)
(* (HPSmain.c:147).                                                        *)
THEOREM WatchedStayOpen == Spec => []WatchedAreOpen
<1>1. ASSUME SocketInv
      PROVE  WatchedAreOpen
  BY <1>1, NumbersAre DEF SocketInv, Sound, WatchedOwned, WatchedAreOpen
<1>2. QED
  BY <1>1, SocketsCorrect, PTL

(* Until a record needs fewer ports than the one before, every connected   *)
(* port has a socket of its own and the chain can grow                     *)
(* (client_funcs.h:246, 229).                                              *)
THEOREM GrowingIsSafe == Spec => []GrowingKeepsSockets
<1>1. ASSUME SocketInv
      PROVE  GrowingKeepsSockets
  BY <1>1 DEF SocketInv, Sound, ActiveOwns, Proper, GrowingKeepsSockets,
              EachPortOwnsItsSocket
<1>2. QED
  BY <1>1, SocketsCorrect, PTL
=============================================================================
