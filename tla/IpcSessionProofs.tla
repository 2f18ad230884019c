--------------------------- MODULE IpcSessionProofs ---------------------------
(***************************************************************************)
(* The words of an IPC session, for any number of connections and boards:  *)
(* a script that leaves no answer behind finds the words it waits for and  *)
(* a segment of the array's size, and no such script ends the server.      *)
(***************************************************************************)
EXTENDS IpcSession, SequenceTheorems, TLAPS

-----------------------------------------------------------------------------
(* Requests under way *)

(* None of them is answered; the last asks for the word and is the only    *)
(* one that is answered; all of them end the server.                       *)
MuteOps == {"resize", "release"}
Mute(q) == \A i \in 1..Len(q) : q[i].op \in MuteOps
Asks(op, word) == \/ op = "query" /\ word = "pulse"
                  \/ op = "info" /\ word = "board"
                  \/ op = "list" /\ word = "list"
                  \/ op = "share" /\ word = "shm"
Awaits(q, word) == /\ q # <<>>
                   /\ Asks(q[Len(q)].op, word)
                   /\ \A i \in 1..Len(q) : i < Len(q) => q[i].op \in MuteOps
Over(q) == \A i \in 1..Len(q) : q[i].op = "shutdown"

(* Sizes an int can count; the segment is going to be released.            *)
Fits(q) == \A i \in 1..Len(q) : q[i].op = "resize" => q[i].n <= IntMax
Releases(q) == \E i \in 1..Len(q) : q[i].op = "release"

AllOf(w, word) == \A i \in 1..Len(w) : w[i] = word

-----------------------------------------------------------------------------
(* The invariant *)

(* Connections are accepted in the order they are made, and nothing is     *)
(* under way on one that is still to be made.                              *)
Ascending(q, lo, hi) ==
  /\ \A i \in 1..Len(q) : lo < q[i] /\ q[i] <= hi
  /\ \A i, j \in 1..Len(q) : i < j => q[i] < q[j]
InOrder == /\ Ascending(backlog, commFd, conns)
           /\ \A c \in held : c <= commFd
           /\ commFd <= conns
           /\ \A c \in Conns : c > conns => toServer[c] = <<>>

(* What is under way to the server (q) and to the script (w) while the     *)
(* script waits for p: its request, what comes of it, or its answer, and   *)
(* never two of them.                                                      *)
Talk(q, w, p, pl, as, sg, sz) ==
  \/ Awaits(q, p) /\ w = <<>> /\ pl = 0 /\ as = 0
  \/ Mute(q) /\ w = <<>>
  \/ Mute(q) /\ p = "pulse" /\ w = <<"pulse">> /\ pl = 0
  \/ Mute(q) /\ p = "board" /\ AllOf(w, "board")
  \/ Mute(q) /\ p = "list" /\ w = List
  \/ q = <<>> /\ p = "shm" /\ w = <<"shm">> /\ sg = sz

Session(q, w, p, pl, as, sg, sz) ==
  /\ sz <= IntMax /\ Fits(q)
  /\ pl # 0 => p = "pulse" /\ pl = 1
  /\ as # 0 => p = "board"
  /\ sg = 0 \/ (p = "shm" /\ w # <<>>) \/ Releases(q)
  /\ Talk(q, w, p, pl, as, sg, sz)

(* Scripts before this one have left nothing but the order to shut down.   *)
NothingLeft == \A c \in Conns : ~Open(c) => toScript[c] = <<>> /\ Over(toServer[c])

Careful == /\ NothingLeft
           /\ pulses # 0 \/ asked # 0 => conns \in held
           /\ py = "off" => pulses = 0 /\ asked = 0 /\ seg = 0 /\ size <= IntMax
           /\ py # "off" => Session(toServer[conns], toScript[conns], py,
                                    pulses, asked, seg, size)

SessionInv == TypeOK /\ InOrder /\ (~careless => Careful)

-----------------------------------------------------------------------------
(* Queues *)

LEMMA RequestAppended ==
  ASSUME NEW q \in Seq(Requests), NEW r \in Requests,
         NEW a, a = Append(q, r)
  PROVE  /\ a \in Seq(Requests)
         /\ Mute(q) /\ r.op \in MuteOps => Mute(a)
         /\ \A word : Mute(q) /\ Asks(r.op, word) => Awaits(a, word)
         /\ Over(q) /\ r.op = "shutdown" => Over(a)
         /\ Fits(q) /\ (r.op = "resize" => r.n <= IntMax) => Fits(a)
         /\ Releases(q) \/ r.op = "release" => Releases(a)
<1>1. /\ a \in Seq(Requests) /\ Len(a) = Len(q) + 1 /\ Len(q) \in Nat
      /\ a[Len(q) + 1] = r
      /\ \A i \in 1..Len(q) : a[i] = q[i]
  BY AppendProperties, LenProperties
<1>2. \A i \in 1..Len(a) : (i \in 1..Len(q) /\ a[i] = q[i]) \/ a[i] = r
  BY <1>1
<1>3. Len(a) \in 1..Len(a) /\ a[Len(a)] = r /\ 1..Len(q) \subseteq 1..Len(a)
  BY <1>1
<1>4. \A i \in 1..Len(a) : i < Len(a) => i \in 1..Len(q) /\ a[i] = q[i]
  BY <1>1
<1>5. Mute(q) /\ r.op \in MuteOps => Mute(a)
  BY <1>2 DEF Mute
<1>6. ASSUME NEW word, Mute(q), Asks(r.op, word)
      PROVE  Awaits(a, word)
  <2>1. a # <<>>
    BY <1>1, EmptySeq
  <2>2. QED
    BY <1>3, <1>4, <1>6, <2>1 DEF Mute, Awaits
<1>7. Over(q) /\ r.op = "shutdown" => Over(a)
  BY <1>2 DEF Over
<1>8. Fits(q) /\ (r.op = "resize" => r.n <= IntMax) => Fits(a)
  BY <1>2 DEF Fits
<1>9. Releases(q) \/ r.op = "release" => Releases(a)
  BY <1>1, <1>3 DEF Releases
<1>10. QED
  BY <1>1, <1>5, <1>6, <1>7, <1>8, <1>9

LEMMA RequestTaken ==
  ASSUME NEW q \in Seq(Requests), q # <<>>, NEW h, h = Head(q),
         NEW t, t = Tail(q)
  PROVE  /\ h \in Requests /\ t \in Seq(Requests)
         /\ Mute(q) => h.op \in MuteOps /\ Mute(t)
         /\ \A word : Awaits(q, word) =>
              \/ h.op \in MuteOps /\ Awaits(t, word)
              \/ Asks(h.op, word) /\ t = <<>>
         /\ Over(q) => h.op = "shutdown" /\ Over(t)
         /\ Fits(q) => Fits(t) /\ (h.op = "resize" => h.n <= IntMax)
         /\ Releases(q) => Releases(t) \/ h.op = "release"
<1>1. /\ Len(q) \in Nat \ {0} /\ Len(t) = Len(q) - 1
      /\ \A i \in 1..Len(t) : t[i] = q[i + 1]
      /\ h \in Requests /\ t \in Seq(Requests)
  BY HeadTailProperties, EmptySeq
<1>2. h = q[1] /\ 1 \in 1..Len(q)
  BY <1>1
<1>3. \A i \in 1..Len(t) : i + 1 \in 1..Len(q) /\ t[i] = q[i + 1]
  BY <1>1
<1>4. Mute(q) => h.op \in MuteOps /\ Mute(t)
  BY <1>2, <1>3 DEF Mute
<1>5. ASSUME NEW word, Awaits(q, word)
      PROVE  \/ h.op \in MuteOps /\ Awaits(t, word)
             \/ Asks(h.op, word) /\ t = <<>>
  <2>1. CASE Len(q) = 1
    <3>1. t = <<>>
      BY <1>1, <2>1, EmptySeq
    <3>2. QED
      BY <1>2, <1>5, <2>1, <3>1 DEF Awaits
  <2>2. CASE Len(q) # 1
    <3>1. 1 < Len(q) /\ Len(t) \in 1..Len(t) /\ Len(t) + 1 = Len(q)
      BY <1>1, <2>2
    <3>a. t # <<>>
      <4>1. Len(t) # 0
        BY <1>1, <2>2
      <4>2. Len(<<>>) = 0
        BY EmptySeq
      <4>3. QED
        BY <4>1, <4>2
    <3>2. t[Len(t)] = q[Len(q)]
      BY <1>3, <3>1
    <3>3. \A i \in 1..Len(t) : i < Len(t) => i + 1 < Len(q)
      BY <1>1
    <3>4. h.op \in MuteOps
      BY <1>2, <1>5, <3>1 DEF Awaits
    <3>5. \A i \in 1..Len(t) : i < Len(t) => t[i].op \in MuteOps
      BY <1>3, <1>5, <3>3 DEF Awaits
    <3>6. QED
      BY <1>5, <3>a, <3>2, <3>4, <3>5 DEF Awaits
  <2>3. QED
    BY <2>1, <2>2
<1>6. Over(q) => h.op = "shutdown" /\ Over(t)
  BY <1>2, <1>3 DEF Over
<1>7. Fits(q) => Fits(t) /\ (h.op = "resize" => h.n <= IntMax)
  BY <1>2, <1>3 DEF Fits
<1>8. ASSUME Releases(q), h.op # "release"
      PROVE  Releases(t)
  <2>1. PICK i \in 1..Len(q) : q[i].op = "release"
    BY <1>8 DEF Releases
  <2>2. i # 1
    BY <1>2, <1>8, <2>1
  <2>3. i - 1 \in 1..Len(t) /\ (i - 1) + 1 = i
    BY <1>1, <2>2
  <2>4. QED
    BY <1>3, <2>1, <2>3 DEF Releases
<1>9. QED
  BY <1>1, <1>4, <1>5, <1>6, <1>7, <1>8

LEMMA NoRequests ==
  /\ Mute(<<>>) /\ Over(<<>>) /\ Fits(<<>>) /\ ~Releases(<<>>)
  /\ \A word : ~Awaits(<<>>, word)
  /\ \A word : AllOf(<<>>, word)
<1>1. Len(<<>>) = 0
  BY EmptySeq
<1>2. 1..Len(<<>>) = {}
  BY <1>1
<1>3. QED
  BY <1>2 DEF Mute, Over, Fits, Releases, Awaits, AllOf

LEMMA WordAppended ==
  ASSUME NEW w \in Seq(WordKinds), NEW word \in WordKinds, AllOf(w, word)
  PROVE  AllOf(Append(w, word), word)
<1> DEFINE a == Append(w, word)
<1>1. /\ Len(a) = Len(w) + 1 /\ Len(w) \in Nat
      /\ a[Len(w) + 1] = word
      /\ \A i \in 1..Len(w) : a[i] = w[i]
  BY AppendProperties, LenProperties
<1>2. \A i \in 1..Len(a) : (i \in 1..Len(w) /\ a[i] = w[i]) \/ a[i] = word
  BY <1>1
<1>3. QED
  BY <1>2 DEF AllOf

(* What is left when some words have been read.                            *)
LEMMA WordsTaken ==
  ASSUME NEW w \in Seq(WordKinds), NEW k \in Nat, k <= Len(w),
         NEW v, v = SubSeq(w, k + 1, Len(w))
  PROVE  /\ v \in Seq(WordKinds)
         /\ k = Len(w) => v = <<>>
         /\ \A word : AllOf(w, word) => AllOf(v, word)
<1>1. PICK n \in Nat : n = Len(w)
  BY LenProperties
<1>2. \A i \in (k + 1)..n : w[i] \in WordKinds
  <2>1. \A i \in 1..n : w[i] \in WordKinds
    BY <1>1, ElementOfSeq
  <2>2. QED
    BY <2>1
<1>3. v = SubSeq(w, k + 1, n) /\ k + 1 \in Int /\ n \in Int
  BY <1>1
<1>4. /\ v \in Seq(WordKinds)
      /\ Len(v) = IF k + 1 <= n THEN n - (k + 1) + 1 ELSE 0
      /\ \A i \in 1..(n - (k + 1) + 1) : v[i] = w[(k + 1) + i - 1]
  BY <1>2, <1>3, SubSeqProperties
<1>5. Len(v) = n - k
  BY <1>1, <1>4
<1>6. \A i \in 1..Len(v) : v[i] = w[k + i] /\ k + i \in 1..n
  BY <1>1, <1>4, <1>5
<1>7. k = n => v = <<>>
  BY <1>4, <1>5, EmptySeq
<1>8. QED
  BY <1>1, <1>4, <1>6, <1>7 DEF AllOf

LEMMA ListIs ==
  /\ List \in Seq(WordKinds) /\ Len(List) = ListLen /\ List # <<>>
  /\ AllOf(List, "list")
<1>1. "list" \in WordKinds /\ ListLen \in Nat /\ ListLen # 0
  BY IpcAssumption DEF WordKinds
<1>2. List \in [1..ListLen -> WordKinds]
  BY <1>1 DEF List
<1>3. List \in Seq(WordKinds) /\ Len(List) = ListLen
  BY <1>1, <1>2
<1>4. List # <<>>
  BY <1>1, <1>3, EmptySeq
<1>5. AllOf(List, "list")
  BY <1>3 DEF AllOf, List
<1>6. QED
  BY <1>3, <1>4, <1>5

-----------------------------------------------------------------------------
(* Types *)

(* A request is added to the queue of the script's connection, ...         *)
LEMMA AskIs ==
  ASSUME TypeOK, py # "off", NEW op \in Ops, NEW n \in Nat,
         op = "resize" => n \in Sizes, Ask(op, n)
  PROVE  \E r \in Requests :
           /\ r.op = op /\ r.n = n
           /\ toServer' = [toServer EXCEPT ![conns] = Append(@, r)]
           /\ toServer' \in [Conns -> Seq(Requests)]
           /\ toServer'[conns] = Append(toServer[conns], r)
           /\ \A c \in Conns : c # conns => toServer'[c] = toServer[c]
<1>1. conns \in Conns /\ toServer \in [Conns -> Seq(Requests)]
  BY DEF TypeOK
<1>2. PICK r : r = [op |-> op, n |-> n]
  OBVIOUS
<1>3. r \in Requests /\ r.op = op /\ r.n = n
  BY <1>2 DEF Requests
<1>4. toServer' = [toServer EXCEPT ![conns] = Append(@, r)]
  BY <1>2 DEF Ask
<1>5. Append(toServer[conns], r) \in Seq(Requests)
  BY <1>1, <1>3, AppendProperties
<1>6. QED
  BY <1>1, <1>3, <1>4, <1>5

(* ... taken from the front of a connection's, ...                         *)
LEMMA RequestIs ==
  ASSUME TypeOK, NEW c \in Conns, NEW op, Request(c, op)
  PROVE  /\ up /\ c \in held
         /\ toServer[c] # <<>> /\ Head(toServer[c]) \in Requests
         /\ Head(toServer[c]).op = op
         /\ toServer' \in [Conns -> Seq(Requests)]
         /\ toServer'[c] = Tail(toServer[c])
         /\ \A d \in Conns : d # c => toServer'[d] = toServer[d]
         /\ backlog' = backlog /\ held' = held /\ commFd' = commFd
         /\ reused' = reused /\ py' = py /\ conns' = conns
         /\ careless' = careless
<1>1. toServer \in [Conns -> Seq(Requests)]
  BY DEF TypeOK
<1>2. /\ up /\ c \in held
      /\ toServer[c] # <<>>
      /\ Head(toServer[c]).op = op
      /\ toServer' = [toServer EXCEPT ![c] = Tail(@)]
      /\ backlog' = backlog /\ held' = held /\ commFd' = commFd
      /\ reused' = reused /\ py' = py /\ conns' = conns
      /\ careless' = careless
  BY DEF Request, scriptVars
<1>3. Head(toServer[c]) \in Requests /\ Tail(toServer[c]) \in Seq(Requests)
  BY <1>1, <1>2, HeadTailProperties
<1>4. QED
  BY <1>1, <1>2, <1>3

(* ... and words are read from the script's.                               *)
LEMMA TakeIs ==
  ASSUME TypeOK, py # "off", NEW k \in Nat, k <= Len(Words), Take(k)
  PROVE  /\ toScript' \in [Conns -> Seq(WordKinds)]
         /\ toScript'[conns] = SubSeq(toScript[conns], k + 1, Len(toScript[conns]))
         /\ \A c \in Conns : c # conns => toScript'[c] = toScript[c]
<1>1. conns \in Conns /\ toScript \in [Conns -> Seq(WordKinds)]
  BY DEF TypeOK
<1>2. PICK w \in Seq(WordKinds) : w = toScript[conns]
  BY <1>1
<1>3. toScript' = [toScript EXCEPT ![conns] = SubSeq(w, k + 1, Len(w))]
  BY <1>1, <1>2 DEF Take
<1>4. SubSeq(w, k + 1, Len(w)) \in Seq(WordKinds)
  BY <1>2, WordsTaken DEF Words
<1>5. QED
  BY <1>1, <1>2, <1>3, <1>4

LEMMA OneWord ==
  ASSUME TypeOK, py # "off", Words # <<>>
  PROVE  1 <= Len(Words)
<1>1. PICK w \in Seq(WordKinds) : w = Words
  BY DEF TypeOK, Words
<1>2. Len(w) \in Nat /\ Len(w) # 0
  BY <1>1, EmptySeq, LenProperties
<1>3. QED
  BY <1>1, <1>2

(* A word sent arrives at the script, or nothing does.                     *)
Arrives(word) == /\ commFd \in held /\ Open(commFd)
                 /\ toScript' = [toScript EXCEPT ![commFd] = Append(@, word)]
                 /\ up' = up /\ stray' = stray
Lost == /\ ~(commFd \in held /\ Open(commFd))
        /\ toScript' = toScript
        /\ up' \in BOOLEAN /\ stray' \in BOOLEAN

LEMMA SendIs ==
  ASSUME TypeOK
  PROVE  /\ SendWord("pulse", TRUE) => Arrives("pulse") \/ Lost
         /\ SendWord("shm", TRUE) => Arrives("shm") \/ Lost
         /\ SendWord("board", FALSE) => Arrives("board") \/ Lost
<1>1. up \in BOOLEAN /\ stray \in BOOLEAN
  BY DEF TypeOK
<1>2. SendWord("pulse", TRUE) => Arrives("pulse") \/ Lost
  BY <1>1 DEF SendWord, Ends, Arrives, Lost
<1>3. SendWord("shm", TRUE) => Arrives("shm") \/ Lost
  BY <1>1 DEF SendWord, Ends, Arrives, Lost
<1>4. SendWord("board", FALSE) => Arrives("board") \/ Lost
  BY <1>1 DEF SendWord, Ends, Arrives, Lost
<1>5. QED
  BY <1>2, <1>3, <1>4

LEMMA WordTyped ==
  ASSUME TypeOK, NEW word \in WordKinds, Arrives(word) \/ Lost
  PROVE  /\ toScript' \in [Conns -> Seq(WordKinds)]
         /\ up' \in BOOLEAN /\ stray' \in BOOLEAN
<1>1. /\ toScript \in [Conns -> Seq(WordKinds)]
      /\ up \in BOOLEAN /\ stray \in BOOLEAN
  BY DEF TypeOK
<1>2. CASE Lost
  BY <1>1, <1>2 DEF Lost
<1>3. CASE Arrives(word)
  <2>1. commFd \in Conns
    BY <1>3 DEF Arrives, TypeOK
  <2>2. Append(toScript[commFd], word) \in Seq(WordKinds)
    BY <1>1, <2>1, AppendProperties
  <2>3. toScript' = [toScript EXCEPT ![commFd] = Append(@, word)]
    BY <1>3 DEF Arrives
  <2>4. toScript' \in [Conns -> Seq(WordKinds)]
    BY <1>1, <2>1, <2>2, <2>3
  <2>5. QED
    BY <1>1, <1>3, <2>4 DEF Arrives
<1>4. QED
  BY <1>2, <1>3

(* The int that counts the bytes of the segment.                           *)
LEMMA Remainder ==
  ASSUME NEW a \in Nat, NEW d \in Nat \ {0}
  PROVE  a % d \in 0..(d - 1) /\ (a < d => a % d = a)
<1>1. PICK q \in Nat, r \in 0..(d - 1) : r = a % d /\ a = d * q + r
  <2>1. /\ a \div d \in Nat /\ a % d \in 0..(d - 1)
        /\ a = d * (a \div d) + (a % d)
    OBVIOUS
  <2>2. QED
    BY <2>1
<1>2. ASSUME a < d
      PROVE  a = r
  <2>1. q = 0 \/ q >= 1
    OBVIOUS
  <2>2. ASSUME q >= 1
        PROVE  FALSE
    <3>1. PICK k \in Nat : q = k + 1
      BY <2>2
    <3>2. d * (k + 1) = d * k + d /\ d * k \in Nat
      OBVIOUS
    <3>3. QED
      BY <1>1, <1>2, <3>1, <3>2
  <2>3. QED
    BY <1>1, <2>1, <2>2
<1>3. QED
  BY <1>1, <1>2

LEMMA DataSizeIs ==
  ASSUME size \in Nat
  PROVE  /\ DataSize \in Int /\ DataSize <= IntMax
         /\ size <= IntMax => DataSize = size
<1>1. PICK m \in Nat \ {0} : m = IntMax
  BY IpcAssumption
<1>2. PICK a \in Nat : a = size + m + 1
  OBVIOUS
<1>3. PICK d \in Nat \ {0} : d = 2 * (m + 1)
  OBVIOUS
<1>b. a % d \in 0..(d - 1) /\ (a < d => a % d = a)
  BY Remainder, Zenon
<1>4. PICK r \in 0..(d - 1) : r = a % d /\ (a < d => r = a)
  BY <1>b
<1>5. DataSize = r - (m + 1)
  BY <1>1, <1>2, <1>3, <1>4 DEF DataSize
<1>6. DataSize \in Int /\ DataSize <= m
  BY <1>3, <1>4, <1>5
<1>7. ASSUME size <= m
      PROVE  DataSize = size
  <2>1. a < d
    BY <1>2, <1>3, <1>7
  <2>2. QED
    BY <1>2, <1>4, <1>5, <2>1
<1>8. QED
  BY <1>1, <1>6, <1>7

LEMMA ScriptTypes ==
  ASSUME TypeOK,
         \/ Connect \/ Disconnect \/ Shutdown
         \/ \E n \in Sizes : Resize(n)
         \/ AskAndWait("query", "pulse")
         \/ AskAndWait("info", "board")
         \/ AskAndWait("share", "shm")
         \/ ScriptReads \/ TimeOut
  PROVE  TypeOK'
<1> USE DEF serverVars, netVars, scriptVars
<1>1. /\ "query" \in Ops /\ "info" \in Ops /\ "list" \in Ops /\ "share" \in Ops
      /\ "release" \in Ops /\ "resize" \in Ops /\ "shutdown" \in Ops
      /\ 0 \in Nat /\ Sizes \subseteq Nat
  BY IpcAssumption DEF Ops
<1>2. /\ "pulse" \in WordKinds /\ "board" \in WordKinds
      /\ "list" \in WordKinds /\ "shm" \in WordKinds
  BY DEF WordKinds
<1>3. toScript \in [Conns -> Seq(WordKinds)] /\ careless \in BOOLEAN
  BY DEF TypeOK
<1>4. CASE Connect
  <2>1. conns + 1 \in Conns
    BY <1>4, IpcAssumption DEF Connect, TypeOK, Conns, NoConn
  <2>2. backlog' \in Seq(Conns)
    <3>1. backlog \in Seq(Conns) /\ backlog' = Append(backlog, conns + 1)
      BY <1>4 DEF Connect, TypeOK
    <3>2. QED
      BY <2>1, <3>1, AppendProperties
  <2>3. QED
    BY <1>4, <2>1, <2>2 DEF Connect, TypeOK
<1>5. CASE Disconnect
  <2>1. toScript' \in [Conns -> Seq(WordKinds)]
    BY <1>3, <1>5, EmptySeq DEF Disconnect
  <2>2. careless' \in BOOLEAN
    BY <1>5 DEF Disconnect
  <2>3. QED
    BY <1>5, <2>1, <2>2 DEF Disconnect, TypeOK
<1>6. CASE Shutdown
  <2>1. py = "free" /\ Ask("shutdown", 0)
    BY <1>6 DEF Shutdown
  <2>2. toServer' \in [Conns -> Seq(Requests)]
    BY <1>1, <2>1, AskIs
  <2>3. toScript' \in [Conns -> Seq(WordKinds)]
    BY <1>3, <1>6, EmptySeq DEF Shutdown
  <2>4. careless' \in BOOLEAN
    BY <1>6 DEF Shutdown
  <2>5. QED
    BY <1>6, <2>2, <2>3, <2>4 DEF Shutdown, TypeOK
<1>7. ASSUME NEW n \in Sizes, Resize(n)
      PROVE  TypeOK'
  <2>1. py = "free" /\ Ask("resize", n) /\ n \in Nat
    BY <1>1, <1>7 DEF Resize
  <2>2. toServer' \in [Conns -> Seq(Requests)]
    BY <1>1, <2>1, AskIs
  <2>3. careless' \in BOOLEAN
    BY <1>7 DEF Resize
  <2>4. QED
    BY <1>7, <2>2, <2>3 DEF Resize, TypeOK
<1>8. ASSUME NEW op \in Ops \ {"resize"}, NEW word \in WordKinds,
             AskAndWait(op, word)
      PROVE  TypeOK'
  <2>1. py = "free" /\ Ask(op, 0)
    BY <1>8 DEF AskAndWait
  <2>2. toServer' \in [Conns -> Seq(Requests)]
    BY <1>1, <2>1, AskIs
  <2>3. QED
    BY <1>8, <2>1, <2>2 DEF AskAndWait, TypeOK
<1>9. CASE ReadPulse
  <2>1. toScript' \in [Conns -> Seq(WordKinds)]
    BY <1>9, OneWord, TakeIs DEF ReadPulse
  <2>2. QED
    BY <1>9, <2>1 DEF ReadPulse, TypeOK
<1>10. CASE ReadBoard
  <2>1. toScript' \in [Conns -> Seq(WordKinds)]
    BY <1>10, OneWord, TakeIs DEF ReadBoard
  <2>2. QED
    BY <1>10, <2>1 DEF ReadBoard, TypeOK
<1>11. CASE NoMoreBoards
  <2>1. py = "board" /\ Ask("list", 0)
    BY <1>11 DEF NoMoreBoards
  <2>2. toServer' \in [Conns -> Seq(Requests)]
    BY <1>1, <2>1, AskIs
  <2>3. careless' \in BOOLEAN
    BY <1>11 DEF NoMoreBoards
  <2>4. QED
    BY <1>2, <1>11, <2>1, <2>2, <2>3 DEF NoMoreBoards, TypeOK
<1>12. CASE ReadList
  <2>1. py = "list" /\ ListLen <= Len(Words) /\ Take(ListLen)
    <3>1. Len(Words) \in Nat
      <4>1. PICK w \in Seq(WordKinds) : w = Words
        BY <1>12 DEF ReadList, TypeOK, Words
      <4>2. QED
        BY <4>1, LenProperties
    <3>2. QED
      BY <1>12, <3>1, IpcAssumption DEF ReadList
  <2>2. toScript' \in [Conns -> Seq(WordKinds)]
    BY <2>1, IpcAssumption, TakeIs
  <2>3. QED
    BY <1>12, <2>1, <2>2 DEF ReadList, TypeOK
<1>13. CASE ReadShm
  <2>1. py = "shm" /\ Words # <<>> /\ Take(1) /\ Ask("release", 0)
    BY <1>13 DEF ReadShm
  <2>2. toScript' \in [Conns -> Seq(WordKinds)]
    BY <2>1, OneWord, TakeIs
  <2>3. toServer' \in [Conns -> Seq(Requests)]
    BY <1>1, <2>1, AskIs
  <2>4. QED
    BY <1>13, <2>1, <2>2, <2>3 DEF ReadShm, TypeOK
<1>14. CASE TimeOut
  BY <1>14 DEF TimeOut, TypeOK
<1>15. QED
  BY <1>1, <1>2, <1>4, <1>5, <1>6, <1>7, <1>8, <1>9, <1>10, <1>11, <1>12,
     <1>13, <1>14 DEF ScriptReads

LEMMA HandleTypes ==
  ASSUME TypeOK, NEW c \in Conns, Handle(c)
  PROVE  TypeOK'
<1>1. /\ size \in Sizes /\ size \in Nat /\ seg \in 0..IntMax
      /\ NumBoards \in Nat /\ IntMax \in Nat
      /\ toScript \in [Conns -> Seq(WordKinds)]
      /\ up \in BOOLEAN /\ stray \in BOOLEAN
      /\ pulses \in Nat /\ asked \in Nat
  BY IpcAssumption DEF TypeOK
<1>2. ASSUME NEW op, Request(c, op),
             pulses' \in Nat, asked' \in Nat,
             size' \in Sizes, seg' \in 0..IntMax,
             up' \in BOOLEAN, stray' \in BOOLEAN,
             toScript' \in [Conns -> Seq(WordKinds)]
      PROVE  TypeOK'
  <2>1. /\ toServer' \in [Conns -> Seq(Requests)]
        /\ backlog' = backlog /\ held' = held /\ commFd' = commFd
        /\ reused' = reused /\ py' = py /\ conns' = conns
        /\ careless' = careless
    BY <1>2, RequestIs
  <2>2. QED
    BY <1>2, <2>1 DEF TypeOK
<1>3. CASE HandleQuery(c)
  <2>1. Request(c, "query") /\ pulses' \in Nat
        /\ UNCHANGED <<up, stray, asked, size, seg, toScript>>
    BY <1>1, <1>3 DEF HandleQuery
  <2>2. QED
    BY <1>1, <1>2, <2>1 DEF TypeOK
<1>4. CASE HandleInfo(c)
  <2>1. Request(c, "info") /\ asked' \in Nat
        /\ UNCHANGED <<up, stray, pulses, size, seg, toScript>>
    BY <1>1, <1>4 DEF HandleInfo
  <2>2. QED
    BY <1>1, <1>2, <2>1 DEF TypeOK
<1>5. CASE HandleList(c)
  <2>1. Request(c, "list") /\ UNCHANGED <<pulses, asked, size, seg>>
    BY <1>5 DEF HandleList
  <2>2. /\ toScript' \in [Conns -> Seq(WordKinds)]
        /\ up' \in BOOLEAN /\ stray' \in BOOLEAN
    <3>1. CASE Ends
      BY <1>1, <3>1 DEF Ends
    <3>2. CASE /\ toScript' = [toScript EXCEPT ![c] = @ \o List]
               /\ UNCHANGED <<up, stray>>
      <4>1. toScript[c] \o List \in Seq(WordKinds)
        BY <1>1, ListIs, ConcatProperties
      <4>2. QED
        BY <1>1, <3>2, <4>1
    <3>3. QED
      BY <1>5, <3>1, <3>2 DEF HandleList
  <2>3. QED
    BY <1>1, <1>2, <2>1, <2>2 DEF TypeOK
<1>6. CASE HandleResize(c)
  <2>1. /\ Request(c, "resize") /\ size' = Head(toServer[c]).n
        /\ UNCHANGED <<up, stray, pulses, asked, seg, toScript>>
    BY <1>6 DEF HandleResize
  <2>2. size' \in Sizes
    BY <2>1, RequestIs DEF Requests
  <2>3. QED
    BY <1>1, <1>2, <2>1, <2>2 DEF TypeOK
<1>7. CASE HandleShare(c)
  <2>1. Request(c, "share") /\ UNCHANGED <<pulses, asked, size>>
    BY <1>7 DEF HandleShare
  <2>2. CASE /\ Gets(DataSize)
             /\ seg' = IF seg = 0 THEN DataSize ELSE seg
             /\ SendWord("shm", TRUE)
    <3>1. seg' \in 0..IntMax
      <4>1. DataSize \in Int /\ DataSize <= IntMax
        BY <1>1, DataSizeIs
      <4>2. seg = 0 => DataSize >= 1
        BY <2>2 DEF Gets
      <4>3. seg' = IF seg = 0 THEN DataSize ELSE seg
        BY <2>2
      <4>4. QED
        BY <1>1, <4>1, <4>2, <4>3
    <3>2. Arrives("shm") \/ Lost
      BY <2>2, SendIs
    <3>3. "shm" \in WordKinds
      BY DEF WordKinds
    <3>4. QED
      BY <1>1, <1>2, <2>1, <3>1, <3>2, <3>3, WordTyped DEF TypeOK
  <2>3. CASE Ends /\ UNCHANGED seg
    BY <1>1, <1>2, <2>1, <2>3 DEF TypeOK, Ends
  <2>4. QED
    BY <1>7, <2>2, <2>3 DEF HandleShare
<1>8. CASE HandleRelease(c)
  <2>1. /\ Request(c, "release") /\ seg' = 0
        /\ UNCHANGED <<up, stray, pulses, asked, size, toScript>>
    BY <1>8 DEF HandleRelease
  <2>2. seg' \in 0..IntMax
    BY <1>1, <2>1
  <2>3. QED
    BY <1>1, <1>2, <2>1, <2>2 DEF TypeOK
<1>9. CASE HandleShutdown(c)
  <2>1. /\ Request(c, "shutdown") /\ up' = FALSE
        /\ UNCHANGED <<toScript, stray, pulses, asked, size, seg>>
    BY <1>9 DEF HandleShutdown, Ends
  <2>2. QED
    BY <1>1, <1>2, <2>1 DEF TypeOK
<1>10. QED
  BY <1>3, <1>4, <1>5, <1>6, <1>7, <1>8, <1>9 DEF Handle

LEMMA ServerTypes ==
  ASSUME TypeOK,
         \/ \E c \in Conns : Accept(c) \/ Drop(c) \/ Handle(c)
         \/ BoardAnswers \/ PulseCompletes
         \/ BoardConnects \/ Relaunch
  PROVE  TypeOK'
<1> USE DEF netVars, scriptVars
<1>1. ASSUME NEW c \in Conns, Accept(c)
      PROVE  TypeOK'
  <2>1. backlog \in Seq(Conns) /\ backlog # <<>>
    BY <1>1 DEF Accept, TypeOK
  <2>2. Tail(backlog) \in Seq(Conns)
    BY <2>1, HeadTailProperties
  <2>3. QED
    BY <1>1, <2>2 DEF Accept, TypeOK
<1>2. ASSUME NEW c \in Conns, Drop(c)
      PROVE  TypeOK'
  BY <1>2 DEF Drop, TypeOK
<1>3. CASE BoardAnswers
  <2>1. Arrives("board") \/ Lost
    BY <1>3, SendIs DEF BoardAnswers
  <2>2. "board" \in WordKinds
    BY DEF WordKinds
  <2>3. /\ toScript' \in [Conns -> Seq(WordKinds)]
        /\ up' \in BOOLEAN /\ stray' \in BOOLEAN
    BY <2>1, <2>2, WordTyped
  <2>4. asked' \in Nat
    BY <1>3, IpcAssumption DEF BoardAnswers, TypeOK
  <2>5. QED
    BY <1>3, <2>3, <2>4 DEF BoardAnswers, TypeOK
<1>4. CASE PulseCompletes
  <2>1. Arrives("pulse") \/ Lost
    BY <1>4, SendIs DEF PulseCompletes
  <2>2. "pulse" \in WordKinds
    BY DEF WordKinds
  <2>3. /\ toScript' \in [Conns -> Seq(WordKinds)]
        /\ up' \in BOOLEAN /\ stray' \in BOOLEAN
    BY <2>1, <2>2, WordTyped
  <2>4. QED
    BY <1>4, <2>3 DEF PulseCompletes, TypeOK
<1>5. CASE BoardConnects
  BY <1>5 DEF BoardConnects, TypeOK
<1>6. CASE Relaunch
  <2>1. asked' \in Nat
    BY <1>6, IpcAssumption DEF Relaunch
  <2>2. /\ toServer' \in [Conns -> Seq(Requests)]
        /\ toScript' \in [Conns -> Seq(WordKinds)]
        /\ backlog' \in Seq(Conns)
    BY <1>6, EmptySeq DEF Relaunch
  <2>3. careless' \in BOOLEAN
    BY <1>6 DEF Relaunch
  <2>4. QED
    BY <1>6, <2>1, <2>2, <2>3 DEF Relaunch, TypeOK
<1>7. QED
  BY <1>1, <1>2, <1>3, <1>4, <1>5, <1>6, HandleTypes

LEMMA TypeInit == Init => TypeOK
<1> SUFFICES ASSUME Init PROVE TypeOK
  OBVIOUS
<1>1. /\ asked \in Nat /\ seg \in 0..IntMax
  BY IpcAssumption DEF Init
<1>2. /\ toServer \in [Conns -> Seq(Requests)]
      /\ toScript \in [Conns -> Seq(WordKinds)]
      /\ backlog \in Seq(Conns)
  BY EmptySeq DEF Init
<1>3. QED
  BY <1>1, <1>2 DEF Init, TypeOK, NoConn

LEMMA TypeStep == TypeOK /\ [Next]_ipcVars => TypeOK'
<1> SUFFICES ASSUME TypeOK, [Next]_ipcVars PROVE TypeOK'
  OBVIOUS
<1>1. CASE UNCHANGED ipcVars
  BY <1>1 DEF ipcVars, serverVars, netVars, scriptVars, TypeOK
<1>2. CASE Next
  BY <1>2, ScriptTypes, ServerTypes DEF Next
<1>3. QED
  BY <1>1, <1>2

(* Whatever scripts do with the socket, the server's count of boards that  *)
(* answer, the segment's size and the queues stay what their handlers      *)
(* assume.                                                                 *)
THEOREM TypeCorrect == Spec => []TypeOK
<1>1. Init => TypeOK
  BY TypeInit
<1>2. TypeOK /\ [Next]_ipcVars => TypeOK'
  BY TypeStep
<1>3. QED
  BY <1>1, <1>2, PTL DEF Spec

-----------------------------------------------------------------------------
(* The order of the connections *)

LEMMA Queued ==
  ASSUME NEW q \in Seq(Conns), NEW lo \in Nat, NEW hi \in Nat, lo <= hi,
         hi + 1 \in Conns, Ascending(q, lo, hi)
  PROVE  Ascending(Append(q, hi + 1), lo, hi + 1)
<1> DEFINE a == Append(q, hi + 1)
<1>1. /\ Len(a) = Len(q) + 1 /\ Len(q) \in Nat
      /\ a[Len(q) + 1] = hi + 1
      /\ \A i \in 1..Len(q) : a[i] = q[i] /\ q[i] \in Nat
  <2>1. \A i \in 1..Len(q) : q[i] \in Conns
    BY ElementOfSeq
  <2>2. \A c \in Conns : c \in Nat
    BY IpcAssumption DEF Conns
  <2>3. QED
    BY <2>1, <2>2, AppendProperties, LenProperties
<1>2. \A i \in 1..Len(a) : (i \in 1..Len(q) /\ a[i] = q[i]) \/ a[i] = hi + 1
  BY <1>1
<1>3. \A i \in 1..Len(a) : lo < a[i] /\ a[i] <= hi + 1
  BY <1>1, <1>2 DEF Ascending
<1>4. ASSUME NEW i \in 1..Len(a), NEW j \in 1..Len(a), i < j
      PROVE  a[i] < a[j]
  <2>1. i \in 1..Len(q)
    BY <1>1, <1>4
  <2>2. a[i] = q[i] /\ q[i] <= hi /\ q[i] \in Nat
    BY <1>1, <2>1 DEF Ascending
  <2>3. CASE j \in 1..Len(q)
    BY <1>1, <1>4, <2>1, <2>3 DEF Ascending
  <2>4. CASE a[j] = hi + 1
    BY <2>2, <2>4
  <2>5. QED
    BY <1>2, <2>3, <2>4
<1>5. QED
  BY <1>3, <1>4 DEF Ascending

LEMMA Accepting ==
  ASSUME NEW q \in Seq(Conns), q # <<>>, NEW lo \in Nat, NEW hi \in Nat,
         Ascending(q, lo, hi)
  PROVE  /\ Head(q) \in Conns /\ lo < Head(q) /\ Head(q) <= hi
         /\ Ascending(Tail(q), Head(q), hi)
<1> DEFINE t == Tail(q)
<1>1. /\ Len(q) \in Nat \ {0} /\ Len(t) = Len(q) - 1
      /\ \A i \in 1..Len(t) : t[i] = q[i + 1]
      /\ Head(q) \in Conns
  BY HeadTailProperties, EmptySeq
<1>2. Head(q) = q[1] /\ 1 \in 1..Len(q)
  BY <1>1
<1>3. \A i \in 1..Len(t) : i + 1 \in 1..Len(q) /\ t[i] = q[i + 1] /\ 1 < i + 1
  BY <1>1
<1>4. \A i \in 1..Len(t) : q[1] < t[i] /\ t[i] <= hi
  BY <1>2, <1>3 DEF Ascending
<1>5. ASSUME NEW i \in 1..Len(t), NEW j \in 1..Len(t), i < j
      PROVE  t[i] < t[j]
  BY <1>3, <1>5 DEF Ascending
<1>6. lo < q[1] /\ q[1] <= hi
  BY <1>2 DEF Ascending
<1>7. QED
  BY <1>1, <1>2, <1>4, <1>5, <1>6 DEF Ascending

LEMMA NothingQueued ==
  ASSUME NEW lo, NEW hi
  PROVE  Ascending(<<>>, lo, hi)
<1>1. Len(<<>>) = 0
  BY EmptySeq
<1>2. 1..Len(<<>>) = {}
  BY <1>1
<1>3. QED
  BY <1>2 DEF Ascending

LEMMA OrderInit == Init => InOrder
<1> SUFFICES ASSUME Init PROVE InOrder
  OBVIOUS
<1>1. /\ backlog = <<>> /\ held = {} /\ commFd = 0 /\ conns = 0
      /\ \A c \in Conns : toServer[c] = <<>>
  BY DEF Init, NoConn
<1>2. QED
  BY <1>1, NothingQueued DEF InOrder

LEMMA OrderStep == TypeOK /\ InOrder /\ [Next]_ipcVars => InOrder'
<1> SUFFICES ASSUME TypeOK, InOrder, [Next]_ipcVars PROVE InOrder'
  OBVIOUS
<1> USE DEF serverVars, netVars, scriptVars
<1>1. /\ commFd \in Nat /\ conns \in Nat /\ commFd <= conns
      /\ backlog \in Seq(Conns) /\ held \subseteq Conns
      /\ \A c \in Conns : c \in Nat
      /\ MaxConns \in Nat
  BY IpcAssumption DEF TypeOK, InOrder, Conns, NoConn
<1>2. ASSUME backlog' = backlog, commFd' = commFd, held' \subseteq held,
             conns' = conns,
             \A c \in Conns : c > conns => toServer'[c] = toServer[c]
      PROVE  InOrder'
  BY <1>2 DEF InOrder
<1>3. ASSUME NEW op \in Ops, NEW n \in Nat, op = "resize" => n \in Sizes,
             Ask(op, n), py # "off", conns' = conns,
             UNCHANGED <<backlog, commFd, held>>
      PROVE  InOrder'
  <2>1. \A c \in Conns : c > conns => c # conns
    BY <1>1
  <2>2. \A c \in Conns : c # conns => toServer'[c] = toServer[c]
    BY <1>3, AskIs
  <2>3. QED
    BY <1>2, <1>3, <2>1, <2>2
<1>4. /\ "query" \in Ops /\ "info" \in Ops /\ "list" \in Ops /\ "share" \in Ops
      /\ "release" \in Ops /\ "resize" \in Ops /\ "shutdown" \in Ops
      /\ 0 \in Nat /\ Sizes \subseteq Nat
  BY IpcAssumption DEF Ops
<1>5. CASE Connect
  <2>1. /\ conns < MaxConns /\ conns' = conns + 1
        /\ backlog' = Append(backlog, conns + 1)
        /\ UNCHANGED <<commFd, held, toServer>>
    BY <1>5 DEF Connect
  <2>2. conns + 1 \in Conns
    BY <1>1, <2>1 DEF Conns
  <2>3. Ascending(backlog', commFd, conns + 1)
    BY <1>1, <2>1, <2>2, Queued DEF InOrder
  <2>4. \A c \in Conns : c > conns + 1 => c > conns
    BY <1>1
  <2>5. commFd <= conns + 1
    BY <1>1
  <2>6. QED
    BY <2>1, <2>3, <2>4, <2>5 DEF InOrder
<1>6. CASE Disconnect
  BY <1>2, <1>6 DEF Disconnect
<1>7. CASE Shutdown
  BY <1>3, <1>4, <1>7 DEF Shutdown
<1>8. ASSUME NEW n \in Sizes, Resize(n)
      PROVE  InOrder'
  BY <1>3, <1>4, <1>8 DEF Resize
<1>9. ASSUME NEW op \in Ops \ {"resize"}, NEW word, AskAndWait(op, word)
      PROVE  InOrder'
  BY <1>3, <1>4, <1>9 DEF AskAndWait
<1>10. CASE ReadPulse \/ ReadBoard \/ ReadList \/ TimeOut
  BY <1>2, <1>10 DEF ReadPulse, ReadBoard, ReadList, TimeOut
<1>11. CASE NoMoreBoards
  BY <1>3, <1>4, <1>11 DEF NoMoreBoards
<1>12. CASE ReadShm
  BY <1>3, <1>4, <1>12 DEF ReadShm
<1>13. ASSUME NEW c \in Conns, Accept(c)
       PROVE  InOrder'
  <2>1. /\ backlog # <<>> /\ c = Head(backlog) /\ backlog' = Tail(backlog)
        /\ held' = held \cup {c} /\ commFd' = c
        /\ UNCHANGED <<toServer, conns>>
    BY <1>13 DEF Accept
  <2>2. commFd < c /\ c <= conns /\ Ascending(Tail(backlog), c, conns)
    BY <1>1, <2>1, Accepting DEF InOrder
  <2>3. \A d \in held \cup {c} : d <= c
    BY <1>1, <2>2 DEF InOrder
  <2>4. QED
    BY <2>1, <2>2, <2>3 DEF InOrder
<1>14. ASSUME NEW c \in Conns, Drop(c)
       PROVE  InOrder'
  BY <1>2, <1>14 DEF Drop
<1>15. ASSUME NEW c \in Conns, NEW op, Request(c, op)
       PROVE  InOrder'
  <2>1. /\ toServer[c] # <<>>
        /\ \A d \in Conns : d # c => toServer'[d] = toServer[d]
        /\ backlog' = backlog /\ held' = held /\ commFd' = commFd
        /\ conns' = conns
    BY <1>15, RequestIs
  <2>2. ~(c > conns)
    BY <2>1 DEF InOrder
  <2>3. QED
    BY <1>2, <2>1, <2>2
<1>16. ASSUME NEW c \in Conns, Handle(c)
       PROVE  InOrder'
  BY <1>15, <1>16 DEF Handle, HandleQuery, HandleInfo, HandleList, HandleResize,
     HandleShare, HandleRelease, HandleShutdown
<1>17. CASE BoardAnswers \/ PulseCompletes \/ BoardConnects
  BY <1>2, <1>17 DEF BoardAnswers, PulseCompletes, BoardConnects
<1>18. CASE Relaunch
  <2>1. /\ backlog' = <<>> /\ held' = {} /\ commFd' = 0 /\ conns' = conns
        /\ \A c \in Conns : toServer'[c] = <<>>
    BY <1>18 DEF Relaunch, NoConn
  <2>2. QED
    BY <1>1, <2>1, NothingQueued DEF InOrder
<1>19. CASE UNCHANGED ipcVars
  BY <1>2, <1>19 DEF ipcVars
<1>20. QED
  BY <1>4, <1>5, <1>6, <1>7, <1>8, <1>9, <1>10, <1>11, <1>12, <1>13, <1>14,
     <1>16, <1>17, <1>18, <1>19 DEF Next, ScriptReads

(* The connection accepted last is the script's when it is held.           *)
LEMMA Accepted ==
  ASSUME TypeOK, InOrder, conns \in held, py # "off"
  PROVE  commFd = conns /\ commFd \in held /\ Open(commFd)
<1>1. commFd \in Nat /\ conns \in Nat /\ conns <= commFd /\ commFd <= conns
  BY DEF TypeOK, InOrder, Conns, NoConn
<1>2. QED
  BY <1>1 DEF Open

-----------------------------------------------------------------------------
(* What a session goes through *)

(* Nothing has been asked: whatever the script waits for, nothing comes.   *)
LEMMA Idle ==
  ASSUME NEW q \in Seq(Requests), NEW p, NEW pl \in Nat, pl = 0,
         NEW as \in Nat, as = 0, NEW sg \in Nat, NEW sz \in Nat,
         Mute(q), Fits(q), sz <= IntMax, sg = 0 \/ Releases(q)
  PROVE  Session(q, <<>>, p, pl, as, sg, sz)
BY DEF Session, Talk

LEMMA Free ==
  ASSUME NEW q \in Seq(Requests), NEW w \in Seq(WordKinds),
         NEW pl \in Nat, NEW as \in Nat, NEW sg \in Nat, NEW sz \in Nat,
         Session(q, w, "free", pl, as, sg, sz)
  PROVE  /\ Mute(q) /\ w = <<>> /\ pl = 0 /\ as = 0
         /\ sz <= IntMax /\ Fits(q) /\ (sg = 0 \/ Releases(q))
<1>1. ~Awaits(q, "free")
  BY DEF Awaits, Asks
<1>2. Mute(q) /\ w = <<>>
  BY <1>1 DEF Session, Talk
<1>3. QED
  BY <1>2 DEF Session

(* The script asks.                                                        *)
LEMMA Asking ==
  ASSUME NEW q \in Seq(Requests), NEW r \in Requests,
         NEW word, Asks(r.op, word), NEW a, a = Append(q, r),
         NEW pl \in Nat, pl = 0, NEW as \in Nat, as = 0,
         NEW sg \in Nat, NEW sz \in Nat,
         Mute(q), Fits(q), sz <= IntMax, sg = 0 \/ Releases(q)
  PROVE  Session(a, <<>>, word, pl, as, sg, sz)
<1>1. r.op # "resize"
  BY DEF Asks
<1>2. Awaits(a, word) /\ Fits(a) /\ (Releases(q) => Releases(a))
  BY <1>1, RequestAppended
<1>3. QED
  BY <1>2 DEF Session, Talk

(* The script reads a word, or its list.                                   *)
LEMMA WordsRead ==
  ASSUME NEW q \in Seq(Requests), NEW w \in Seq(WordKinds), w # <<>>, NEW p,
         NEW pl \in Nat, NEW as \in Nat, NEW sg \in Nat, NEW sz \in Nat,
         Session(q, w, p, pl, as, sg, sz)
  PROVE  /\ p = "pulse" => /\ Len(w) = 1 /\ Mute(q) /\ pl = 0 /\ as = 0
                           /\ sz <= IntMax /\ Fits(q) /\ (sg = 0 \/ Releases(q))
         /\ p = "list" => /\ Len(w) = ListLen /\ Mute(q) /\ pl = 0 /\ as = 0
                          /\ sz <= IntMax /\ Fits(q) /\ (sg = 0 \/ Releases(q))
         /\ p = "shm" => /\ Len(w) = 1 /\ q = <<>> /\ pl = 0 /\ as = 0
                         /\ sz <= IntMax /\ sg = sz
         /\ p = "board" => AllOf(w, "board") /\ Mute(q)
<1>1. Len(<<"pulse">>) = 1 /\ Len(<<"shm">>) = 1
  OBVIOUS
<1>2. p = "pulse" => Mute(q) /\ w = <<"pulse">> /\ pl = 0
  BY DEF Session, Talk
<1>3. p = "list" => Mute(q) /\ w = List
  BY DEF Session, Talk
<1>4. p = "shm" => q = <<>> /\ w = <<"shm">> /\ sg = sz
  BY DEF Session, Talk
<1>5. p = "board" => AllOf(w, "board") /\ Mute(q)
  BY DEF Session, Talk
<1>6. /\ sz <= IntMax /\ Fits(q)
      /\ (pl # 0 => p = "pulse") /\ (as # 0 => p = "board")
      /\ sg = 0 \/ p = "shm" \/ Releases(q)
  BY DEF Session
<1>7. QED
  BY <1>1, <1>2, <1>3, <1>4, <1>5, <1>6, ListIs

LEMMA BoardRead ==
  ASSUME NEW q \in Seq(Requests), NEW w \in Seq(WordKinds), w # <<>>,
         NEW v \in Seq(WordKinds), AllOf(w, "board") => AllOf(v, "board"),
         NEW pl \in Nat, NEW as \in Nat, NEW sg \in Nat, NEW sz \in Nat,
         Session(q, w, "board", pl, as, sg, sz)
  PROVE  Session(q, v, "board", pl, as, sg, sz)
<1>1. AllOf(w, "board") /\ Mute(q)
  BY DEF Session, Talk
<1>2. QED
  BY <1>1 DEF Session, Talk

(* The server takes a request that has no answer, ...                      *)
Taken(q, h, t) == q # <<>> /\ h = Head(q) /\ t = Tail(q)
Settles(h, sg, sz, nsg, nsz) ==
  /\ h.op = "release" => nsg = 0 /\ nsz = sz
  /\ h.op = "resize" => nsg = sg /\ nsz = h.n

LEMMA MuteTaken ==
  ASSUME NEW q \in Seq(Requests), NEW h, NEW t, Taken(q, h, t),
         h.op \in MuteOps,
         NEW w \in Seq(WordKinds), NEW p, NEW pl \in Nat, NEW as \in Nat,
         NEW sg \in Nat, NEW sz \in Nat, NEW nsg \in Nat, NEW nsz \in Nat,
         Session(q, w, p, pl, as, sg, sz),
         Settles(h, sg, sz, nsg, nsz)
  PROVE  Session(t, w, p, pl, as, nsg, nsz)
<1>1. h.op = "release" \/ h.op = "resize"
  BY DEF MuteOps
<1>2. /\ Mute(q) => Mute(t)
      /\ Awaits(q, p) => Awaits(t, p)
      /\ Fits(q) => Fits(t) /\ (h.op = "resize" => h.n <= IntMax)
      /\ Releases(q) => Releases(t) \/ h.op = "release"
  BY <1>1, RequestTaken DEF Asks, Taken
<1>3. /\ sz <= IntMax /\ Fits(q)
      /\ (pl # 0 => p = "pulse" /\ pl = 1) /\ (as # 0 => p = "board")
      /\ sg = 0 \/ (p = "shm" /\ w # <<>>) \/ Releases(q)
      /\ \/ Awaits(q, p) /\ w = <<>> /\ pl = 0 /\ as = 0
         \/ Mute(q) /\ w = <<>>
         \/ Mute(q) /\ p = "pulse" /\ w = <<"pulse">> /\ pl = 0
         \/ Mute(q) /\ p = "board" /\ AllOf(w, "board")
         \/ Mute(q) /\ p = "list" /\ w = List
  BY DEF Session, Talk, Taken
<1>4. nsg = 0 \/ Releases(t)
  BY <1>1, <1>2, <1>3 DEF Settles
<1>5. nsz <= IntMax /\ Fits(t)
  BY <1>1, <1>2, <1>3 DEF Settles
<1>6. Talk(t, w, p, pl, as, nsg, nsz)
  BY <1>2, <1>3 DEF Talk
<1>7. QED
  BY <1>3, <1>4, <1>5, <1>6 DEF Session

(* ... or the one the script waits for, ...                                *)
LEMMA AskTaken ==
  ASSUME NEW q \in Seq(Requests), q # <<>>, NEW h, h = Head(q),
         NEW t, t = Tail(q), h.op \notin MuteOps,
         NEW w \in Seq(WordKinds), NEW p, NEW pl \in Nat, NEW as \in Nat,
         NEW sg \in Nat, NEW sz \in Nat,
         Session(q, w, p, pl, as, sg, sz)
  PROVE  /\ Asks(h.op, p) /\ t = <<>> /\ w = <<>> /\ pl = 0 /\ as = 0
         /\ sg = 0 /\ sz <= IntMax
<1>1. ~Mute(q) /\ (Awaits(q, p) => Asks(h.op, p) /\ t = <<>>)
  BY RequestTaken
<1>2. Awaits(q, p) /\ w = <<>> /\ pl = 0 /\ as = 0
  BY <1>1 DEF Session, Talk
<1>3. ~Releases(q)
  BY <1>1, <1>2, RequestTaken, NoRequests DEF MuteOps
<1>4. sg = 0 /\ sz <= IntMax
  BY <1>2, <1>3 DEF Session
<1>5. QED
  BY <1>1, <1>2, <1>4

(* ... which leaves the script's queue empty.                              *)
LEMMA Answering ==
  ASSUME NEW w \in Seq(WordKinds), NEW p, NEW pl \in Nat, NEW as \in Nat,
         NEW sg \in Nat, NEW sz \in Nat, sz <= IntMax,
         pl # 0 => p = "pulse" /\ pl = 1, as # 0 => p = "board",
         \/ w = <<>> /\ sg = 0
         \/ w = List /\ p = "list" /\ sg = 0
         \/ w = <<"shm">> /\ p = "shm" /\ sg = sz
  PROVE  Session(<<>>, w, p, pl, as, sg, sz)
<1>1. Mute(<<>>) /\ Fits(<<>>)
  BY NoRequests
<1>2. <<"shm">> # <<>>
  OBVIOUS
<1>3. sg = 0 \/ (p = "shm" /\ w # <<>>)
  BY <1>2
<1>4. Talk(<<>>, w, p, pl, as, sg, sz)
  BY <1>1 DEF Talk
<1>5. QED
  BY <1>1, <1>3, <1>4 DEF Session

(* The pulse is there, or a board's number.                                *)
LEMMA PulseCame ==
  ASSUME NEW q \in Seq(Requests), NEW w \in Seq(WordKinds), NEW p,
         NEW pl \in Nat, pl # 0, NEW npl \in Nat, npl = pl - 1,
         NEW as \in Nat, NEW sg \in Nat, NEW sz \in Nat,
         Session(q, w, p, pl, as, sg, sz)
  PROVE  /\ p = "pulse" /\ w = <<>>
         /\ Session(q, <<"pulse">>, p, npl, as, sg, sz)
<1>0. pl = 1 /\ npl = 0
  BY DEF Session
<1>1. p = "pulse" /\ Mute(q) /\ w = <<>>
  <2>1. p = "pulse"
    BY DEF Session
  <2>2. QED
    BY <2>1 DEF Session, Talk
<1>2. Talk(q, <<"pulse">>, p, npl, as, sg, sz)
  BY <1>0, <1>1 DEF Talk
<1>3. sg = 0 \/ Releases(q)
  BY <1>1 DEF Session
<1>4. QED
  BY <1>0, <1>1, <1>2, <1>3 DEF Session

LEMMA BoardCame ==
  ASSUME NEW q \in Seq(Requests), NEW w \in Seq(WordKinds), NEW p,
         NEW pl \in Nat, NEW as \in Nat, NEW nas \in Nat, as # 0,
         NEW sg \in Nat, NEW sz \in Nat,
         Session(q, w, p, pl, as, sg, sz)
  PROVE  p = "board" /\ Session(q, Append(w, "board"), p, pl, nas, sg, sz)
<1>1. p = "board" /\ pl = 0
  BY DEF Session
<1>2. Mute(q) /\ AllOf(w, "board")
  BY <1>1, NoRequests DEF Session, Talk
<1>3. AllOf(Append(w, "board"), "board")
  BY <1>2, WordAppended DEF WordKinds
<1>4. Talk(q, Append(w, "board"), p, pl, nas, sg, sz)
  BY <1>1, <1>2, <1>3 DEF Talk
<1>5. sg = 0 \/ Releases(q)
  BY <1>1 DEF Session
<1>6. QED
  BY <1>1, <1>4, <1>5 DEF Session

-----------------------------------------------------------------------------
(* Steps of the script *)

LEMMA Here ==
  ASSUME TypeOK
  PROVE  /\ py # "off" => /\ conns \in Conns
                          /\ toServer[conns] \in Seq(Requests)
                          /\ toScript[conns] \in Seq(WordKinds)
         /\ pulses \in Nat /\ asked \in Nat /\ seg \in Nat
         /\ size \in Nat \ {0} /\ IntMax \in Nat /\ conns \in Nat
         /\ careless \in BOOLEAN
<1>1. NumBoards \in Nat /\ IntMax \in Nat /\ Sizes \subseteq Nat \ {0}
  BY IpcAssumption
<1>2. QED
  BY <1>1 DEF TypeOK, Conns, NoConn

(* A session that goes on, the connections before it left as they are.     *)
LEMMA GoesOn ==
  ASSUME TypeOK, Careful, py # "off", py' # "off", conns' = conns,
         \A c \in Conns : c # conns => /\ toServer'[c] = toServer[c]
                                       /\ toScript'[c] = toScript[c],
         pulses' # 0 \/ asked' # 0 => conns \in held',
         Session(toServer'[conns], toScript'[conns], py', pulses', asked',
                 seg', size')
  PROVE  Careful'
<1>1. NothingLeft'
  BY DEF Careful, NothingLeft, Open
<1>2. QED
  BY <1>1 DEF Careful

LEMMA ConnectCareful ==
  ASSUME TypeOK, InOrder, Careful, Connect
  PROVE  Careful'
<1>1. /\ py = "off" /\ conns < MaxConns /\ conns' = conns + 1 /\ py' = "free"
      /\ pulses' = pulses /\ asked' = asked /\ seg' = seg /\ size' = size
      /\ toServer' = toServer /\ toScript' = toScript /\ held' = held
  BY DEF Connect, netVars
<1>2. /\ pulses = 0 /\ asked = 0 /\ seg = 0 /\ size <= IntMax
      /\ \A c \in Conns : toScript[c] = <<>> /\ Over(toServer[c])
  BY <1>1 DEF Careful, NothingLeft, Open
<1>3. conns + 1 \in Conns /\ conns + 1 > conns
  BY <1>1, Here, IpcAssumption DEF Conns
<1>4. toServer[conns + 1] = <<>> /\ toScript[conns + 1] = <<>>
  BY <1>2, <1>3 DEF InOrder
<1>5. Session(<<>>, <<>>, "free", pulses, asked, seg, size)
  <2>1. Mute(<<>>) /\ Fits(<<>>) /\ <<>> \in Seq(Requests)
    BY NoRequests, EmptySeq
  <2>2. QED
    BY <1>2, <2>1, Here, Idle
<1>6. NothingLeft'
  BY <1>1, <1>2 DEF NothingLeft
<1>7. QED
  BY <1>1, <1>2, <1>4, <1>5, <1>6 DEF Careful

(* Whoever leaves without owing anything leaves nothing.                   *)
LEMMA LeaveCareful ==
  ASSUME TypeOK, Careful, py = "free", ~Owed, py' = "off",
         UNCHANGED <<serverVars, conns>>,
         toScript' = [toScript EXCEPT ![conns] = <<>>],
         \A c \in Conns : c # conns => toServer'[c] = toServer[c],
         Over(toServer'[conns])
  PROVE  Careful'
<1>1. /\ conns \in Conns /\ toServer[conns] = <<>> /\ pulses = 0 /\ asked = 0
      /\ toScript \in [Conns -> Seq(WordKinds)]
  BY Here DEF Owed, TypeOK
<1>2. size <= IntMax /\ (seg = 0 \/ Releases(<<>>))
  <2>1. PICK q \in Seq(Requests), w \in Seq(WordKinds) :
          q = toServer[conns] /\ w = toScript[conns]
    BY Here
  <2>2. Session(q, w, "free", pulses, asked, seg, size)
    BY <2>1 DEF Careful
  <2>3. size <= IntMax /\ (seg = 0 \/ Releases(q))
    BY <2>2, Here, Free
  <2>4. QED
    BY <1>1, <2>1, <2>3
<1>3. seg = 0
  BY <1>2, NoRequests
<1>4. \A c \in Conns : toScript'[c] = <<>> /\ Over(toServer'[c])
  <2>1. \A c \in Conns : c # conns => toScript[c] = <<>> /\ Over(toServer[c])
    BY DEF Careful, NothingLeft, Open
  <2>2. QED
    BY <1>1, <2>1
<1>5. NothingLeft'
  BY <1>4 DEF NothingLeft
<1>6. pulses' = pulses /\ asked' = asked /\ seg' = seg /\ size' = size
  BY DEF serverVars
<1>7. QED
  BY <1>1, <1>2, <1>3, <1>5, <1>6 DEF Careful

LEMMA DisconnectCareful ==
  ASSUME TypeOK, Careful, Disconnect, ~careless'
  PROVE  Careful'
<1>1. ~Owed
  BY DEF Disconnect
<1>2. py = "free" /\ toServer[conns] = <<>>
  BY <1>1 DEF Owed
<1>3. Over(toServer'[conns]) /\ toServer' = toServer
  BY <1>2, NoRequests DEF Disconnect
<1>4. QED
  BY <1>1, <1>2, <1>3, LeaveCareful DEF Disconnect

LEMMA ShutdownCareful ==
  ASSUME TypeOK, Careful, Shutdown, ~careless'
  PROVE  Careful'
<1>1. ~Owed /\ py = "free" /\ Ask("shutdown", 0)
  BY DEF Shutdown
<1>2. PICK r \in Requests :
        /\ r.op = "shutdown"
        /\ toServer'[conns] = Append(toServer[conns], r)
        /\ \A c \in Conns : c # conns => toServer'[c] = toServer[c]
  BY <1>1, AskIs DEF Ops
<1>3. Over(toServer'[conns])
  <2>1. toServer[conns] = <<>> /\ <<>> \in Seq(Requests)
    BY <1>1, EmptySeq DEF Owed
  <2>2. QED
    BY <1>2, <2>1, NoRequests, RequestAppended
<1>4. QED
  BY <1>1, <1>2, <1>3, LeaveCareful DEF Shutdown

(* A request the server does not answer; more memory than an int can count *)
(* is careless.                                                            *)
LEMMA ResizeCareful ==
  ASSUME TypeOK, Careful, NEW n \in Sizes, Resize(n), n <= IntMax
  PROVE  Careful'
<1>1. /\ py = "free" /\ py' = py /\ conns' = conns /\ toScript' = toScript
      /\ pulses' = pulses /\ asked' = asked /\ seg' = seg /\ size' = size
      /\ held' = held /\ Ask("resize", n)
  BY DEF Resize, serverVars
<1>2. PICK r \in Requests :
        /\ r.op = "resize" /\ r.n = n
        /\ toServer'[conns] = Append(toServer[conns], r)
        /\ \A c \in Conns : c # conns => toServer'[c] = toServer[c]
  BY <1>1, IpcAssumption, AskIs DEF Ops
<1>3. PICK q \in Seq(Requests), w \in Seq(WordKinds) :
        q = toServer[conns] /\ w = toScript[conns]
  BY <1>1, Here
<1>4. /\ Mute(q) /\ w = <<>> /\ pulses = 0 /\ asked = 0
      /\ size <= IntMax /\ Fits(q) /\ (seg = 0 \/ Releases(q))
  <2>1. Session(q, w, "free", pulses, asked, seg, size)
    BY <1>1, <1>3 DEF Careful
  <2>2. QED
    BY <2>1, Here, Free
<1>5. PICK a \in Seq(Requests) :
        /\ a = Append(q, r)
        /\ Mute(a) /\ Fits(a) /\ (Releases(q) => Releases(a))
  BY <1>2, <1>4, RequestAppended DEF MuteOps
<1>6. Session(a, <<>>, "free", pulses, asked, seg, size)
  BY <1>4, <1>5, Here, Idle
<1>7. toServer'[conns] = a /\ toScript'[conns] = <<>>
  BY <1>1, <1>2, <1>3, <1>4, <1>5
<1>8. QED
  BY <1>1, <1>2, <1>4, <1>6, <1>7, GoesOn

LEMMA AskCareful ==
  ASSUME TypeOK, Careful, NEW op \in Ops, NEW word \in WordKinds,
         Asks(op, word), AskAndWait(op, word)
  PROVE  Careful'
<1>1. /\ py = "free" /\ py' = word /\ conns' = conns /\ toScript' = toScript
      /\ pulses' = pulses /\ asked' = asked /\ seg' = seg /\ size' = size
      /\ held' = held /\ Ask(op, 0) /\ op # "resize" /\ py' # "off"
  BY DEF AskAndWait, serverVars, WordKinds, Asks
<1>2. PICK r \in Requests :
        /\ r.op = op
        /\ toServer'[conns] = Append(toServer[conns], r)
        /\ \A c \in Conns : c # conns => toServer'[c] = toServer[c]
  BY <1>1, AskIs
<1>3. PICK q \in Seq(Requests), w \in Seq(WordKinds) :
        q = toServer[conns] /\ w = toScript[conns]
  BY <1>1, Here
<1>4. /\ Mute(q) /\ w = <<>> /\ pulses = 0 /\ asked = 0
      /\ size <= IntMax /\ Fits(q) /\ (seg = 0 \/ Releases(q))
  <2>1. Session(q, w, "free", pulses, asked, seg, size)
    BY <1>1, <1>3 DEF Careful
  <2>2. QED
    BY <2>1, Here, Free
<1>5. PICK a : a = Append(q, r)
  OBVIOUS
<1>6. Session(a, <<>>, word, pulses, asked, seg, size)
  BY <1>2, <1>4, <1>5, Here, Asking
<1>7. toServer'[conns] = a /\ toScript'[conns] = <<>>
  BY <1>1, <1>2, <1>3, <1>4, <1>5
<1>8. QED
  BY <1>1, <1>2, <1>4, <1>6, <1>7, GoesOn

LEMMA ReadPulseCareful ==
  ASSUME TypeOK, Careful, ReadPulse
  PROVE  Careful'
<1>1. /\ py = "pulse" /\ Words # <<>> /\ Take(1)
      /\ py' = "free" /\ conns' = conns /\ toServer' = toServer
      /\ pulses' = pulses /\ asked' = asked /\ seg' = seg /\ size' = size
      /\ held' = held
  BY DEF ReadPulse, serverVars
<1>2. PICK q \in Seq(Requests), w \in Seq(WordKinds) :
        q = toServer[conns] /\ w = toScript[conns]
  BY <1>1, Here
<1>3. /\ w # <<>> /\ 1 <= Len(w)
      /\ toScript'[conns] = SubSeq(w, 1 + 1, Len(w))
      /\ \A c \in Conns : c # conns => toScript'[c] = toScript[c]
  BY <1>1, <1>2, OneWord, TakeIs DEF Words
<1>4. /\ Len(w) = 1 /\ Mute(q) /\ pulses = 0 /\ asked = 0
      /\ size <= IntMax /\ Fits(q) /\ (seg = 0 \/ Releases(q))
  <2>1. Session(q, w, py, pulses, asked, seg, size)
    BY <1>1, <1>2 DEF Careful
  <2>2. QED
    BY <1>1, <1>3, <2>1, Here, WordsRead
<1>5. toScript'[conns] = <<>>
  BY <1>3, <1>4, WordsTaken
<1>6. Session(q, <<>>, "free", pulses, asked, seg, size)
  BY <1>4, Here, Idle
<1>7. QED
  BY <1>1, <1>2, <1>3, <1>4, <1>5, <1>6, GoesOn

LEMMA ReadListCareful ==
  ASSUME TypeOK, Careful, ReadList
  PROVE  Careful'
<1>1. /\ py = "list" /\ Len(Words) >= ListLen /\ Take(ListLen)
      /\ py' = "free" /\ conns' = conns /\ toServer' = toServer
      /\ pulses' = pulses /\ asked' = asked /\ seg' = seg /\ size' = size
      /\ held' = held
  BY DEF ReadList, serverVars
<1>2. PICK q \in Seq(Requests), w \in Seq(WordKinds) :
        q = toServer[conns] /\ w = toScript[conns]
  BY <1>1, Here
<1>3. ListLen \in Nat /\ ListLen # 0 /\ Len(w) \in Nat /\ ListLen <= Len(w)
  BY <1>1, <1>2, IpcAssumption, LenProperties DEF Words
<1>4. w # <<>>
  BY <1>3, EmptySeq
<1>5. /\ toScript'[conns] = SubSeq(w, ListLen + 1, Len(w))
      /\ \A c \in Conns : c # conns => toScript'[c] = toScript[c]
  BY <1>1, <1>2, <1>3, TakeIs DEF Words
<1>6. /\ Len(w) = ListLen /\ Mute(q) /\ pulses = 0 /\ asked = 0
      /\ size <= IntMax /\ Fits(q) /\ (seg = 0 \/ Releases(q))
  <2>1. Session(q, w, py, pulses, asked, seg, size)
    BY <1>1, <1>2 DEF Careful
  <2>2. QED
    BY <1>1, <1>4, <2>1, Here, WordsRead
<1>7. toScript'[conns] = <<>>
  BY <1>3, <1>5, <1>6, WordsTaken
<1>8. Session(q, <<>>, "free", pulses, asked, seg, size)
  BY <1>6, Here, Idle
<1>9. QED
  BY <1>1, <1>2, <1>5, <1>6, <1>7, <1>8, GoesOn

LEMMA ReadBoardCareful ==
  ASSUME TypeOK, Careful, ReadBoard
  PROVE  Careful'
<1>1. /\ py = "board" /\ Words # <<>> /\ Take(1)
      /\ py' = py /\ conns' = conns /\ toServer' = toServer
      /\ pulses' = pulses /\ asked' = asked /\ seg' = seg /\ size' = size
      /\ held' = held
  BY DEF ReadBoard, serverVars, scriptVars
<1>2. PICK q \in Seq(Requests), w \in Seq(WordKinds) :
        q = toServer[conns] /\ w = toScript[conns]
  BY <1>1, Here
<1>3. /\ w # <<>> /\ 1 <= Len(w)
      /\ toScript'[conns] = SubSeq(w, 1 + 1, Len(w))
      /\ \A c \in Conns : c # conns => toScript'[c] = toScript[c]
  BY <1>1, <1>2, OneWord, TakeIs DEF Words
<1>4. PICK v \in Seq(WordKinds) :
        /\ v = toScript'[conns]
        /\ AllOf(w, "board") => AllOf(v, "board")
  BY <1>3, WordsTaken
<1>5. Session(q, w, "board", pulses, asked, seg, size)
  BY <1>1, <1>2 DEF Careful
<1>6. Session(q, v, "board", pulses, asked, seg, size)
  BY <1>3, <1>4, <1>5, Here, BoardRead
<1>7. pulses # 0 \/ asked # 0 => conns \in held
  BY DEF Careful
<1>8. QED
  BY <1>1, <1>2, <1>3, <1>4, <1>6, <1>7, GoesOn

(* All boards have answered when none answers any more.                    *)
LEMMA NoMoreBoardsCareful ==
  ASSUME TypeOK, Careful, NoMoreBoards, ~careless'
  PROVE  Careful'
<1>1. /\ py = "board" /\ Words = <<>> /\ Ask("list", 0)
      /\ ~(asked > 0) /\ toServer[conns] = <<>>
      /\ py' = "list" /\ conns' = conns /\ toScript' = toScript
      /\ pulses' = pulses /\ asked' = asked /\ seg' = seg /\ size' = size
      /\ held' = held
  BY DEF NoMoreBoards, serverVars
<1>2. PICK r \in Requests :
        /\ r.op = "list"
        /\ toServer'[conns] = Append(toServer[conns], r)
        /\ \A c \in Conns : c # conns => toServer'[c] = toServer[c]
  BY <1>1, AskIs DEF Ops
<1>3. PICK q \in Seq(Requests), w \in Seq(WordKinds) :
        q = toServer[conns] /\ w = toScript[conns]
  BY <1>1, Here
<1>4. q = <<>> /\ w = <<>> /\ Mute(q) /\ Fits(q) /\ ~Releases(q)
  BY <1>1, <1>3, NoRequests DEF Words
<1>5. pulses = 0 /\ asked = 0 /\ size <= IntMax /\ seg = 0
  <2>1. Session(q, w, "board", pulses, asked, seg, size)
    BY <1>1, <1>3 DEF Careful
  <2>2. QED
    BY <1>1, <1>4, <2>1, Here DEF Session
<1>6. PICK a : a = Append(q, r)
  OBVIOUS
<1>7. Asks(r.op, "list")
  BY <1>2 DEF Asks
<1>8. Session(a, <<>>, "list", pulses, asked, seg, size)
  BY <1>4, <1>5, <1>6, <1>7, Here, Asking
<1>9. toServer'[conns] = a /\ toScript'[conns] = <<>>
  BY <1>1, <1>2, <1>3, <1>4, <1>6
<1>10. QED
  BY <1>1, <1>2, <1>5, <1>8, <1>9, GoesOn

LEMMA ReadShmCareful ==
  ASSUME TypeOK, Careful, ReadShm
  PROVE  Careful'
<1>1. /\ py = "shm" /\ Words # <<>> /\ Take(1) /\ Ask("release", 0)
      /\ py' = "free" /\ conns' = conns
      /\ pulses' = pulses /\ asked' = asked /\ seg' = seg /\ size' = size
      /\ held' = held
  BY DEF ReadShm, serverVars
<1>2. PICK q \in Seq(Requests), w \in Seq(WordKinds) :
        q = toServer[conns] /\ w = toScript[conns]
  BY <1>1, Here
<1>3. /\ w # <<>> /\ 1 <= Len(w)
      /\ toScript'[conns] = SubSeq(w, 1 + 1, Len(w))
      /\ \A c \in Conns : c # conns => toScript'[c] = toScript[c]
  BY <1>1, <1>2, OneWord, TakeIs DEF Words
<1>4. PICK r \in Requests :
        /\ r.op = "release"
        /\ toServer'[conns] = Append(toServer[conns], r)
        /\ \A c \in Conns : c # conns => toServer'[c] = toServer[c]
  BY <1>1, AskIs DEF Ops
<1>5. Len(w) = 1 /\ q = <<>> /\ pulses = 0 /\ asked = 0 /\ size <= IntMax
  <2>1. Session(q, w, py, pulses, asked, seg, size)
    BY <1>1, <1>2 DEF Careful
  <2>2. QED
    BY <1>1, <1>3, <2>1, Here, WordsRead
<1>6. toScript'[conns] = <<>>
  BY <1>3, <1>5, WordsTaken
<1>7. PICK a \in Seq(Requests) :
        a = toServer'[conns] /\ Mute(a) /\ Fits(a) /\ Releases(a)
  BY <1>2, <1>4, <1>5, NoRequests, RequestAppended DEF MuteOps
<1>8. Session(a, <<>>, "free", pulses, asked, seg, size)
  BY <1>5, <1>7, Here, Idle
<1>9. QED
  BY <1>1, <1>3, <1>4, <1>5, <1>6, <1>7, <1>8, GoesOn

-----------------------------------------------------------------------------
(* Steps of the server *)

LEMMA AcceptCareful ==
  ASSUME TypeOK, Careful, NEW c \in Conns, Accept(c)
  PROVE  Careful'
<1>1. /\ toServer' = toServer /\ toScript' = toScript /\ py' = py
      /\ pulses' = pulses /\ asked' = asked /\ seg' = seg /\ size' = size
      /\ conns' = conns /\ held \subseteq held'
  BY DEF Accept, netVars, scriptVars
<1>2. NothingLeft'
  BY <1>1 DEF Careful, NothingLeft, Open
<1>3. QED
  BY <1>1, <1>2 DEF Careful

(* The connection that is dropped is not the one that waits.               *)
LEMMA DropCareful ==
  ASSUME TypeOK, Careful, NEW c \in Conns, Drop(c)
  PROVE  Careful'
<1>1. /\ toServer' = toServer /\ toScript' = toScript /\ py' = py
      /\ pulses' = pulses /\ asked' = asked /\ seg' = seg /\ size' = size
      /\ conns' = conns /\ held' = held \ {c} /\ ~Open(c)
  BY DEF Drop, netVars, scriptVars
<1>2. NothingLeft'
  BY <1>1 DEF Careful, NothingLeft, Open
<1>3. pulses # 0 \/ asked # 0 => conns \in held \ {c}
  BY <1>1 DEF Careful, Open
<1>4. QED
  BY <1>1, <1>2, <1>3 DEF Careful

LEMMA BoardConnectsCareful ==
  ASSUME TypeOK, Careful, BoardConnects
  PROVE  Careful'
<1>1. /\ toServer' = toServer /\ toScript' = toScript /\ py' = py
      /\ pulses' = pulses /\ asked' = asked /\ seg' = seg /\ size' = size
      /\ conns' = conns /\ held' = held
  BY DEF BoardConnects, netVars, scriptVars
<1>2. NothingLeft'
  BY <1>1 DEF Careful, NothingLeft, Open
<1>3. QED
  BY <1>1, <1>2 DEF Careful

LEMMA RelaunchCareful ==
  ASSUME TypeOK, Careful, Relaunch, ~careless'
  PROVE  Careful'
<1>1. /\ py = "off" /\ py' = "off" /\ pulses' = 0 /\ asked' = 0
      /\ seg' = seg /\ size' = size
      /\ \A c \in Conns : toServer'[c] = <<>> /\ toScript'[c] = <<>>
  BY DEF Relaunch
<1>2. NothingLeft'
  BY <1>1, NoRequests DEF NothingLeft
<1>3. QED
  BY <1>1, <1>2 DEF Careful

(* The order to shut down comes from a script that has left; any other     *)
(* request from the one that is there.                                     *)
LEMMA WhoAsks ==
  ASSUME TypeOK, Careful, NEW c \in Conns, NEW op, Request(c, op)
  PROVE  /\ op # "shutdown" => Open(c)
         /\ Open(c) => op # "shutdown"
<1>1. PICK q \in Seq(Requests) : q = toServer[c] /\ q # <<>> /\ Head(q).op = op
  <2>1. toServer[c] \in Seq(Requests)
    BY DEF TypeOK
  <2>2. QED
    BY <2>1, RequestIs
<1>2. ASSUME ~Open(c)
      PROVE  op = "shutdown"
  <2>1. Over(q)
    BY <1>1, <1>2 DEF Careful, NothingLeft
  <2>2. QED
    BY <1>1, <2>1, RequestTaken
<1>3. ASSUME Open(c)
      PROVE  op # "shutdown"
  <2>1. c = conns /\ py # "off"
    BY <1>3 DEF Open
  <2>2. PICK w \in Seq(WordKinds) : w = toScript[conns]
    BY <2>1, Here
  <2>3. Session(q, w, py, pulses, asked, seg, size)
    BY <1>1, <2>1, <2>2 DEF Careful
  <2>4. PICK h, t : h = Head(q) /\ t = Tail(q)
    OBVIOUS
  <2>5. /\ pulses \in Nat /\ asked \in Nat /\ seg \in Nat /\ size \in Nat
        /\ q # <<>>
    BY <1>1, Here
  <2>6. h.op \notin MuteOps => Asks(h.op, py)
    BY <2>3, <2>4, <2>5, AskTaken
  <2>7. QED
    BY <1>1, <2>4, <2>6 DEF MuteOps, Asks
<1>4. QED
  BY <1>2, <1>3

LEMMA ShutdownHandled ==
  ASSUME TypeOK, Careful, NEW c \in Conns, HandleShutdown(c)
  PROVE  Careful'
<1>1. /\ Request(c, "shutdown") /\ toScript' = toScript
      /\ pulses' = pulses /\ asked' = asked /\ seg' = seg /\ size' = size
  BY DEF HandleShutdown, Ends
<1>2. /\ toServer[c] # <<>> /\ toServer'[c] = Tail(toServer[c])
      /\ \A d \in Conns : d # c => toServer'[d] = toServer[d]
      /\ held' = held /\ py' = py /\ conns' = conns
  BY <1>1, RequestIs
<1>3. ~Open(c)
  BY <1>1, WhoAsks
<1>4. Over(toServer'[c])
  <2>1. PICK q \in Seq(Requests) : q = toServer[c]
    BY DEF TypeOK
  <2>2. Over(q)
    BY <1>3, <2>1 DEF Careful, NothingLeft
  <2>3. QED
    BY <1>2, <2>1, <2>2, RequestTaken
<1>5. NothingLeft'
  BY <1>1, <1>2, <1>4 DEF Careful, NothingLeft, Open
<1>6. CASE py = "off"
  BY <1>1, <1>2, <1>5, <1>6 DEF Careful
<1>7. CASE py # "off"
  <2>1. c # conns /\ conns \in Conns
    BY <1>3, <1>7, Here DEF Open
  <2>2. toServer'[conns] = toServer[conns]
    BY <1>2, <2>1
  <2>3. QED
    BY <1>1, <1>2, <1>5, <1>7, <2>2 DEF Careful
<1>8. QED
  BY <1>6, <1>7

(* What the server finds at the front of the script's queue.               *)
LEMMA Handling ==
  ASSUME TypeOK, Careful, NEW c \in Conns, NEW op, op # "shutdown",
         Request(c, op)
  PROVE  /\ c = conns /\ py # "off" /\ py' # "off" /\ conns' = conns
         /\ up /\ conns \in held' /\ held' = held
         /\ toServer[conns] # <<>> /\ toServer'[conns] = Tail(toServer[conns])
         /\ Head(toServer[conns]).op = op
         /\ \A d \in Conns : d # conns => toServer'[d] = toServer[d]
         /\ py' = py /\ commFd' = commFd
<1>1. Open(c)
  BY WhoAsks
<1>2. QED
  BY <1>1, RequestIs DEF Open

LEMMA QuietlyHandled ==
  ASSUME TypeOK, Careful, NEW c \in Conns, HandleResize(c) \/ HandleRelease(c)
  PROVE  Careful'
<1>1. PICK op \in MuteOps :
        /\ Request(c, op) /\ toScript' = toScript /\ pulses' = pulses
        /\ asked' = asked
        /\ op = "resize" => seg' = seg /\ size' = Head(toServer[c]).n
        /\ op = "release" => seg' = 0 /\ size' = size
  BY DEF HandleResize, HandleRelease, MuteOps
<1>2. /\ c = conns /\ py # "off" /\ py' # "off" /\ conns' = conns
      /\ conns \in held'
      /\ toServer[conns] # <<>> /\ toServer'[conns] = Tail(toServer[conns])
      /\ Head(toServer[conns]).op = op /\ py' = py
      /\ \A d \in Conns : d # conns => toServer'[d] = toServer[d]
  BY <1>1, Handling DEF MuteOps
<1>3. PICK q \in Seq(Requests), w \in Seq(WordKinds) :
        q = toServer[conns] /\ w = toScript[conns]
  BY <1>2, Here
<1>4. PICK nsg \in Nat, nsz \in Nat : nsg = seg' /\ nsz = size'
  <2>1. TypeOK'
    BY HandleTypes DEF Handle
  <2>2. QED
    BY <2>1, IpcAssumption DEF TypeOK
<1>5. PICK h, t : h = Head(q) /\ t = Tail(q)
  OBVIOUS
<1>6. Session(q, w, py, pulses, asked, seg, size)
  BY <1>2, <1>3 DEF Careful
<1>7. q # <<>> /\ h.op \in MuteOps
  BY <1>2, <1>3, <1>5
<1>8. Settles(h, seg, size, nsg, nsz)
  BY <1>1, <1>2, <1>3, <1>4, <1>5 DEF Settles
<1>9. Session(t, w, py, pulses, asked, nsg, nsz)
  <2>1. pulses \in Nat /\ asked \in Nat /\ seg \in Nat /\ size \in Nat
    BY Here
  <2>2. Taken(q, h, t)
    BY <1>5, <1>7 DEF Taken
  <2>3. QED
    BY <1>6, <1>7, <1>8, <2>1, <2>2, MuteTaken
<1>10. toServer'[conns] = t /\ toScript'[conns] = w
  BY <1>1, <1>2, <1>3, <1>5
<1>11. QED
  BY <1>1, <1>2, <1>4, <1>9, <1>10, GoesOn

(* The request that has an answer is the only one, and the script waits    *)
(* for it with nothing else under way.                                     *)
LEMMA Asked ==
  ASSUME TypeOK, Careful, NEW c \in Conns, NEW op,
         op \notin MuteOps \cup {"shutdown"}, Request(c, op)
  PROVE  /\ c = conns /\ py # "off" /\ py' # "off" /\ conns' = conns
         /\ up /\ conns \in held' /\ held' = held
         /\ Asks(op, py) /\ py' = py
         /\ toServer'[conns] = <<>> /\ toScript[conns] = <<>>
         /\ pulses = 0 /\ asked = 0 /\ seg = 0 /\ size <= IntMax
         /\ \A d \in Conns : d # conns => toServer'[d] = toServer[d]
<1>1. /\ c = conns /\ py # "off" /\ py' # "off" /\ conns' = conns
      /\ up /\ conns \in held' /\ held' = held
      /\ toServer[conns] # <<>> /\ toServer'[conns] = Tail(toServer[conns])
      /\ Head(toServer[conns]).op = op /\ py' = py
      /\ \A d \in Conns : d # conns => toServer'[d] = toServer[d]
  BY Handling
<1>2. PICK q \in Seq(Requests), w \in Seq(WordKinds) :
        q = toServer[conns] /\ w = toScript[conns]
  BY <1>1, Here
<1>3. PICK h, t : h = Head(q) /\ t = Tail(q)
  OBVIOUS
<1>4. Session(q, w, py, pulses, asked, seg, size)
  BY <1>1, <1>2 DEF Careful
<1>5. /\ pulses \in Nat /\ asked \in Nat /\ seg \in Nat /\ size \in Nat
      /\ q # <<>> /\ h.op \notin MuteOps
  BY <1>1, <1>2, <1>3, Here
<1>6. /\ Asks(h.op, py) /\ t = <<>> /\ w = <<>> /\ pulses = 0 /\ asked = 0
      /\ seg = 0 /\ size <= IntMax
  <2>1. h = Head(q) /\ t = Tail(q) /\ q # <<>> /\ h.op \notin MuteOps
    BY <1>3, <1>5
  <2>2. pulses \in Nat /\ asked \in Nat /\ seg \in Nat /\ size \in Nat
    BY <1>5
  <2>3. QED
    BY <1>4, <2>1, <2>2, AskTaken, SMTT(30)
<1>7. QED
  BY <1>1, <1>2, <1>3, <1>6

(* What the server sends goes to the script that has asked.                *)
LEMMA Heard ==
  ASSUME TypeOK, InOrder, conns \in held, py # "off",
         NEW word, Arrives(word) \/ Lost
  PROVE  /\ up' = up
         /\ toScript'[conns] = Append(toScript[conns], word)
         /\ \A d \in Conns : d # conns => toScript'[d] = toScript[d]
<1>1. commFd = conns /\ Arrives(word)
  BY Accepted DEF Lost
<1>2. /\ toScript' = [toScript EXCEPT ![conns] = Append(@, word)]
      /\ toScript \in [Conns -> Seq(WordKinds)] /\ conns \in Conns
  BY <1>1, Here DEF Arrives, TypeOK
<1>3. QED
  BY <1>1, <1>2 DEF Arrives

LEMMA QueryHandled ==
  ASSUME TypeOK, Careful, NEW c \in Conns, HandleQuery(c)
  PROVE  Careful' /\ up' = up
<1>1. /\ Request(c, "query") /\ pulses' = pulses + 1
      /\ up' = up /\ asked' = asked
      /\ size' = size /\ seg' = seg /\ toScript' = toScript
  BY DEF HandleQuery
<1>2. /\ py # "off" /\ py' # "off" /\ conns' = conns /\ conns \in held'
      /\ Asks("query", py) /\ py' = py
      /\ toServer'[conns] = <<>> /\ toScript[conns] = <<>>
      /\ pulses = 0 /\ asked = 0 /\ seg = 0 /\ size <= IntMax
      /\ \A d \in Conns : d # conns => toServer'[d] = toServer[d]
  BY <1>1, Asked DEF MuteOps
<1>3. PICK pl \in Nat : pl = pulses' /\ pl = 1
  BY <1>1, <1>2
<1>4. py = "pulse"
  BY <1>2 DEF Asks
<1>5. Session(<<>>, <<>>, py, pl, asked, seg, size)
  <2>1. <<>> \in Seq(WordKinds) /\ seg \in Nat /\ size \in Nat /\ asked \in Nat
    BY Here, EmptySeq
  <2>2. QED
    BY <1>2, <1>3, <1>4, <2>1, Answering
<1>6. QED
  BY <1>1, <1>2, <1>3, <1>5, GoesOn

LEMMA InfoHandled ==
  ASSUME TypeOK, Careful, NEW c \in Conns, HandleInfo(c)
  PROVE  Careful' /\ up' = up
<1>1. /\ Request(c, "info") /\ asked' = asked + NumBoards
      /\ up' = up /\ pulses' = pulses
      /\ size' = size /\ seg' = seg /\ toScript' = toScript
  BY DEF HandleInfo
<1>2. /\ py # "off" /\ py' # "off" /\ conns' = conns /\ conns \in held'
      /\ Asks("info", py) /\ py' = py
      /\ toServer'[conns] = <<>> /\ toScript[conns] = <<>>
      /\ pulses = 0 /\ asked = 0 /\ seg = 0 /\ size <= IntMax
      /\ \A d \in Conns : d # conns => toServer'[d] = toServer[d]
  BY <1>1, Asked DEF MuteOps
<1>3. py = "board"
  BY <1>2 DEF Asks
<1>4. Session(<<>>, <<>>, py, pulses, NumBoards, seg, size)
  <2>1. /\ <<>> \in Seq(WordKinds) /\ seg \in Nat /\ size \in Nat
        /\ pulses \in Nat /\ NumBoards \in Nat
    BY Here, EmptySeq, IpcAssumption
  <2>2. QED
    BY <1>2, <1>3, <2>1, Answering
<1>5. asked' = NumBoards
  BY <1>1, <1>2, IpcAssumption
<1>6. QED
  BY <1>1, <1>2, <1>4, <1>5, GoesOn

LEMMA ListHandled ==
  ASSUME TypeOK, Careful, NEW c \in Conns, HandleList(c)
  PROVE  Careful' /\ up' = up
<1>1. /\ Request(c, "list") /\ asked' = asked /\ pulses' = pulses
      /\ size' = size /\ seg' = seg
  BY DEF HandleList
<1>2. /\ c = conns /\ py # "off" /\ py' # "off" /\ conns' = conns
      /\ conns \in held' /\ Asks("list", py) /\ py' = py
      /\ toServer'[conns] = <<>> /\ toScript[conns] = <<>>
      /\ pulses = 0 /\ asked = 0 /\ seg = 0 /\ size <= IntMax
      /\ \A d \in Conns : d # conns => toServer'[d] = toServer[d]
  BY <1>1, Asked DEF MuteOps
<1>3. py = "list"
  BY <1>2 DEF Asks
<1>4. toScript' = [toScript EXCEPT ![conns] = @ \o List] /\ up' = up
  BY <1>2 DEF HandleList, Open
<1>5. /\ toScript'[conns] = List
      /\ \A d \in Conns : d # conns => toScript'[d] = toScript[d]
  <2>1. toScript \in [Conns -> Seq(WordKinds)] /\ conns \in Conns
    BY <1>2 DEF TypeOK
  <2>2. <<>> \o List = List
    BY ListIs, ConcatEmptySeq
  <2>3. QED
    BY <1>2, <1>4, <2>1, <2>2
<1>6. Session(<<>>, List, py, pulses, asked, seg, size)
  <2>1. /\ List \in Seq(WordKinds) /\ seg \in Nat /\ size \in Nat
        /\ pulses \in Nat /\ asked \in Nat
    BY Here, ListIs
  <2>2. QED
    BY <1>2, <1>3, <2>1, Answering
<1>7. QED
  BY <1>1, <1>2, <1>4, <1>5, <1>6, GoesOn

(* There is no segment yet, and the array's size is one that shmget takes. *)
LEMMA ShareHandled ==
  ASSUME TypeOK, InOrder, Careful, NEW c \in Conns, HandleShare(c)
  PROVE  Careful' /\ up' = up
<1>1. Request(c, "share") /\ asked' = asked /\ pulses' = pulses /\ size' = size
  BY DEF HandleShare
<1>2. /\ py # "off" /\ py' # "off" /\ conns' = conns
      /\ conns \in held' /\ held' = held /\ Asks("share", py) /\ py' = py
      /\ toServer'[conns] = <<>> /\ toScript[conns] = <<>>
      /\ pulses = 0 /\ asked = 0 /\ seg = 0 /\ size <= IntMax
      /\ \A d \in Conns : d # conns => toServer'[d] = toServer[d]
  BY <1>1, Asked DEF MuteOps
<1>3. py = "shm"
  BY <1>2 DEF Asks
<1>4. size \in Nat \ {0} /\ DataSize = size
  BY <1>2, Here, DataSizeIs
<1>5. seg' = size /\ SendWord("shm", TRUE)
  <2>1. Gets(DataSize)
    BY <1>2, <1>4 DEF Gets
  <2>2. QED
    BY <1>2, <1>4, <2>1 DEF HandleShare
<1>6. /\ up' = up /\ toScript'[conns] = <<"shm">>
      /\ \A d \in Conns : d # conns => toScript'[d] = toScript[d]
  <2>1. Arrives("shm") \/ Lost
    BY <1>5, SendIs
  <2>2. Append(<<>>, "shm") = <<"shm">>
    OBVIOUS
  <2>3. QED
    BY <1>2, <2>1, <2>2, Heard
<1>7. Session(<<>>, <<"shm">>, py, pulses, asked, size, size)
  <2>1. /\ <<"shm">> \in Seq(WordKinds) /\ size \in Nat
        /\ pulses \in Nat /\ asked \in Nat
    BY Here DEF WordKinds
  <2>2. QED
    BY <1>2, <1>3, <2>1, Answering
<1>8. QED
  BY <1>1, <1>2, <1>5, <1>6, <1>7, GoesOn

LEMMA BoardHandled ==
  ASSUME TypeOK, InOrder, Careful, BoardAnswers
  PROVE  Careful' /\ up' = up
<1>1. /\ asked > 0 /\ asked' = asked - 1 /\ SendWord("board", FALSE)
      /\ held' = held /\ pulses' = pulses /\ size' = size /\ seg' = seg
      /\ toServer' = toServer /\ py' = py /\ conns' = conns
  BY DEF BoardAnswers, scriptVars
<1>2. asked # 0 /\ asked \in Nat
  BY <1>1, Here
<1>3. py # "off" /\ conns \in held
  BY <1>2 DEF Careful
<1>4. /\ up' = up /\ toScript'[conns] = Append(toScript[conns], "board")
      /\ \A d \in Conns : d # conns => toScript'[d] = toScript[d]
  <2>1. Arrives("board") \/ Lost
    BY <1>1, SendIs
  <2>2. QED
    BY <1>3, <2>1, Heard
<1>5. PICK q \in Seq(Requests), w \in Seq(WordKinds) :
        q = toServer[conns] /\ w = toScript[conns]
  BY <1>3, Here
<1>6. PICK nas \in Nat : nas = asked'
  BY <1>1, <1>2
<1>7. Session(q, w, py, pulses, asked, seg, size)
  BY <1>3, <1>5 DEF Careful
<1>8. Session(q, Append(w, "board"), py, pulses, nas, seg, size)
  <2>1. pulses \in Nat /\ seg \in Nat /\ size \in Nat
    BY Here
  <2>2. QED
    BY <1>2, <1>7, <2>1, BoardCame
<1>9. QED
  BY <1>1, <1>3, <1>4, <1>5, <1>6, <1>8, GoesOn

LEMMA PulseHandled ==
  ASSUME TypeOK, InOrder, Careful, PulseCompletes
  PROVE  Careful' /\ up' = up
<1>1. /\ pulses > 0 /\ pulses' = pulses - 1 /\ SendWord("pulse", TRUE)
      /\ held' = held /\ asked' = asked /\ size' = size /\ seg' = seg
      /\ toServer' = toServer /\ py' = py /\ conns' = conns
  BY DEF PulseCompletes, scriptVars
<1>2. py # "off" /\ conns \in held
  BY <1>1, Here DEF Careful
<1>3. PICK q \in Seq(Requests), w \in Seq(WordKinds) :
        q = toServer[conns] /\ w = toScript[conns]
  BY <1>2, Here
<1>4. PICK npl \in Nat : npl = pulses' /\ npl = pulses - 1
  BY <1>1, Here
<1>5. Session(q, w, py, pulses, asked, seg, size)
  BY <1>2, <1>3 DEF Careful
<1>6. w = <<>> /\ Session(q, <<"pulse">>, py, npl, asked, seg, size)
  <2>1. asked \in Nat /\ seg \in Nat /\ size \in Nat
    BY Here
  <2>2. PICK pl \in Nat : pl = pulses /\ pl # 0
    BY <1>1, Here
  <2>3. Session(q, w, py, pl, asked, seg, size)
    BY <1>5, <2>2
  <2>4. w = <<>> /\ Session(q, <<"pulse">>, py, npl, asked, seg, size)
    BY <1>4, <2>1, <2>2, <2>3, PulseCame
  <2>5. QED
    BY <2>4
<1>7. /\ up' = up /\ toScript'[conns] = <<"pulse">>
      /\ \A d \in Conns : d # conns => toScript'[d] = toScript[d]
  <2>1. Arrives("pulse") \/ Lost
    BY <1>1, SendIs
  <2>2. Append(<<>>, "pulse") = <<"pulse">>
    OBVIOUS
  <2>3. QED
    BY <1>2, <1>3, <1>6, <2>1, <2>2, Heard
<1>8. QED
  BY <1>1, <1>2, <1>3, <1>4, <1>6, <1>7, GoesOn

-----------------------------------------------------------------------------
(* The invariant holds *)

LEMMA ScriptCareful ==
  ASSUME TypeOK, InOrder, Careful, ~careless',
         \/ Connect \/ Disconnect \/ Shutdown
         \/ \E n \in Sizes : Resize(n)
         \/ AskAndWait("query", "pulse")
         \/ AskAndWait("info", "board")
         \/ AskAndWait("share", "shm")
         \/ ScriptReads \/ TimeOut
  PROVE  Careful'
<1>1. ASSUME NEW n \in Sizes, Resize(n)
      PROVE  Careful'
  <2>1. ~(n > IntMax)
    BY <1>1 DEF Resize
  <2>2. n <= IntMax
    BY <2>1, IpcAssumption
  <2>3. QED
    BY <1>1, <2>2, ResizeCareful
<1>2. ASSUME AskAndWait("query", "pulse")
      PROVE  Careful'
  BY <1>2, AskCareful DEF Asks, Ops, WordKinds
<1>3. ASSUME AskAndWait("info", "board")
      PROVE  Careful'
  BY <1>3, AskCareful DEF Asks, Ops, WordKinds
<1>4. ASSUME AskAndWait("share", "shm")
      PROVE  Careful'
  BY <1>4, AskCareful DEF Asks, Ops, WordKinds
<1>5. ASSUME TimeOut
      PROVE  Careful'
  BY <1>5 DEF TimeOut
<1>6. QED
  BY <1>1, <1>2, <1>3, <1>4, <1>5, ConnectCareful, DisconnectCareful,
     ShutdownCareful, ReadPulseCareful, ReadBoardCareful, NoMoreBoardsCareful,
     ReadListCareful, ReadShmCareful DEF ScriptReads

LEMMA ServerCareful ==
  ASSUME TypeOK, InOrder, Careful, ~careless',
         \/ \E c \in Conns : Accept(c) \/ Drop(c) \/ Handle(c)
         \/ BoardAnswers \/ PulseCompletes
         \/ BoardConnects \/ Relaunch
  PROVE  Careful'
<1>1. ASSUME NEW c \in Conns, Handle(c)
      PROVE  Careful'
  BY <1>1, QueryHandled, InfoHandled, ListHandled, QuietlyHandled, ShareHandled,
     ShutdownHandled DEF Handle
<1>2. QED
  BY <1>1, AcceptCareful, DropCareful, BoardHandled, PulseHandled,
     BoardConnectsCareful, RelaunchCareful

(* Nobody takes carelessness back.                                         *)
LEMMA OnceCareless ==
  ASSUME TypeOK, Next, careless
  PROVE  careless'
<1> USE DEF scriptVars
<1>1. CASE ScriptReads
  BY <1>1 DEF ScriptReads, ReadPulse, ReadBoard, NoMoreBoards, ReadList, ReadShm
<1>2. ASSUME NEW c \in Conns, Accept(c) \/ Drop(c)
      PROVE  careless'
  BY <1>2 DEF Accept, Drop
<1>3. ASSUME NEW c \in Conns, Handle(c)
      PROVE  careless'
  BY <1>3 DEF Handle, HandleQuery, HandleInfo, HandleList, HandleResize,
     HandleShare, HandleRelease, HandleShutdown, Request
<1>4. ASSUME NEW n \in Sizes, Resize(n)
      PROVE  careless'
  BY <1>4 DEF Resize
<1>5. CASE \/ AskAndWait("query", "pulse") \/ AskAndWait("info", "board")
           \/ AskAndWait("share", "shm") \/ TimeOut
  BY <1>5 DEF AskAndWait, TimeOut
<1>6. CASE Connect \/ Disconnect \/ Shutdown
  BY <1>6 DEF Connect, Disconnect, Shutdown
<1>7. CASE BoardAnswers \/ PulseCompletes \/ BoardConnects \/ Relaunch
  BY <1>7 DEF BoardAnswers, PulseCompletes, BoardConnects, Relaunch
<1>8. QED
  BY <1>1, <1>2, <1>3, <1>4, <1>5, <1>6, <1>7 DEF Next

LEMMA SessionInit == Init => SessionInv
<1> SUFFICES ASSUME Init PROVE SessionInv
  OBVIOUS
<1>1. /\ pulses = 0 /\ asked = 0 /\ seg = 0 /\ size <= IntMax /\ py = "off"
      /\ \A c \in Conns : toServer[c] = <<>> /\ toScript[c] = <<>>
  BY DEF Init
<1>2. Careful
  BY <1>1, NoRequests DEF Careful, NothingLeft
<1>3. QED
  BY <1>2, TypeInit, OrderInit DEF SessionInv

LEMMA SessionStep == SessionInv /\ [Next]_ipcVars => SessionInv'
<1> SUFFICES ASSUME SessionInv, [Next]_ipcVars PROVE SessionInv'
  OBVIOUS
<1>1. TypeOK /\ InOrder /\ TypeOK' /\ InOrder'
  BY TypeStep, OrderStep DEF SessionInv
<1>2. ASSUME ~careless'
      PROVE  Careful'
  <2>1. CASE Next
    <3>1. Careful
      BY <1>1, <1>2, <2>1, OnceCareless DEF SessionInv
    <3>2. QED
      BY <1>1, <1>2, <2>1, <3>1, ScriptCareful, ServerCareful DEF Next
  <2>2. CASE UNCHANGED ipcVars
    <3>1. /\ toServer' = toServer /\ toScript' = toScript /\ py' = py
          /\ pulses' = pulses /\ asked' = asked /\ seg' = seg /\ size' = size
          /\ conns' = conns /\ held' = held /\ careless' = careless
      BY <2>2 DEF ipcVars, serverVars, netVars, scriptVars
    <3>2. Careful
      BY <1>2, <3>1 DEF SessionInv
    <3>3. NothingLeft'
      BY <3>1, <3>2 DEF Careful, NothingLeft, Open
    <3>4. QED
      BY <3>1, <3>2, <3>3 DEF Careful
  <2>3. QED
    BY <2>1, <2>2
<1>3. QED
  BY <1>1, <1>2 DEF SessionInv

(* The invariant of the session: connections are accepted in their order,  *)
(* scripts that have left have left nothing but orders to shut down, and   *)
(* what is under way on the last connection is one request or its answer.  *)
THEOREM SessionCorrect == Spec => []SessionInv
<1>1. Init => SessionInv
  BY SessionInit
<1>2. SessionInv /\ [Next]_ipcVars => SessionInv'
  BY SessionStep
<1>3. QED
  BY <1>1, <1>2, PTL DEF Spec

(* A script that leaves no answer behind takes no word for another: what   *)
(* it finds while it waits for a pulse is a pulse's completion, although   *)
(* all words look alike and go to whoever has been accepted last.          *)
THEOREM WordsMatch == Spec => []AnswersMatch
<1>1. SessionInv => AnswersMatch
  <2> SUFFICES ASSUME SessionInv, ~careless, py # "off"
               PROVE  \A i \in 1..Len(Words) : Words[i] = py
    BY DEF AnswersMatch
  <2>1. PICK w \in Seq(WordKinds) : w = Words
    BY Here DEF SessionInv, Words
  <2>2. Talk(toServer[conns], w, py, pulses, asked, seg, size)
    BY <2>1 DEF SessionInv, Careful, Session, Words
  <2>3. AllOf(w, py)
    <3>1. AllOf(<<>>, py) /\ AllOf(List, "list")
      BY NoRequests, ListIs
    <3>2. AllOf(<<"pulse">>, "pulse") /\ AllOf(<<"shm">>, "shm")
      BY DEF AllOf
    <3>3. QED
      BY <2>2, <3>1, <3>2 DEF Talk
  <2>4. QED
    BY <2>1, <2>3 DEF AllOf
<1>2. QED
  BY <1>1, SessionCorrect, PTL

(* The segment such a script is given the key of has been made for it, at  *)
(* the array's size: the one before it has been released.                  *)
THEOREM SegmentsFit == Spec => []SegmentFits
<1>1. SessionInv => SegmentFits
  <2> SUFFICES ASSUME SessionInv, ~careless, py = "shm", Words # <<>>
               PROVE  seg = size
    BY DEF SegmentFits
  <2>1. Talk(toServer[conns], Words, "shm", pulses, asked, seg, size)
    BY DEF SessionInv, Careful, Session, Words
  <2>2. QED
    BY <2>1 DEF Talk
<1>2. QED
  BY <1>1, SessionCorrect, PTL

(* No word of such scripts breaks a connection and no size of theirs makes *)
(* shmget fail: only the order to shut down ends the server.               *)
THEOREM ServerEndsWhenTold == Spec => ServerStays
<1>1. SessionInv /\ [Next]_ipcVars
        => [~careless /\ up /\ ~up' => \E c \in Conns : HandleShutdown(c)]_ipcVars
  <2> SUFFICES ASSUME SessionInv, Next, ~careless, up, ~up'
               PROVE  \E c \in Conns : HandleShutdown(c)
    OBVIOUS
  <2> USE DEF serverVars
  <2>1. TypeOK /\ InOrder /\ Careful
    BY DEF SessionInv
  <2>2. ~BoardAnswers /\ ~PulseCompletes
    BY <2>1, BoardHandled, PulseHandled
  <2>3. \A c \in Conns : /\ ~HandleQuery(c) /\ ~HandleInfo(c) /\ ~HandleList(c)
                         /\ ~HandleShare(c)
    BY <2>1, QueryHandled, InfoHandled, ListHandled, ShareHandled
  <2>4. \A c \in Conns : /\ ~HandleResize(c) /\ ~HandleRelease(c)
                         /\ ~Accept(c) /\ ~Drop(c)
    BY DEF HandleResize, HandleRelease, Accept, Drop
  <2>5. ~ScriptReads /\ ~TimeOut
    BY DEF ScriptReads, ReadPulse, ReadBoard, NoMoreBoards, ReadList, ReadShm,
       TimeOut
  <2>6. /\ ~Connect /\ ~Disconnect /\ ~Shutdown /\ \A n \in Sizes : ~Resize(n)
        /\ ~AskAndWait("query", "pulse") /\ ~AskAndWait("info", "board")
        /\ ~AskAndWait("share", "shm")
    BY DEF Connect, Disconnect, Shutdown, Resize, AskAndWait
  <2>7. ~BoardConnects /\ ~Relaunch
    BY DEF BoardConnects, Relaunch
  <2>8. QED
    BY <2>2, <2>3, <2>4, <2>5, <2>6, <2>7 DEF Next, Handle
<1>2. QED
  BY <1>1, SessionCorrect, PTL DEF Spec, ServerStays
=============================================================================
