---------------------------- MODULE SettingsProofs ----------------------------
(***************************************************************************)
(* The settings, for any script and any number of boards: the layout is    *)
(* legal everywhere at every moment, and once the messages have been       *)
(* handled the tiers agree.  What is to come of a message is a matter of   *)
(* which message of its kind is the last in the queue.                     *)
(***************************************************************************)
EXTENDS Settings, SequenceTheorems, TLAPS

-----------------------------------------------------------------------------
(* Queues *)

(* The last message of a kind in C is at i; there is none.                 *)
IsLast(q, i, C) == /\ i \in 1..Len(q)
                   /\ q[i].case \in C
                   /\ \A j \in 1..Len(q) : j > i => q[j].case \notin C
Without(q, C) == \A i \in 1..Len(q) : q[i].case \notin C
LastIn(q, C, M) == \A i \in 1..Len(q) : IsLast(q, i, C) => q[i] \in M

(* A message of such a kind becomes the last one.                          *)
LEMMA LastOfAppended ==
  ASSUME NEW S, NEW q \in Seq(S), NEW m \in S, NEW C, NEW M,
         m.case \in C, m \in M
  PROVE  /\ LastIn(Append(q, m), C, M)
         /\ ~Without(Append(q, m), C)
<1> DEFINE a == Append(q, m)
<1>1. /\ a \in Seq(S) /\ Len(a) = Len(q) + 1 /\ Len(q) \in Nat
      /\ a[Len(q) + 1] = m
  BY AppendProperties, LenProperties
<1>2. Len(a) \in 1..Len(a) /\ a[Len(a)] = m
  BY <1>1
<1>3. ASSUME NEW i \in 1..Len(a), IsLast(a, i, C)
      PROVE  a[i] \in M
  <2>1. ~(Len(a) > i)
    BY <1>2, <1>3 DEF IsLast
  <2>2. i = Len(a)
    BY <1>1, <2>1
  <2>3. QED
    BY <1>2, <2>2
<1>4. QED
  BY <1>2, <1>3 DEF LastIn, Without

LEMMA AppendedIsThere ==
  ASSUME NEW S, NEW q \in Seq(S), NEW m \in S, NEW C, m.case \in C
  PROVE  ~Without(Append(q, m), C)
<1>1. PICK M : m \in M
  <2>1. m \in {m}
    OBVIOUS
  <2>2. QED
    BY <2>1
<1>2. QED
  BY <1>1, LastOfAppended

(* A message of another kind changes nothing.                              *)
LEMMA OtherAppended ==
  ASSUME NEW S, NEW q \in Seq(S), NEW m \in S, NEW C, NEW M,
         m.case \notin C
  PROVE  /\ LastIn(q, C, M) => LastIn(Append(q, m), C, M)
         /\ Without(Append(q, m), C) <=> Without(q, C)
<1> DEFINE a == Append(q, m)
<1>1. /\ a \in Seq(S) /\ Len(a) = Len(q) + 1 /\ Len(q) \in Nat
      /\ a[Len(q) + 1] = m
      /\ \A i \in 1..Len(q) : a[i] = q[i]
  BY AppendProperties, LenProperties
<1>2. \A i \in 1..Len(a) : a[i].case \in C => i \in 1..Len(q) /\ a[i] = q[i]
  BY <1>1
<1>3. 1..Len(q) \subseteq 1..Len(a)
  BY <1>1
<1>4. ASSUME LastIn(q, C, M), NEW i \in 1..Len(a), IsLast(a, i, C)
      PROVE  a[i] \in M
  <2>1. i \in 1..Len(q) /\ a[i] = q[i] /\ a[i].case \in C
    BY <1>2, <1>4 DEF IsLast
  <2>2. \A j \in 1..Len(q) : j > i => q[j].case \notin C
    BY <1>1, <1>3, <1>4 DEF IsLast
  <2>3. IsLast(q, i, C)
    BY <2>1, <2>2 DEF IsLast
  <2>4. QED
    BY <1>4, <2>1, <2>3 DEF LastIn
<1>5. Without(a, C) <=> Without(q, C)
  BY <1>1, <1>2, <1>3 DEF Without
<1>6. QED
  BY <1>4, <1>5 DEF LastIn

(* When the first message is handled the last one stays the last, unless   *)
(* it was the first.                                                       *)
LEMMA LastOfTail ==
  ASSUME NEW S, NEW q \in Seq(S), q # <<>>, NEW C, NEW M
  PROVE  /\ LastIn(q, C, M) => LastIn(Tail(q), C, M)
         /\ Without(Tail(q), C) /\ Head(q).case \in C =>
              (LastIn(q, C, M) => Head(q) \in M)
         /\ Without(Tail(q), C) /\ Head(q).case \notin C => Without(q, C)
<1> DEFINE t == Tail(q)
<1>1. /\ Len(q) \in Nat \ {0} /\ Len(t) = Len(q) - 1
      /\ \A i \in 1..Len(t) : t[i] = q[i + 1]
  BY HeadTailProperties, EmptySeq
<1>2. Head(q) = q[1]
  OBVIOUS
<1>3. ASSUME LastIn(q, C, M), NEW i \in 1..Len(t), IsLast(t, i, C)
      PROVE  t[i] \in M
  <2>1. i + 1 \in 1..Len(q) /\ t[i] = q[i + 1]
    BY <1>1
  <2>2. ASSUME NEW j \in 1..Len(q), j > i + 1
        PROVE  q[j].case \notin C
    <3>1. j - 1 \in 1..Len(t) /\ j - 1 > i /\ (j - 1) + 1 = j
      BY <1>1, <2>2
    <3>2. t[j - 1].case \notin C
      BY <1>3, <3>1 DEF IsLast
    <3>3. QED
      BY <1>1, <3>1, <3>2
  <2>3. IsLast(q, i + 1, C)
    BY <1>3, <2>1, <2>2 DEF IsLast
  <2>4. QED
    BY <1>3, <2>1, <2>3 DEF LastIn
<1>4. ASSUME Without(t, C), NEW j \in 1..Len(q), j # 1
      PROVE  q[j].case \notin C
  <2>1. j - 1 \in 1..Len(t) /\ (j - 1) + 1 = j
    BY <1>1, <1>4
  <2>2. QED
    BY <1>1, <1>4, <2>1 DEF Without
<1>5. 1 \in 1..Len(q) /\ \A j \in 1..Len(q) : j > 1 => j # 1
  BY <1>1
<1>6. ASSUME Without(t, C), Head(q).case \in C, LastIn(q, C, M)
      PROVE  Head(q) \in M
  <2>1. IsLast(q, 1, C)
    BY <1>2, <1>4, <1>5, <1>6 DEF IsLast
  <2>2. QED
    BY <1>2, <1>5, <1>6, <2>1 DEF LastIn
<1>7. ASSUME Without(t, C), Head(q).case \notin C
      PROVE  Without(q, C)
  BY <1>2, <1>4, <1>7 DEF Without
<1>8. QED
  BY <1>3, <1>6, <1>7 DEF LastIn

(* Nothing is last in an empty queue.                                      *)
LEMMA EmptyQueue ==
  ASSUME NEW C, NEW M
  PROVE  LastIn(<<>>, C, M) /\ Without(<<>>, C)
<1>1. Len(<<>>) = 0
  BY EmptySeq
<1>2. 1..Len(<<>>) = {}
  BY <1>1
<1>3. QED
  BY <1>2 DEF LastIn, Without

(* Appending one message, and the four of a reset.                         *)
LEMMA ConcatOne ==
  ASSUME NEW S, NEW q \in Seq(S), NEW m \in S
  PROVE  q \o <<m>> = Append(q, m)
OBVIOUS

LEMMA ConcatFour ==
  ASSUME NEW S, NEW q \in Seq(S),
         NEW a \in S, NEW b \in S, NEW c \in S, NEW d \in S
  PROVE  q \o <<a, b, c, d>> = Append(Append(Append(Append(q, a), b), c), d)
OBVIOUS

-----------------------------------------------------------------------------
(* Messages *)

(* The sets of checked values; they stay folded elsewhere.                 *)
LEMMA UsedValues ==
  ASSUME NEW x \in Nat
  PROVE  /\ x \in UsedDelays <=> x <= 1000
         /\ x \in UsedLens <=> 128 <= x /\ x <= 8192
         /\ x \in HpsLens <=> 128 <= x /\ x <= 8191
         /\ x \in UsedTimes <=> x < 5000
<1>1. x \in UsedDelays <=> x <= 1000
  BY DEF UsedDelays, TRIG_DELAY_MAX
<1>2. x \in UsedLens <=> 128 <= x /\ x <= 8192
  BY DEF UsedLens, MIN_PACKETSIZE, MAX_RECLEN
<1>3. x \in HpsLens <=> 128 <= x /\ x <= 8191
  BY DEF HpsLens, MIN_PACKETSIZE, HPS_MAX_RECLEN
<1>4. x \in UsedTimes <=> x < 5000
  BY DEF UsedTimes
<1>5. QED
  BY <1>1, <1>2, <1>3, <1>4

LEMMA UsedLensInNat ==
  /\ \A x \in UsedLens : x \in Nat
  /\ \A x \in HpsLens : x \in Nat
<1>1. \A x \in UsedLens : x \in Nat
  BY DEF UsedLens, MIN_PACKETSIZE, MAX_RECLEN
<1>2. \A x \in HpsLens : x \in Nat
  BY DEF HpsLens, MIN_PACKETSIZE, HPS_MAX_RECLEN
<1>3. QED
  BY <1>1, <1>2

(* What the checks of the server and of the boards come to for a length    *)
(* that has been checked before.                                           *)
LEMMA RangesAre ==
  ASSUME NEW x \in Nat, NEW y \in Nat
  PROVE  /\ x \in MIN_PACKETSIZE..MAX_RECLEN <=> x \in UsedLens
         /\ x \in MIN_PACKETSIZE..HPS_MAX_RECLEN <=> x \in HpsLens
         /\ y \in MIN_PACKETSIZE..x <=> 128 <= y /\ y <= x
<1>1. x \in MIN_PACKETSIZE..MAX_RECLEN <=> x \in UsedLens
  BY DEF UsedLens
<1>2. x \in MIN_PACKETSIZE..HPS_MAX_RECLEN <=> x \in HpsLens
  BY DEF HpsLens
<1>3. y \in MIN_PACKETSIZE..x <=> 128 <= y /\ y <= x
  BY DEF MIN_PACKETSIZE
<1>4. QED
  BY <1>1, <1>2, <1>3

(* What has been checked of a message of the script.                       *)
Checked(c, x, y) == /\ c = "trigDelay" => x \in UsedDelays
                    /\ c = "recLen" => x \in UsedLens /\ y \in UsedLens /\ y <= x
                    /\ c = "interleave" => x > 0 /\ y \in UsedTimes
                    /\ c = "dataGo" => x \in {0, 1}

(* Its parts.                                                              *)
LEMMA ScriptMsgIs ==
  ASSUME NEW m \in ScriptMsgs
  PROVE  \E c \in Cases, x \in Nat, y \in Nat, z \in Nat :
           m = Msg(c, x, y, z) /\ Checked(c, x, y)
<1>1. m \in [case : Cases, msg : Nat \X Nat \X Nat]
  BY DEF ScriptMsgs
<1>2. PICK x \in Nat, y \in Nat, z \in Nat : m.msg = <<x, y, z>>
  BY <1>1
<1>3. m.msg[1] = x /\ m.msg[2] = y
  BY <1>2
<1>4. Checked(m.case, x, y)
  BY <1>3 DEF ScriptMsgs, Checked
<1>5. m = Msg(m.case, x, y, z) /\ m.case \in Cases
  BY <1>1, <1>2 DEF Msg
<1>6. QED
  BY <1>4, <1>5

(* A message is one the script can send, or one of the server's.           *)
LEMMA MsgAllowed ==
  ASSUME NEW c \in Cases, NEW x \in Nat, NEW y \in Nat, NEW z \in Nat,
         Checked(c, x, y), NEW m, m = Msg(c, x, y, z)
  PROVE  /\ m \in ScriptMsgs
         /\ c # "reset" /\ (c = "interleave" => z \in UsedTimes) => m \in BoardMsgs
<1>1. /\ m \in [case : Cases, msg : Nat \X Nat \X Nat]
      /\ m.case = c /\ m.msg[1] = x /\ m.msg[2] = y /\ m.msg[3] = z
  BY DEF Msg
<1>2. m \in ScriptMsgs
  BY <1>1 DEF Checked, ScriptMsgs
<1>3. ASSUME c # "reset", c = "interleave" => z \in UsedTimes
      PROVE  m \in BoardMsgs
  BY <1>1, <1>2, <1>3 DEF BoardMsgs
<1>4. QED
  BY <1>2, <1>3

LEMMA BoardMsgIs ==
  ASSUME NEW n \in BoardMsgs
  PROVE  \E c \in Cases \ {"reset"}, x \in Nat, y \in Nat, z \in Nat :
           /\ n = Msg(c, x, y, z)
           /\ Checked(c, x, y)
           /\ c = "interleave" => z \in UsedTimes
<1>1. /\ n \in ScriptMsgs
      /\ n.case # "reset"
      /\ n.case = "interleave" => n.msg[3] \in UsedTimes
  BY DEF BoardMsgs
<1>2. PICK c \in Cases, x \in Nat, y \in Nat, z \in Nat :
        n = Msg(c, x, y, z) /\ Checked(c, x, y)
  BY <1>1, ScriptMsgIs
<1>3. n.case = c /\ n.msg[3] = z
  BY <1>2 DEF Msg
<1>4. QED
  BY <1>1, <1>2, <1>3

(* What the server keeps of a message.                                     *)
LEMMA ServerKeeps ==
  ASSUME NEW s \in ServerVars,
         NEW c \in Cases, NEW x \in Nat, NEW y \in Nat, NEW z \in Nat,
         Checked(c, x, y),
         NEW m, m = Msg(c, x, y, z), NEW t, t = ServerApply(s, m)
  PROVE  /\ t \in ServerVars
         /\ c = "recLen" => t.recLen = x /\ t.packetsize = y
         /\ c = "reset" => t = ServerDefaults
         /\ c \notin {"recLen", "reset"} =>
              t.recLen = s.recLen /\ t.packetsize = s.packetsize
<1>1. m.case = c /\ m.msg[1] = x /\ m.msg[2] = y
  BY DEF Msg
<1>2. ASSUME c = "trigDelay"
      PROVE  t = [s EXCEPT !.delay = x] /\ x \in UsedDelays
  BY <1>1, <1>2 DEF ServerApply, Checked
<1>3. ASSUME c = "recLen"
      PROVE  /\ t = [s EXCEPT !.recLen = x, !.packetsize = y]
             /\ x \in UsedLens
             /\ y \in UsedLens
  <2>1. x \in UsedLens /\ y \in UsedLens /\ y <= x
    BY <1>3 DEF Checked
  <2>2. y \in MIN_PACKETSIZE..x
    BY <2>1, RangesAre, UsedValues
  <2>3. x \in MIN_PACKETSIZE..MAX_RECLEN /\ ServerPacketSize(x, y) = y
    BY <2>1, <2>2, RangesAre DEF ServerPacketSize
  <2>4. QED
    BY <1>1, <1>3, <2>1, <2>3 DEF ServerApply
<1>4. ASSUME c = "timeout"
      PROVE  t = [s EXCEPT !.timeout = ServerTimeout(x)] /\ ServerTimeout(x) \in Nat
  BY <1>1, <1>4 DEF ServerApply, ServerTimeout
<1>5. ASSUME c = "reset"
      PROVE  t = ServerDefaults
  BY <1>1, <1>5 DEF ServerApply
<1>6. ASSUME c \in {"interleave", "dataGo"}
      PROVE  t = s
  BY <1>1, <1>6 DEF ServerApply
<1>7. ServerDefaults \in ServerVars
  <2>1. 0 \in UsedDelays /\ 2048 \in UsedLens
    BY UsedValues
  <2>2. QED
    BY <2>1 DEF ServerDefaults, ServerVars
<1>8. QED
  BY <1>2, <1>3, <1>4, <1>5, <1>6, <1>7 DEF ServerVars, Cases

(* What it sends on: the message as it has checked it, ...                 *)
LEMMA ServerSendsOne ==
  ASSUME NEW c \in Cases, NEW x \in Nat, NEW y \in Nat, NEW z \in Nat,
         Checked(c, x, y), NEW m, m = Msg(c, x, y, z), c # "reset"
  PROVE  \E n \in BoardMsgs :
           /\ ServerSends(m) = <<n>>
           /\ n.case = c
           /\ c = "recLen" => n.msg[1] = x /\ n.msg[2] = y
           /\ c = "interleave" => n.msg = ServerInterleave(m.msg)
<1>1. m.case = c /\ m.msg = <<x, y, z>> /\ m.msg[1] = x /\ m.msg[2] = y
      /\ m.msg[3] = z
  BY DEF Msg
<1>2. CASE c = "recLen"
  <2>1. x \in UsedLens /\ y \in UsedLens /\ y <= x
    BY <1>2 DEF Checked
  <2>2. y \in MIN_PACKETSIZE..x
    BY <2>1, RangesAre, UsedValues
  <2>3. x \in MIN_PACKETSIZE..MAX_RECLEN /\ ServerPacketSize(x, y) = y
    BY <2>1, <2>2, RangesAre DEF ServerPacketSize
  <2>4. PICK n : n = Msg("recLen", x, y, 0)
    OBVIOUS
  <2>5. ServerSends(m) = <<n>>
    BY <1>1, <1>2, <2>3, <2>4 DEF ServerSends
  <2>6. n \in BoardMsgs
    <3>1. Checked("recLen", x, y)
      BY <1>2
    <3>2. QED
      BY <2>4, <3>1, MsgAllowed DEF Cases
  <2>7. n.case = "recLen" /\ n.msg[1] = x /\ n.msg[2] = y
    BY <2>4 DEF Msg
  <2>8. QED
    BY <1>2, <2>5, <2>6, <2>7
<1>3. CASE c = "interleave"
  <2> DEFINE i == IF x > 0 /\ y < 5000 /\ z < 5000 THEN <<x, y, z>> ELSE <<1, 0, 0>>
  <2>1. ServerInterleave(m.msg) = i
    BY <1>1 DEF ServerInterleave
  <2>2. i \in Nat \X Nat \X Nat /\ i[1] > 0 /\ i[2] < 5000 /\ i[3] < 5000
        /\ i[2] \in Nat /\ i[3] \in Nat
    OBVIOUS
  <2> HIDE DEF i
  <2>3. i[2] \in UsedTimes /\ i[3] \in UsedTimes
    BY <2>2, UsedValues
  <2>4. PICK n : n = [m EXCEPT !.msg = i]
    OBVIOUS
  <2>5. n = [case |-> "interleave", msg |-> i]
    BY <1>3, <2>4 DEF Msg
  <2>6. ServerSends(m) = <<n>>
    BY <1>1, <1>3, <2>1, <2>4 DEF ServerSends
  <2>7. n.case = "interleave" /\ n.msg = i
        /\ n \in [case : Cases, msg : Nat \X Nat \X Nat]
    BY <2>2, <2>5 DEF Cases
  <2>8. n \in BoardMsgs
    BY <2>2, <2>3, <2>7 DEF ScriptMsgs, BoardMsgs
  <2>9. QED
    BY <1>3, <2>1, <2>6, <2>7, <2>8
<1>4. CASE c = "dataGo"
  <2>1. PICK n : n = Msg("dataGo", ServerGo(x), 0, 0)
    OBVIOUS
  <2>2. ServerGo(x) \in {0, 1}
    BY DEF ServerGo
  <2>3. n \in BoardMsgs
    BY <2>1, <2>2, MsgAllowed DEF Checked, Cases
  <2>4. n.case = "dataGo"
    BY <2>1 DEF Msg
  <2>5. ServerSends(m) = <<n>>
    BY <1>1, <1>4, <2>1 DEF ServerSends
  <2>6. QED
    BY <1>4, <2>3, <2>4, <2>5
<1>5. CASE c \in {"trigDelay", "timeout"}
  <2>1. m \in BoardMsgs
    BY <1>5, MsgAllowed
  <2>2. ServerSends(m) = <<m>>
    BY <1>1, <1>5 DEF ServerSends
  <2>3. QED
    BY <1>1, <1>5, <2>1, <2>2
<1>6. QED
  BY <1>2, <1>3, <1>4, <1>5 DEF Cases

(* ... or the four of a reset, of which the third is the record length.    *)
LEMMA ServerSendsReset ==
  ASSUME NEW m, m.case = "reset"
  PROVE  \E a, b, c, d \in BoardMsgs :
           /\ ServerSends(m) = <<a, b, c, d>>
           /\ a.case = "dataGo" /\ b.case = "trigDelay"
           /\ c.case = "recLen" /\ d.case = "timeout"
           /\ c.msg[1] = 2048 /\ c.msg[2] = 2048
<1>1. PICK a, b, c, d : /\ a = Msg("dataGo", 0, 0, 0)
                        /\ b = Msg("trigDelay", 0, 0, 0)
                        /\ c = Msg("recLen", 2048, 2048, 0)
                        /\ d = Msg("timeout", 1000, 0, 0)
  OBVIOUS
<1>2. ServerSends(m) = <<a, b, c, d>>
  <2>1. ServerSends(m) = ResetMessages
    BY Zenon DEF ServerSends
  <2>2. ResetMessages = <<a, b, c, d>>
    BY <1>1 DEF ResetMessages, ServerDefaults
  <2>3. QED
    BY <2>1, <2>2
<1>3. /\ a.case = "dataGo" /\ b.case = "trigDelay"
      /\ c.case = "recLen" /\ d.case = "timeout"
      /\ c.msg[1] = 2048 /\ c.msg[2] = 2048
  BY <1>1 DEF Msg
<1>4. 0 \in UsedDelays /\ 2048 \in UsedLens
  BY UsedValues
<1>5. a \in BoardMsgs
  BY <1>1, MsgAllowed DEF Checked, Cases
<1>6. b \in BoardMsgs
  BY <1>1, <1>4, MsgAllowed DEF Checked, Cases
<1>7. c \in BoardMsgs
  BY <1>1, <1>4, MsgAllowed DEF Checked, Cases
<1>8. d \in BoardMsgs
  BY <1>1, MsgAllowed DEF Checked, Cases
<1>9. QED
  BY <1>2, <1>3, <1>5, <1>6, <1>7, <1>8

-----------------------------------------------------------------------------
(* Boards *)

(* What LayoutIsLegal says of one board.                                   *)
PortsSuffice(n, rl, ps) == /\ (n - 1) * ps < rl
                           /\ rl <= n * ps
                           /\ n <= MAX_DATA_PORTS
BoardIsLegal(h) == /\ h.packetsize \in MIN_PACKETSIZE..h.recLen
                   /\ PortsSuffice(h.numPorts, h.recLen, h.packetsize)

SameLayout(g, h) == /\ g.recLen = h.recLen
                    /\ g.packetsize = h.packetsize
                    /\ g.numPorts = h.numPorts

LEMMA LayoutKept ==
  ASSUME NEW g, NEW h, SameLayout(g, h)
  PROVE  /\ BoardIsLegal(h) => BoardIsLegal(g)
         /\ g.recLen = h.recLen /\ g.packetsize = h.packetsize
BY DEF SameLayout, BoardIsLegal

LEMMA Division ==
  ASSUME NEW a \in Nat, NEW d \in Nat \ {0}
  PROVE  /\ a \div d \in Nat
         /\ (a \div d) * d <= a
         /\ a < ((a \div d) + 1) * d
<1>1. PICK q \in Nat, r \in 0..(d - 1) : q = a \div d /\ a = d * q + r
  <2>1. /\ a \div d \in Nat /\ a % d \in 0..(d - 1)
        /\ a = d * (a \div d) + (a % d)
    OBVIOUS
  <2>2. QED
    BY <2>1
<1>2. d * q = q * d /\ q * d \in Nat /\ (q + 1) * d = q * d + d
  OBVIOUS
<1>3. q * d <= a /\ a < (q + 1) * d
  BY <1>1, <1>2
<1>4. QED
  BY <1>1, <1>3

(* The packets of a board just cover its record, and the ports suffice.    *)
LEMMA NumPortsSuffice ==
  ASSUME NEW rl \in Nat, NEW ps \in Nat, 128 <= ps, ps <= rl, rl <= 8191,
         NEW n, n = NumPorts(rl, ps)
  PROVE  n \in Nat /\ PortsSuffice(n, rl, ps)
<1>1. PICK a \in Nat : a = rl - 1
  OBVIOUS
<1>2. ps \in Nat \ {0}
  OBVIOUS
<1>3. PICK q \in Nat : q = a \div ps /\ q * ps <= a /\ a < (q + 1) * ps
  BY <1>2, Division
<1>5. n = q + 1
  BY <1>1, <1>3 DEF NumPorts
<1>6. q * ps \in Nat /\ (q + 1) * ps \in Nat
  OBVIOUS
<1>7. q * ps < rl
  BY <1>1, <1>3, <1>6
<1>8. rl <= (q + 1) * ps
  BY <1>1, <1>3, <1>6
<1>9. q <= 63
  <2>1. SUFFICES ASSUME q >= 64 PROVE FALSE
    OBVIOUS
  <2>2. PICK k \in Nat : q = 64 + k
    BY <2>1
  <2>3. (64 + k) * ps = 64 * ps + k * ps /\ k * ps \in Nat
    OBVIOUS
  <2>4. 64 * ps >= 8192
    OBVIOUS
  <2>5. q * ps = 64 * ps + k * ps
    BY <2>2, <2>3
  <2>6. QED
    BY <1>6, <1>7, <2>3, <2>4, <2>5
<1>10. n - 1 = q /\ n <= 64 /\ n \in Nat
  BY <1>5, <1>9
<1>11. QED
  BY <1>5, <1>7, <1>8, <1>10 DEF PortsSuffice, MAX_DATA_PORTS

(* What a board makes of a record length and packet size the server has    *)
(* sent: they are taken as they are, or replaced by the defaults.          *)
LEMMA BoardTakesLens ==
  ASSUME NEW h \in HpsVars, NEW x \in UsedLens, NEW y \in UsedLens, y <= x,
         NEW g, g = HpsRecLen(h, x, y)
  PROVE  /\ g \in HpsVars /\ BoardIsLegal(g)
         /\ x <= HPS_MAX_RECLEN => g.recLen = x /\ g.packetsize = y
         /\ x > HPS_MAX_RECLEN => g.recLen = 2048 /\ g.packetsize = 2048
         /\ g.depth = h.depth /\ g.timer = h.timer /\ g.wait = h.wait
<1>1. x \in Nat /\ y \in Nat /\ 128 <= y /\ 128 <= x
  BY UsedLensInNat, UsedValues
<1>2. y \in MIN_PACKETSIZE..x
  BY <1>1, RangesAre
<1>3. ASSUME NEW rl \in HpsLens, NEW ps \in HpsLens, ps <= rl,
             g = [h EXCEPT !.recLen = rl, !.packetsize = ps,
                           !.numPorts = NumPorts(rl, ps)]
      PROVE  /\ g \in HpsVars /\ BoardIsLegal(g)
             /\ g.recLen = rl /\ g.packetsize = ps
             /\ g.depth = h.depth /\ g.timer = h.timer /\ g.wait = h.wait
  <2>1. PICK n : n = NumPorts(rl, ps)
    OBVIOUS
  <2>3. rl \in Nat /\ ps \in Nat
    BY UsedLensInNat
  <2>4. 128 <= ps
    BY <2>3, UsedValues
  <2>a. rl <= 8191
    BY <2>3, UsedValues
  <2>2. n \in Nat /\ PortsSuffice(n, rl, ps)
    BY <1>3, <2>1, <2>3, <2>4, <2>a, NumPortsSuffice
  <2>5. g = [h EXCEPT !.recLen = rl, !.packetsize = ps, !.numPorts = n]
    BY <1>3, <2>1
  <2>6. /\ g \in HpsVars
        /\ g.recLen = rl /\ g.packetsize = ps /\ g.numPorts = n
        /\ g.depth = h.depth /\ g.timer = h.timer /\ g.wait = h.wait
    BY <2>2, <2>5 DEF HpsVars
  <2>7. ps \in MIN_PACKETSIZE..rl
    BY <1>3, <2>3, <2>4, RangesAre
  <2>8. BoardIsLegal(g)
    BY <2>2, <2>6, <2>7 DEF BoardIsLegal
  <2>9. QED
    BY <2>6, <2>8
<1>4. CASE x <= HPS_MAX_RECLEN
  <2>1. x <= 8191
    BY <1>4 DEF HPS_MAX_RECLEN
  <2>2. x \in MIN_PACKETSIZE..HPS_MAX_RECLEN
    BY <1>1, <2>1, RangesAre, UsedValues
  <2>3. g = [h EXCEPT !.recLen = x, !.packetsize = y,
                      !.numPorts = NumPorts(x, y)]
    BY <1>2, <2>2 DEF HpsRecLen
  <2>4. /\ g \in HpsVars /\ BoardIsLegal(g)
        /\ g.recLen = x /\ g.packetsize = y
        /\ g.depth = h.depth /\ g.timer = h.timer /\ g.wait = h.wait
    <3>1. x \in HpsLens
      BY <1>1, <2>1, UsedValues
    <3>2. y <= 8191
      BY <1>1, <2>1
    <3>3. y \in HpsLens
      BY <1>1, <3>2, UsedValues
    <3>4. QED
      BY <1>3, <2>3, <3>1, <3>3
  <2>5. ~(x > HPS_MAX_RECLEN)
    BY <1>1, <1>4 DEF HPS_MAX_RECLEN
  <2>6. QED
    BY <2>4, <2>5
<1>5. CASE x > HPS_MAX_RECLEN
  <2>1. x \notin MIN_PACKETSIZE..HPS_MAX_RECLEN
    BY <1>1, <1>5 DEF HPS_MAX_RECLEN
  <2>2. g = [h EXCEPT !.recLen = 2048, !.packetsize = 2048,
                      !.numPorts = NumPorts(2048, 2048)]
    <3>1. PICK len, size :
            /\ len = IF x \in MIN_PACKETSIZE..HPS_MAX_RECLEN THEN x ELSE 2048
            /\ size = IF ~(x \in MIN_PACKETSIZE..HPS_MAX_RECLEN) THEN 2048
                      ELSE IF y \in MIN_PACKETSIZE..x THEN y ELSE x
      OBVIOUS
    <3>2. g = [h EXCEPT !.recLen = len, !.packetsize = size,
                        !.numPorts = NumPorts(len, size)]
      BY <3>1 DEF HpsRecLen
    <3>3. len = 2048 /\ size = 2048
      BY <2>1, <3>1
    <3>4. QED
      BY <3>2, <3>3
  <2>3. /\ g \in HpsVars /\ BoardIsLegal(g)
        /\ g.recLen = 2048 /\ g.packetsize = 2048
        /\ g.depth = h.depth /\ g.timer = h.timer /\ g.wait = h.wait
    <3>1. 2048 \in HpsLens
      BY UsedValues
    <3>2. PICK k \in HpsLens : k = 2048
      BY <3>1
    <3>a. k <= k
      BY <3>2
    <3>3. g = [h EXCEPT !.recLen = k, !.packetsize = k, !.numPorts = NumPorts(k, k)]
      BY <2>2, <3>2
    <3>4. /\ g \in HpsVars /\ BoardIsLegal(g)
          /\ g.recLen = k /\ g.packetsize = k
          /\ g.depth = h.depth /\ g.timer = h.timer /\ g.wait = h.wait
      BY <1>3, <3>a, <3>3
    <3>5. QED
      BY <3>2, <3>4
  <2>4. ~(x <= HPS_MAX_RECLEN)
    BY <1>1, <1>5 DEF HPS_MAX_RECLEN
  <2>5. QED
    BY <2>3, <2>4
<1>6. QED
  BY <1>1, <1>4, <1>5 DEF HPS_MAX_RECLEN

(* What a board makes of any message.                                      *)
LEMMA BoardTakes ==
  ASSUME NEW h \in HpsVars,
         NEW c \in Cases \ {"reset"}, NEW x \in Nat, NEW y \in Nat, NEW z \in Nat,
         Checked(c, x, y), c = "interleave" => z \in UsedTimes,
         NEW m, m = Msg(c, x, y, z), NEW g, g = HpsApply(h, m)
  PROVE  /\ g \in HpsVars
         /\ BoardIsLegal(h) => BoardIsLegal(g)
         /\ c = "recLen" =>
              /\ x <= HPS_MAX_RECLEN => g.recLen = x /\ g.packetsize = y
              /\ x > HPS_MAX_RECLEN => g.recLen = 2048 /\ g.packetsize = 2048
         /\ c # "recLen" => g.recLen = h.recLen /\ g.packetsize = h.packetsize
         /\ c = "interleave" => g.depth = x /\ g.timer = y /\ g.wait = z
         /\ c # "interleave" =>
              g.depth = h.depth /\ g.timer = h.timer /\ g.wait = h.wait
<1>1. m.case = c /\ m.msg = <<x, y, z>> /\ m.msg[1] = x /\ m.msg[2] = y
      /\ m.msg[3] = z
  BY DEF Msg
<1>2. CASE c = "trigDelay"
  <2>1. g = [h EXCEPT !.delay = 20 * x] /\ 20 * x \in Nat
    BY <1>1, <1>2 DEF HpsApply
  <2>2. /\ g \in HpsVars /\ SameLayout(g, h)
        /\ g.depth = h.depth /\ g.timer = h.timer /\ g.wait = h.wait
    BY <2>1 DEF HpsVars, SameLayout
  <2>3. QED
    BY <1>2, <2>2, LayoutKept
<1>3. CASE c = "recLen"
  <2>1. g = HpsRecLen(h, x, y)
    BY <1>1, <1>3 DEF HpsApply
  <2>2. x \in UsedLens /\ y \in UsedLens /\ y <= x
    BY <1>3 DEF Checked
  <2>3. QED
    BY <1>3, <2>1, <2>2, BoardTakesLens
<1>4. CASE c = "interleave"
  <2>1. x > 0 /\ y \in UsedTimes /\ z \in UsedTimes
    BY <1>4 DEF Checked
  <2>2. y < 5000 /\ z < 5000
    BY <2>1, UsedValues
  <2>3. g = [h EXCEPT !.depth = x, !.timer = y, !.wait = z]
    BY <1>1, <1>4, <2>1, <2>2 DEF HpsApply, HpsInterleave
  <2>4. /\ g \in HpsVars /\ SameLayout(g, h)
        /\ g.depth = x /\ g.timer = y /\ g.wait = z
    <3>1. x \in Nat \ {0}
      BY <2>1
    <3>2. QED
      BY <2>1, <2>3, <3>1 DEF HpsVars, SameLayout
  <2>5. QED
    BY <1>4, <2>4, LayoutKept
<1>5. CASE c = "dataGo"
  <2>1. g = [h EXCEPT !.go = HpsGo(x)] /\ HpsGo(x) \in {0, 1}
    BY <1>1, <1>5 DEF HpsApply, HpsGo
  <2>2. /\ g \in HpsVars /\ SameLayout(g, h)
        /\ g.depth = h.depth /\ g.timer = h.timer /\ g.wait = h.wait
    BY <2>1 DEF HpsVars, SameLayout
  <2>3. QED
    BY <1>5, <2>2, LayoutKept
<1>6. CASE c = "timeout"
  <2>1. g = HpsTimeout(h, x)
    BY <1>1, <1>6 DEF HpsApply
  <2>2. PICK p \in Nat : g = [h EXCEPT !.polls = p]
    <3>1. x \div 10 \in Nat
      BY Division
    <3>2. QED
      BY <2>1, <3>1 DEF HpsTimeout
  <2>3. /\ g \in HpsVars /\ SameLayout(g, h)
        /\ g.depth = h.depth /\ g.timer = h.timer /\ g.wait = h.wait
    BY <2>2 DEF HpsVars, SameLayout
  <2>4. QED
    BY <1>6, <2>3, LayoutKept
<1>7. QED
  BY <1>2, <1>3, <1>4, <1>5, <1>6 DEF Cases

-----------------------------------------------------------------------------
(* What the server puts into a board's queue *)

(* The lengths of a board that has heard of the server's.                  *)
LensOf(s) == {n \in BoardMsgs : n.msg[1] = s.recLen /\ n.msg[2] = s.packetsize}

LensGoOn(m, s, t, q, r) ==
  /\ m.case \in {"recLen", "reset"} =>
       /\ LastIn(r, {"recLen"}, LensOf(t))
       /\ ~Without(r, {"recLen"})
  /\ m.case \notin {"recLen", "reset"} =>
       /\ LastIn(q, {"recLen"}, LensOf(s)) => LastIn(r, {"recLen"}, LensOf(t))
       /\ Without(r, {"recLen"}) <=> Without(q, {"recLen"})
       /\ t.recLen = s.recLen /\ t.packetsize = s.packetsize

LEMMA LensForwarded ==
  ASSUME NEW q \in Seq(BoardMsgs), NEW m \in ScriptMsgs, NEW s \in ServerVars,
         NEW t, t = ServerApply(s, m), NEW r, r = q \o ServerSends(m)
  PROVE  /\ r \in Seq(BoardMsgs)
         /\ t \in ServerVars
         /\ LensGoOn(m, s, t, q, r)
<1>1. PICK c \in Cases, x \in Nat, y \in Nat, z \in Nat :
        m = Msg(c, x, y, z) /\ Checked(c, x, y)
  BY ScriptMsgIs
<1>2. m.case = c
  BY <1>1 DEF Msg
<1>3. /\ t \in ServerVars
      /\ c = "recLen" => t.recLen = x /\ t.packetsize = y
      /\ c = "reset" => t = ServerDefaults
      /\ c \notin {"recLen", "reset"} =>
           t.recLen = s.recLen /\ t.packetsize = s.packetsize
  BY <1>1, ServerKeeps
<1>4. CASE c # "reset"
  <2>1. PICK n \in BoardMsgs :
           /\ ServerSends(m) = <<n>>
           /\ n.case = c
           /\ c = "recLen" => n.msg[1] = x /\ n.msg[2] = y
           /\ c = "interleave" => n.msg = ServerInterleave(m.msg)
    BY <1>1, <1>4, ServerSendsOne
  <2>2. r = Append(q, n) /\ r \in Seq(BoardMsgs)
    BY <2>1, ConcatOne, AppendProperties
  <2>3. CASE c = "recLen"
    <3>1. n \in LensOf(t)
      BY <1>3, <2>1, <2>3 DEF LensOf
    <3>2. n.case \in {"recLen"}
      BY <2>1, <2>3
    <3>3. LastIn(r, {"recLen"}, LensOf(t)) /\ ~Without(r, {"recLen"})
      BY <2>2, <3>1, <3>2, LastOfAppended
    <3>4. QED
      BY <1>2, <1>3, <2>2, <2>3, <3>3 DEF LensGoOn
  <2>4. CASE c # "recLen"
    <3>1. n.case \notin {"recLen"} /\ c \notin {"recLen", "reset"}
      BY <1>4, <2>1, <2>4
    <3>2. LensOf(t) = LensOf(s)
      BY <1>3, <3>1 DEF LensOf
    <3>3. /\ LastIn(q, {"recLen"}, LensOf(s)) => LastIn(r, {"recLen"}, LensOf(s))
          /\ Without(r, {"recLen"}) <=> Without(q, {"recLen"})
      BY <2>2, <3>1, OtherAppended
    <3>4. QED
      BY <1>2, <1>3, <2>2, <3>1, <3>2, <3>3 DEF LensGoOn
  <2>5. QED
    BY <2>3, <2>4
<1>5. CASE c = "reset"
  <2>1. PICK u, v, w, o \in BoardMsgs :
           /\ ServerSends(m) = <<u, v, w, o>>
           /\ w.case = "recLen" /\ o.case = "timeout"
           /\ w.msg[1] = 2048 /\ w.msg[2] = 2048
    BY <1>2, <1>5, ServerSendsReset
  <2>2. PICK q1 : q1 = Append(Append(q, u), v)
    OBVIOUS
  <2>3. PICK q2 : q2 = Append(q1, w)
    OBVIOUS
  <2>4. q1 \in Seq(BoardMsgs) /\ q2 \in Seq(BoardMsgs)
    BY <2>2, <2>3, AppendProperties
  <2>5. r = Append(q2, o) /\ r \in Seq(BoardMsgs)
    BY <2>1, <2>2, <2>3, <2>4, ConcatFour, AppendProperties
  <2>6. w \in LensOf(t)
    BY <1>3, <1>5, <2>1 DEF LensOf, ServerDefaults
  <2>7. LastIn(q2, {"recLen"}, LensOf(t)) /\ ~Without(q2, {"recLen"})
    <3>1. w.case \in {"recLen"}
      BY <2>1
    <3>2. QED
      BY <2>3, <2>4, <2>6, <3>1, LastOfAppended
  <2>8. LastIn(r, {"recLen"}, LensOf(t)) /\ ~Without(r, {"recLen"})
    <3>1. o.case \notin {"recLen"}
      BY <2>1
    <3>2. QED
      BY <2>4, <2>5, <2>7, <3>1, OtherAppended
  <2>9. QED
    BY <1>2, <1>3, <1>5, <2>5, <2>8 DEF LensGoOn
<1>6. QED
  BY <1>4, <1>5

(* A message about the groups goes on checked, and a reset sends none.     *)
LEMMA GroupsForwarded ==
  ASSUME NEW q \in Seq(BoardMsgs), NEW m \in ScriptMsgs,
         NEW r, r = q \o ServerSends(m), NEW M
  PROVE  /\ m.case = "interleave" =>
              /\ (\A n \in BoardMsgs : n.msg = ServerInterleave(m.msg) => n \in M)
                   => LastIn(r, {"interleave"}, M)
              /\ ~Without(r, {"interleave"})
         /\ m.case # "interleave" =>
              /\ LastIn(q, {"interleave"}, M) => LastIn(r, {"interleave"}, M)
              /\ Without(r, {"interleave"}) <=> Without(q, {"interleave"})
<1>1. PICK c \in Cases, x \in Nat, y \in Nat, z \in Nat :
        m = Msg(c, x, y, z) /\ Checked(c, x, y)
  BY ScriptMsgIs
<1>2. m.case = c
  BY <1>1 DEF Msg
<1>3. CASE c # "reset"
  <2>1. PICK n \in BoardMsgs :
           /\ ServerSends(m) = <<n>>
           /\ n.case = c
           /\ c = "interleave" => n.msg = ServerInterleave(m.msg)
    BY <1>1, <1>3, ServerSendsOne
  <2>2. r = Append(q, n)
    BY <2>1, ConcatOne
  <2>3. CASE c = "interleave"
    <3>1. n.case \in {"interleave"} /\ n.msg = ServerInterleave(m.msg)
      BY <2>1, <2>3
    <3>2. ASSUME \A k \in BoardMsgs : k.msg = ServerInterleave(m.msg) => k \in M
          PROVE  LastIn(r, {"interleave"}, M)
      <4>1. n \in M
        BY <3>1, <3>2
      <4>2. QED
        BY <2>2, <3>1, <4>1, LastOfAppended
    <3>3. ~Without(r, {"interleave"})
      BY <2>2, <3>1, AppendedIsThere
    <3>4. QED
      BY <1>2, <2>3, <3>2, <3>3
  <2>4. CASE c # "interleave"
    <3>1. n.case \notin {"interleave"}
      BY <2>1, <2>4
    <3>2. /\ LastIn(q, {"interleave"}, M) => LastIn(r, {"interleave"}, M)
          /\ Without(r, {"interleave"}) <=> Without(q, {"interleave"})
      BY <2>2, <3>1, OtherAppended
    <3>3. QED
      BY <1>2, <2>4, <3>2
  <2>5. QED
    BY <2>3, <2>4
<1>4. CASE c = "reset"
  <2>1. PICK u, v, w, o \in BoardMsgs :
           /\ ServerSends(m) = <<u, v, w, o>>
           /\ u.case = "dataGo" /\ v.case = "trigDelay"
           /\ w.case = "recLen" /\ o.case = "timeout"
    BY <1>2, <1>4, ServerSendsReset
  <2>2. PICK q1, q2, q3 : /\ q1 = Append(q, u)
                          /\ q2 = Append(q1, v)
                          /\ q3 = Append(q2, w)
    OBVIOUS
  <2>3. /\ q1 \in Seq(BoardMsgs) /\ q2 \in Seq(BoardMsgs)
        /\ q3 \in Seq(BoardMsgs)
    BY <2>2, AppendProperties
  <2>4. r = Append(q3, o)
    BY <2>1, <2>2, ConcatFour
  <2>5. /\ u.case \notin {"interleave"} /\ v.case \notin {"interleave"}
        /\ w.case \notin {"interleave"} /\ o.case \notin {"interleave"}
    BY <2>1
  <2>6. /\ LastIn(q, {"interleave"}, M) => LastIn(q1, {"interleave"}, M)
        /\ Without(q1, {"interleave"}) <=> Without(q, {"interleave"})
    BY <2>2, <2>5, OtherAppended
  <2>7. /\ LastIn(q1, {"interleave"}, M) => LastIn(q2, {"interleave"}, M)
        /\ Without(q2, {"interleave"}) <=> Without(q1, {"interleave"})
    BY <2>2, <2>3, <2>5, OtherAppended
  <2>8. /\ LastIn(q2, {"interleave"}, M) => LastIn(q3, {"interleave"}, M)
        /\ Without(q3, {"interleave"}) <=> Without(q2, {"interleave"})
    BY <2>2, <2>3, <2>5, OtherAppended
  <2>9. /\ LastIn(q3, {"interleave"}, M) => LastIn(r, {"interleave"}, M)
        /\ Without(r, {"interleave"}) <=> Without(q3, {"interleave"})
    BY <2>3, <2>4, <2>5, OtherAppended
  <2>10. QED
    BY <1>2, <1>4, <2>6, <2>7, <2>8, <2>9
<1>5. QED
  BY <1>3, <1>4


-----------------------------------------------------------------------------
(* What agrees while messages are under way *)

(* What the boards make of the server's lengths.                           *)
BoardLens(h, s) ==
  IF s.recLen <= HPS_MAX_RECLEN
    THEN h.recLen = s.recLen /\ h.packetsize = s.packetsize
    ELSE h.recLen = 2048 /\ h.packetsize = 2048

(* The last record length in a board's queue is the server's, and once     *)
(* there is none the board has it.                                         *)
BoardsFollow ==
  \A b \in Boards :
    /\ LastIn(comm[b], {"recLen"}, LensOf(server))
    /\ Without(comm[b], {"recLen"}) => BoardLens(hps[b], server)

(* The last message about the length in the server's queue is what the     *)
(* script has asked last, and once there is none the server has done it.   *)
LensCases == {"recLen", "reset"}
LensAsked(p) == {m \in ScriptMsgs : /\ m.case = "recLen"
                                    /\ m.msg[1] = p.recLen
                                    /\ m.msg[2] = p.packetsize}
Resets == {m \in ScriptMsgs : m.case = "reset"}
ServerFollows ==
  /\ lensBy = "script" =>
       /\ LastIn(ipc, LensCases, LensAsked(py))
       /\ Without(ipc, LensCases) => /\ server.recLen = py.recLen
                                     /\ server.packetsize = py.packetsize
  /\ lensBy = "reset" =>
       /\ LastIn(ipc, LensCases, Resets)
       /\ Without(ipc, LensCases) => server.recLen = ServerDefaults.recLen

(* A length the boards do not take is never on its way.                    *)
Short(q) == \A i \in 1..Len(q) :
              q[i].case = "recLen" => q[i].msg[1] <= HPS_MAX_RECLEN
NoLongest == server.recLen <= HPS_MAX_RECLEN /\ Short(ipc)

(* The groups a board is asked for with numbers n are the ones of python.  *)
Asked(p, bad, n) == /\ n[3] \in {0, p.wait}
                    /\ IF bad THEN n[1] = 1 /\ n[2] = 0
                              ELSE n[1] = p.depth /\ n[2] = p.timer
GroupsAsked(p, bad) == {m \in ScriptMsgs : Asked(p, bad, ServerInterleave(m.msg))}
GroupsSent(p, bad) == {m \in BoardMsgs : Asked(p, bad, m.msg)}
GroupsOf(h) == <<h.depth, h.timer, h.wait>>

(* The last message about the groups in the server's queue asks for        *)
(* python's; once there is none, the last one in a board's queue does; and *)
(* once there is none there, either, the board has them.                   *)
GroupsFollow ==
  /\ LastIn(ipc, {"interleave"}, GroupsAsked(py, badWait))
  /\ Without(ipc, {"interleave"}) =>
       \A b \in Boards :
         /\ LastIn(comm[b], {"interleave"}, GroupsSent(py, badWait))
         /\ Without(comm[b], {"interleave"}) =>
              Asked(py, badWait, GroupsOf(hps[b]))

-----------------------------------------------------------------------------
(* The script *)

ScriptActions == \/ \E td \in Delays : SetTrigDelay(td)
                 \/ \E rl \in RecLens, ps \in PacketSizes : SetRecLen(rl, ps)
                 \/ \E d \in Depths, t \in Timers, w \in Waits :
                      SetInterleave(d, t, w)
                 \/ \E da \in {0, 1} : ToggleDataAcq(da)
                 \/ \E t \in Timeouts : SetQueryDataTimeout(t)
                 \/ ResetVars

(* What a command of the script makes of its fields p, when the record     *)
(* length is by l then and the last wait was bad or not (w), goes with the *)
(* message m it sends.                                                     *)
Goes(m, p, l, w) ==
  /\ m.case = "recLen" => l = "script" /\ m \in LensAsked(p)
  /\ m.case = "reset" => l = "reset"
  /\ m.case \notin LensCases =>
       l = lensBy /\ p.recLen = py.recLen /\ p.packetsize = py.packetsize
  /\ m.case = "interleave" => m \in GroupsAsked(p, w)
  /\ m.case # "interleave" =>
       w = badWait /\ GroupsOf(p) = GroupsOf(py)
  /\ MAX_RECLEN \notin RecLens /\ m.case = "recLen" => m.msg[1] <= HPS_MAX_RECLEN

Commands(m, p, l, w) ==
  /\ m \in ScriptMsgs /\ p \in PyFields
  /\ l \in {"default", "script", "reset"} /\ w \in BOOLEAN
  /\ Goes(m, p, l, w)

(* A command that leaves everything alone that others rely on.             *)
LEMMA PlainCommand ==
  ASSUME NEW m \in ScriptMsgs, NEW p \in PyFields, TypeOK,
         m.case \in {"trigDelay", "dataGo", "timeout"},
         p.recLen = py.recLen, p.packetsize = py.packetsize,
         p.depth = py.depth, p.timer = py.timer, p.wait = py.wait
  PROVE  Commands(m, p, lensBy, badWait)
<1>1. lensBy \in {"default", "script", "reset"} /\ badWait \in BOOLEAN
  BY DEF TypeOK
<1>2. /\ m.case # "recLen" /\ m.case # "reset" /\ m.case # "interleave"
  OBVIOUS
<1>3. Goes(m, p, lensBy, badWait)
  BY <1>2 DEF Goes, GroupsOf
<1>4. QED
  BY <1>1, <1>3 DEF Commands

(* One field of python's at a time.                                        *)
LEMMA PyKeeps ==
  ASSUME NEW q \in PyFields, NEW p,
         \/ \E u \in UsedDelays : p = [q EXCEPT !.delay = u]
         \/ \E u \in {0, 1} : p = [q EXCEPT !.da = u]
         \/ \E u \in Nat : p = [q EXCEPT !.timeout = u]
  PROVE  /\ p \in PyFields
         /\ p.recLen = q.recLen /\ p.packetsize = q.packetsize
         /\ p.depth = q.depth /\ p.timer = q.timer /\ p.wait = q.wait
<1>1. ASSUME NEW u \in UsedDelays, p = [q EXCEPT !.delay = u]
      PROVE  /\ p \in PyFields
             /\ p.recLen = q.recLen /\ p.packetsize = q.packetsize
             /\ p.depth = q.depth /\ p.timer = q.timer /\ p.wait = q.wait
  BY <1>1 DEF PyFields
<1>2. ASSUME NEW u \in {0, 1}, p = [q EXCEPT !.da = u]
      PROVE  /\ p \in PyFields
             /\ p.recLen = q.recLen /\ p.packetsize = q.packetsize
             /\ p.depth = q.depth /\ p.timer = q.timer /\ p.wait = q.wait
  BY <1>2 DEF PyFields
<1>3. ASSUME NEW u \in Nat, p = [q EXCEPT !.timeout = u]
      PROVE  /\ p \in PyFields
             /\ p.recLen = q.recLen /\ p.packetsize = q.packetsize
             /\ p.depth = q.depth /\ p.timer = q.timer /\ p.wait = q.wait
  BY <1>3 DEF PyFields
<1>4. QED
  BY <1>1, <1>2, <1>3

LEMMA PyTakesLen ==
  ASSUME NEW q \in PyFields, NEW u \in UsedLens, NEW p
  PROVE  /\ p = [q EXCEPT !.recLen = u] =>
              /\ p \in PyFields /\ p.recLen = u /\ p.packetsize = q.packetsize
              /\ GroupsOf(p) = GroupsOf(q)
         /\ p = [q EXCEPT !.packetsize = u] =>
              /\ p \in PyFields /\ p.recLen = q.recLen /\ p.packetsize = u
              /\ GroupsOf(p) = GroupsOf(q)
BY DEF PyFields, GroupsOf

LEMMA PyTakesDepth ==
  ASSUME NEW q \in PyFields, NEW u \in Nat \ {0}, NEW p,
         p = [q EXCEPT !.depth = u]
  PROVE  /\ p \in PyFields /\ p.depth = u
         /\ p.recLen = q.recLen /\ p.packetsize = q.packetsize
BY DEF PyFields

LEMMA PyTakesTimer ==
  ASSUME NEW q \in PyFields, NEW u \in UsedTimes, NEW p,
         p = [q EXCEPT !.timer = u]
  PROVE  /\ p \in PyFields /\ p.depth = q.depth /\ p.timer = u
         /\ p.recLen = q.recLen /\ p.packetsize = q.packetsize
BY DEF PyFields

LEMMA PyTakesWait ==
  ASSUME NEW q \in PyFields, NEW u \in PyWaits, NEW p,
         p = [q EXCEPT !.wait = u]
  PROVE  /\ p \in PyFields
         /\ p.depth = q.depth /\ p.timer = q.timer /\ p.wait = u
         /\ p.recLen = q.recLen /\ p.packetsize = q.packetsize
BY DEF PyFields

(* Several, at a time.                                                     *)
WithLens(q, len, size) == [q EXCEPT !.recLen = len, !.packetsize = size]
WithGroups(q, d, t) == [q EXCEPT !.depth = d, !.timer = t]
WithAll(q, d, t, w) == [q EXCEPT !.depth = d, !.timer = t, !.wait = w]

LEMMA PyTakesLens ==
  ASSUME NEW q \in PyFields, NEW len \in UsedLens, NEW size \in UsedLens,
         NEW p, p = WithLens(q, len, size)
  PROVE  /\ p \in PyFields
         /\ p.recLen = len /\ p.packetsize = size
         /\ GroupsOf(p) = GroupsOf(q)
<1>1. PICK g : g = [q EXCEPT !.recLen = len]
  OBVIOUS
<1>2. g \in PyFields /\ g.recLen = len /\ GroupsOf(g) = GroupsOf(q)
  BY <1>1, PyTakesLen
<1>3. p = [g EXCEPT !.packetsize = size]
  BY <1>1 DEF WithLens
<1>4. QED
  BY <1>2, <1>3, PyTakesLen

LEMMA PyTakesGroups ==
  ASSUME NEW q \in PyFields, NEW d \in Nat \ {0}, NEW t \in UsedTimes,
         NEW p, p = WithGroups(q, d, t)
  PROVE  /\ p \in PyFields /\ p.depth = d /\ p.timer = t
         /\ p.recLen = q.recLen /\ p.packetsize = q.packetsize
<1>1. PICK g : g = [q EXCEPT !.depth = d]
  OBVIOUS
<1>2. /\ g \in PyFields /\ g.depth = d
      /\ g.recLen = q.recLen /\ g.packetsize = q.packetsize
  BY <1>1, PyTakesDepth
<1>3. p = [g EXCEPT !.timer = t]
  BY <1>1 DEF WithGroups
<1>4. QED
  BY <1>2, <1>3, PyTakesTimer

LEMMA PyTakesAll ==
  ASSUME NEW q \in PyFields, NEW d \in Nat \ {0}, NEW t \in UsedTimes,
         NEW w \in PyWaits, NEW p, p = WithAll(q, d, t, w)
  PROVE  /\ p \in PyFields
         /\ p.depth = d /\ p.timer = t /\ p.wait = w
         /\ p.recLen = q.recLen /\ p.packetsize = q.packetsize
<1> DEFINE g == WithGroups(q, d, t)
<1>2. /\ g \in PyFields /\ g.depth = d /\ g.timer = t
      /\ g.recLen = q.recLen /\ g.packetsize = q.packetsize
  BY PyTakesGroups
<1>3. p = [g EXCEPT !.wait = w]
  BY DEF WithAll, WithGroups
<1> HIDE DEF g
<1>4. /\ p \in PyFields
      /\ p.depth = g.depth /\ p.timer = g.timer /\ p.wait = w
      /\ p.recLen = g.recLen /\ p.packetsize = g.packetsize
  BY <1>2, <1>3, PyTakesWait
<1>5. QED
  BY <1>2, <1>4

LEMMA DelayCommand ==
  ASSUME TypeOK, NEW td \in Delays, SetTrigDelay(td)
  PROVE  \E m, p : /\ Commands(m, p, lensBy, badWait) /\ Send(m) /\ py' = p
                   /\ UNCHANGED <<lensBy, badWait>>
<1>1. td \in Nat
  BY SettingsAssumption
<1>2. PICK u : u = IF td <= TRIG_DELAY_MAX THEN td ELSE 0
  OBVIOUS
<1>3. u \in Nat /\ u <= 1000
  BY <1>1, <1>2 DEF TRIG_DELAY_MAX
<1>4. u \in UsedDelays
  BY <1>3, UsedValues
<1>5. PICK m, p : m = Msg("trigDelay", u, 0, 0) /\ p = [py EXCEPT !.delay = u]
  OBVIOUS
<1>6. Send(m) /\ py' = p /\ UNCHANGED <<lensBy, badWait>>
  BY <1>2, <1>5 DEF SetTrigDelay
<1>7. m \in ScriptMsgs /\ m.case = "trigDelay"
  <2>1. Checked("trigDelay", u, 0)
    BY <1>4 DEF Checked
  <2>2. QED
    BY <1>3, <1>5, <2>1, MsgAllowed DEF Cases, Msg
<1>8. /\ p \in PyFields
      /\ p.recLen = py.recLen /\ p.packetsize = py.packetsize
      /\ p.depth = py.depth /\ p.timer = py.timer /\ p.wait = py.wait
  <2>1. py \in PyFields
    BY DEF TypeOK
  <2>2. QED
    BY <1>4, <1>5, <2>1, PyKeeps
<1>9. QED
  BY <1>6, <1>7, <1>8, PlainCommand

LEMMA GoCommand ==
  ASSUME TypeOK, NEW da \in {0, 1}, ToggleDataAcq(da)
  PROVE  \E m, p : /\ Commands(m, p, lensBy, badWait) /\ Send(m) /\ py' = p
                   /\ UNCHANGED <<lensBy, badWait>>
<1>1. PICK m, p : m = Msg("dataGo", da, 0, 0) /\ p = [py EXCEPT !.da = da]
  OBVIOUS
<1>2. Send(m) /\ py' = p /\ UNCHANGED <<lensBy, badWait>>
  BY <1>1 DEF ToggleDataAcq
<1>3. m \in ScriptMsgs /\ m.case = "dataGo"
  <2>1. Checked("dataGo", da, 0) /\ da \in Nat
    BY DEF Checked
  <2>2. QED
    BY <1>1, <2>1, MsgAllowed DEF Cases, Msg
<1>4. /\ p \in PyFields
      /\ p.recLen = py.recLen /\ p.packetsize = py.packetsize
      /\ p.depth = py.depth /\ p.timer = py.timer /\ p.wait = py.wait
  <2>1. py \in PyFields
    BY DEF TypeOK
  <2>2. QED
    BY <1>1, <2>1, PyKeeps
<1>5. QED
  BY <1>2, <1>3, <1>4, PlainCommand

LEMMA TimeoutCommand ==
  ASSUME TypeOK, NEW t \in Timeouts, SetQueryDataTimeout(t)
  PROVE  \E m, p : /\ Commands(m, p, lensBy, badWait) /\ Send(m) /\ py' = p
                   /\ UNCHANGED <<lensBy, badWait>>
<1>1. t \in Nat
  BY SettingsAssumption
<1>2. PICK u \in Nat : u = IF t > MIN_QUERY_DATA_TIMEOUT THEN t ELSE 10000
  BY <1>1
<1>3. PICK m, p : m = Msg("timeout", u, 0, 0) /\ p = [py EXCEPT !.timeout = u]
  OBVIOUS
<1>4. Send(m) /\ py' = p /\ UNCHANGED <<lensBy, badWait>>
  BY <1>2, <1>3 DEF SetQueryDataTimeout
<1>5. m \in ScriptMsgs /\ m.case = "timeout"
  <2>1. Checked("timeout", u, 0)
    BY DEF Checked
  <2>2. QED
    BY <1>3, <2>1, MsgAllowed DEF Cases, Msg
<1>6. /\ p \in PyFields
      /\ p.recLen = py.recLen /\ p.packetsize = py.packetsize
      /\ p.depth = py.depth /\ p.timer = py.timer /\ p.wait = py.wait
  <2>1. py \in PyFields
    BY DEF TypeOK
  <2>2. QED
    BY <1>3, <2>1, PyKeeps
<1>7. QED
  BY <1>4, <1>5, <1>6, PlainCommand

LEMMA ResetCommand ==
  ASSUME TypeOK, ResetVars
  PROVE  \E m : /\ Commands(m, py, "reset", badWait) /\ Send(m)
                /\ lensBy' = "reset" /\ UNCHANGED <<py, badWait>>
<1>1. PICK m : m = Msg("reset", 0, 0, 0)
  OBVIOUS
<1>2. m \in ScriptMsgs /\ m.case = "reset"
  <2>1. Checked("reset", 0, 0)
    BY DEF Checked
  <2>2. QED
    BY <1>1, <2>1, MsgAllowed DEF Cases, Msg
<1>3. Goes(m, py, "reset", badWait)
  BY <1>2 DEF Goes, LensCases
<1>4. Commands(m, py, "reset", badWait)
  BY <1>2, <1>3 DEF Commands, TypeOK
<1>5. QED
  BY <1>1, <1>4 DEF ResetVars

LEMMA RecLenCommand ==
  ASSUME TypeOK, NEW rl \in RecLens, NEW ps \in PacketSizes, SetRecLen(rl, ps)
  PROVE  \E m, p : /\ Commands(m, p, "script", badWait) /\ Send(m) /\ py' = p
                   /\ lensBy' = "script" /\ UNCHANGED badWait
<1>1. rl \in Nat /\ ps \in Nat
  BY SettingsAssumption
<1>2. PICK len, size :
        /\ len = IF rl \in MIN_PACKETSIZE..MAX_RECLEN THEN rl ELSE 2048
        /\ size = IF ~(rl \in MIN_PACKETSIZE..MAX_RECLEN) THEN 2048
                  ELSE IF ps \in MIN_PACKETSIZE..rl THEN ps ELSE rl
  OBVIOUS
<1>3. /\ len \in UsedLens /\ size \in UsedLens
      /\ len \in Nat /\ size \in Nat /\ size <= len
      /\ MAX_RECLEN \notin RecLens => len <= HPS_MAX_RECLEN
  <2>1. CASE rl \in UsedLens
    <3>1. len = rl /\ size = IF ps \in MIN_PACKETSIZE..rl THEN ps ELSE rl
      BY <1>1, <1>2, <2>1, RangesAre
    <3>2. 128 <= rl /\ rl <= 8192
      BY <1>1, <2>1, UsedValues
    <3>3. size \in Nat /\ 128 <= size /\ size <= rl
      <4>1. CASE ps \in MIN_PACKETSIZE..rl
        BY <1>1, <3>1, <4>1, RangesAre
      <4>2. CASE ps \notin MIN_PACKETSIZE..rl
        BY <1>1, <3>1, <3>2, <4>2
      <4>3. QED
        BY <4>1, <4>2
    <3>4. size <= 8192
      BY <1>1, <3>2, <3>3
    <3>5. size \in UsedLens
      BY <3>3, <3>4, UsedValues
    <3>6. MAX_RECLEN \notin RecLens => rl <= HPS_MAX_RECLEN
      BY <1>1, <3>2 DEF MAX_RECLEN, HPS_MAX_RECLEN
    <3>7. QED
      BY <1>1, <2>1, <3>1, <3>3, <3>5, <3>6
  <2>2. CASE rl \notin UsedLens
    <3>1. len = 2048 /\ size = 2048
      BY <1>1, <1>2, <2>2, RangesAre
    <3>2. 2048 \in UsedLens /\ 2048 <= HPS_MAX_RECLEN
      BY UsedValues DEF HPS_MAX_RECLEN
    <3>3. QED
      BY <3>1, <3>2
  <2>3. QED
    BY <2>1, <2>2
<1>4. PICK m, p : /\ m = Msg("recLen", len, size, 0)
                  /\ p = WithLens(py, len, size)
  BY Zenon
<1>5. Send(m) /\ py' = p /\ lensBy' = "script" /\ UNCHANGED badWait
  BY <1>2, <1>4 DEF SetRecLen, WithLens
<1>6. m \in ScriptMsgs
  <2>1. Checked("recLen", len, size)
    BY <1>3 DEF Checked
  <2>2. QED
    BY <1>3, <1>4, <2>1, MsgAllowed DEF Cases
<1>7. m.case = "recLen" /\ m.msg[1] = len /\ m.msg[2] = size
  BY <1>4 DEF Msg
<1>8. /\ p \in PyFields
      /\ p.recLen = len /\ p.packetsize = size
      /\ GroupsOf(p) = GroupsOf(py)
  <2>1. py \in PyFields
    BY DEF TypeOK
  <2>2. QED
    BY <1>3, <1>4, <2>1, PyTakesLens
<1>9. m \in LensAsked(p)
  BY <1>6, <1>7, <1>8 DEF LensAsked
<1>10. Goes(m, p, "script", badWait)
  BY <1>3, <1>7, <1>8, <1>9 DEF Goes, LensCases
<1>11. Commands(m, p, "script", badWait)
  BY <1>6, <1>8, <1>10 DEF Commands, TypeOK
<1>12. QED
  BY <1>5, <1>11

(* The groups: the numbers python stores are those the server makes of the *)
(* ones it sends.                                                          *)
TooLong(w) == w >= 5000

LEMMA AskedAsStored ==
  ASSUME NEW d \in Nat \ {0}, NEW t \in UsedTimes, NEW w \in Nat,
         NEW p, p.depth = d, p.timer = t, p.wait = IF w > 5000 THEN 0 ELSE w,
         NEW bad \in BOOLEAN, bad <=> TooLong(w)
  PROVE  Asked(p, bad, ServerInterleave(<<d, t, w>>))
<1>1. t \in Nat /\ t < 5000
  <2>1. t \in Nat
    BY DEF UsedTimes
  <2>2. QED
    BY <2>1, UsedValues
<1>2. CASE w < 5000
  <2>1. ServerInterleave(<<d, t, w>>) = <<d, t, w>>
    BY <1>1, <1>2 DEF ServerInterleave
  <2>2. ~bad /\ p.wait = w
    BY <1>2 DEF TooLong
  <2> DEFINE n == <<d, t, w>>
  <2>4. n[1] = d /\ n[2] = t /\ n[3] = w
    OBVIOUS
  <2> HIDE DEF n
  <2>5. Asked(p, bad, n)
    BY <2>2, <2>4 DEF Asked
  <2>6. QED
    BY <2>1, <2>5 DEF n
<1>3. CASE w >= 5000
  <2>1. ServerInterleave(<<d, t, w>>) = <<1, 0, 0>>
    BY <1>1, <1>3 DEF ServerInterleave
  <2> DEFINE n == <<1, 0, 0>>
  <2>3. n[1] = 1 /\ n[2] = 0 /\ n[3] = 0
    OBVIOUS
  <2> HIDE DEF n
  <2>4. Asked(p, bad, n)
    BY <1>3, <2>3 DEF Asked, TooLong
  <2>5. QED
    BY <2>1, <2>4 DEF n
<1>4. QED
  BY <1>2, <1>3

LEMMA GroupsCommand ==
  ASSUME TypeOK, NEW depth \in Depths, NEW timer \in Timers, NEW wait \in Waits,
         SetInterleave(depth, timer, wait)
  PROVE  \E m, p, w : /\ Commands(m, p, lensBy, w) /\ Send(m) /\ py' = p
                      /\ badWait' = w /\ UNCHANGED lensBy
<1>1. depth \in Nat /\ timer \in Nat /\ wait \in Nat
  BY SettingsAssumption
<1>2. py \in PyFields /\ lensBy \in {"default", "script", "reset"}
  BY DEF TypeOK
<1>3. ASSUME NEW m \in ScriptMsgs, NEW p \in PyFields, NEW w \in BOOLEAN,
             m.case = "interleave",
             Asked(p, w, ServerInterleave(m.msg)),
             p.recLen = py.recLen, p.packetsize = py.packetsize
      PROVE  Commands(m, p, lensBy, w)
  <2>1. m \in GroupsAsked(p, w)
    BY <1>3 DEF GroupsAsked
  <2>2. Goes(m, p, lensBy, w)
    BY <1>3, <2>1 DEF Goes
  <2>3. QED
    BY <1>2, <2>2 DEF Commands
<1>4. CASE depth > 0 /\ timer < 5000
  <2>1. depth \in Nat \ {0} /\ timer \in UsedTimes
    BY <1>1, <1>4, UsedValues
  <2>2. PICK v : v = IF wait > 5000 THEN 0 ELSE wait
    OBVIOUS
  <2>3. v \in PyWaits
    BY <1>1, <2>2 DEF PyWaits
  <2>4. PICK m, p : /\ m = Msg("interleave", depth, timer, wait)
                    /\ p = WithAll(py, depth, timer, v)
    BY Zenon
  <2>5. Send(m) /\ py' = p /\ badWait' = (wait >= 5000) /\ UNCHANGED lensBy
    BY <1>4, <2>2, <2>4 DEF SetInterleave, WithAll
  <2>6. m \in ScriptMsgs
    <3>1. Checked("interleave", depth, timer)
      BY <1>4, <2>1 DEF Checked
    <3>2. QED
      BY <1>1, <2>4, <3>1, MsgAllowed DEF Cases
  <2>7. m.case = "interleave" /\ m.msg = <<depth, timer, wait>>
    BY <2>4 DEF Msg
  <2>8. /\ p \in PyFields
        /\ p.depth = depth /\ p.timer = timer /\ p.wait = v
        /\ p.recLen = py.recLen /\ p.packetsize = py.packetsize
    BY <1>2, <2>1, <2>3, <2>4, PyTakesAll
  <2>9. PICK w \in BOOLEAN : (w <=> TooLong(wait)) /\ badWait' = w
    <3>1. badWait' \in BOOLEAN
      BY <2>5
    <3>2. badWait' = TooLong(wait)
      BY <2>5, Zenon DEF TooLong
    <3>3. badWait' <=> TooLong(wait)
      BY <3>2, Zenon
    <3>4. QED
      BY <3>1, <3>3
  <2>10. Asked(p, w, ServerInterleave(m.msg))
    BY <1>1, <2>1, <2>2, <2>7, <2>8, <2>9, AskedAsStored
  <2>11. Commands(m, p, lensBy, w)
    BY <1>3, <2>6, <2>7, <2>8, <2>9, <2>10
  <2>12. QED
    BY <2>5, <2>9, <2>11
<1>5. CASE ~(depth > 0 /\ timer < 5000)
  <2>1. 1 \in Nat \ {0} /\ 0 \in UsedTimes
    BY UsedValues
  <2>2. PICK m, p : /\ m = Msg("interleave", 1, 0, 0)
                    /\ p = [py EXCEPT !.depth = 1, !.timer = 0]
    OBVIOUS
  <2>3. Send(m) /\ py' = p /\ badWait' = FALSE /\ UNCHANGED lensBy
    BY <1>5, <2>2 DEF SetInterleave
  <2>4. m \in ScriptMsgs
    <3>1. Checked("interleave", 1, 0)
      BY <2>1 DEF Checked
    <3>2. QED
      BY <2>2, <3>1, MsgAllowed DEF Cases
  <2>5. m.case = "interleave" /\ m.msg = <<1, 0, 0>>
    BY <2>2 DEF Msg
  <2>6. /\ p \in PyFields
        /\ p.depth = 1 /\ p.timer = 0
        /\ p.recLen = py.recLen /\ p.packetsize = py.packetsize
    <3>1. PICK k, o : k = 1 /\ o = 0 /\ p = WithGroups(py, k, o)
      BY <2>2 DEF WithGroups
    <3>2. k \in Nat \ {0} /\ o \in UsedTimes
      BY <2>1, <3>1
    <3>3. QED
      BY <1>2, <3>1, <3>2, PyTakesGroups
  <2>7. Asked(p, FALSE, ServerInterleave(m.msg))
    <3>1. ServerInterleave(<<1, 0, 0>>) = <<1, 0, 0>>
      BY DEF ServerInterleave
    <3>2. PICK n : n = <<1, 0, 0>>
      OBVIOUS
    <3>3. n[1] = 1 /\ n[2] = 0 /\ n[3] = 0
      BY <3>2
    <3>4. Asked(p, FALSE, n)
      BY <2>6, <3>3 DEF Asked
    <3>5. QED
      BY <2>5, <3>1, <3>2, <3>4
  <2>8. Commands(m, p, lensBy, FALSE)
    BY <1>3, <2>4, <2>5, <2>6, <2>7
  <2>9. QED
    BY <2>3, <2>8
<1>6. QED
  BY <1>4, <1>5

(* Every command.                                                          *)
LEMMA ScriptStep ==
  ASSUME TypeOK, ScriptActions
  PROVE  \E m, p, l, w : /\ Commands(m, p, l, w) /\ Send(m)
                         /\ py' = p /\ lensBy' = l /\ badWait' = w
<1>1. ASSUME NEW td \in Delays, SetTrigDelay(td)
      PROVE  \E m, p, l, w : /\ Commands(m, p, l, w) /\ Send(m)
                             /\ py' = p /\ lensBy' = l /\ badWait' = w
  BY <1>1, DelayCommand
<1>2. ASSUME NEW rl \in RecLens, NEW ps \in PacketSizes, SetRecLen(rl, ps)
      PROVE  \E m, p, l, w : /\ Commands(m, p, l, w) /\ Send(m)
                             /\ py' = p /\ lensBy' = l /\ badWait' = w
  BY <1>2, RecLenCommand
<1>3. ASSUME NEW d \in Depths, NEW t \in Timers, NEW v \in Waits,
             SetInterleave(d, t, v)
      PROVE  \E m, p, l, w : /\ Commands(m, p, l, w) /\ Send(m)
                             /\ py' = p /\ lensBy' = l /\ badWait' = w
  BY <1>3, GroupsCommand
<1>4. ASSUME NEW da \in {0, 1}, ToggleDataAcq(da)
      PROVE  \E m, p, l, w : /\ Commands(m, p, l, w) /\ Send(m)
                             /\ py' = p /\ lensBy' = l /\ badWait' = w
  BY <1>4, GoCommand
<1>5. ASSUME NEW t \in Timeouts, SetQueryDataTimeout(t)
      PROVE  \E m, p, l, w : /\ Commands(m, p, l, w) /\ Send(m)
                             /\ py' = p /\ lensBy' = l /\ badWait' = w
  BY <1>5, TimeoutCommand
<1>6. ASSUME ResetVars
      PROVE  \E m, p, l, w : /\ Commands(m, p, l, w) /\ Send(m)
                             /\ py' = p /\ lensBy' = l /\ badWait' = w
  BY <1>6, ResetCommand
<1>7. QED
  BY <1>1, <1>2, <1>3, <1>4, <1>5, <1>6 DEF ScriptActions

-----------------------------------------------------------------------------
(* Types and the layout *)

ServerIsLegal(s) == s.packetsize \in MIN_PACKETSIZE..s.recLen

LEMMA ServerLegalKept ==
  ASSUME NEW s \in ServerVars, NEW m \in ScriptMsgs,
         NEW t, t = ServerApply(s, m), ServerIsLegal(s)
  PROVE  ServerIsLegal(t)
<1>1. PICK c \in Cases, x \in Nat, y \in Nat, z \in Nat :
        m = Msg(c, x, y, z) /\ Checked(c, x, y)
  BY ScriptMsgIs
<1>2. /\ c = "recLen" => t.recLen = x /\ t.packetsize = y
      /\ c = "reset" => t = ServerDefaults
      /\ c \notin {"recLen", "reset"} =>
           t.recLen = s.recLen /\ t.packetsize = s.packetsize
  BY <1>1, ServerKeeps
<1>3. CASE c = "recLen"
  <2>1. y \in UsedLens /\ y <= x
    BY <1>1, <1>3 DEF Checked
  <2>2. y \in MIN_PACKETSIZE..x
    BY <1>1, <2>1, RangesAre, UsedValues
  <2>3. QED
    BY <1>2, <1>3, <2>2 DEF ServerIsLegal
<1>4. CASE c = "reset"
  <2>1. t.recLen = 2048 /\ t.packetsize = 2048
    BY <1>2, <1>4 DEF ServerDefaults
  <2>2. 2048 \in MIN_PACKETSIZE..2048
    BY DEF MIN_PACKETSIZE
  <2>3. QED
    BY <2>1, <2>2 DEF ServerIsLegal
<1>5. CASE c \notin {"recLen", "reset"}
  BY <1>2, <1>5 DEF ServerIsLegal
<1>6. QED
  BY <1>3, <1>4, <1>5

(* The steps of Next.                                                      *)
LEMMA Steps ==
  ASSUME Next
  PROVE  ScriptActions \/ ServerHandles \/ \E b \in Boards : BoardHandles(b)
BY DEF Next, ScriptActions

(* The board that handles a message, and the others.                       *)
LEMMA BoardStep ==
  ASSUME TypeOK, NEW b \in Boards, BoardHandles(b), NEW c \in Boards
  PROVE  /\ c # b => hps'[c] = hps[c] /\ comm'[c] = comm[c]
         /\ c = b => /\ hps'[c] = HpsApply(hps[c], Head(comm[c]))
                     /\ comm'[c] = Tail(comm[c])
                     /\ comm[c] # <<>>
                     /\ Head(comm[c]) \in BoardMsgs
         /\ comm'[c] \in Seq(BoardMsgs)
         /\ hps'[c] \in HpsVars
         /\ BoardIsLegal(hps[c]) => BoardIsLegal(hps'[c])
<1>1. /\ comm \in [Boards -> Seq(BoardMsgs)]
      /\ hps \in [Boards -> HpsVars]
  BY DEF TypeOK
<1>2. /\ comm[b] # <<>>
      /\ hps' = [hps EXCEPT ![b] = HpsApply(@, Head(comm[b]))]
      /\ comm' = [comm EXCEPT ![b] = Tail(@)]
  BY DEF BoardHandles
<1>3. CASE c # b
  BY <1>1, <1>2, <1>3
<1>4. CASE c = b
  <2>1. PICK q \in Seq(BoardMsgs), h \in HpsVars : q = comm[c] /\ h = hps[c]
    BY <1>1
  <2>2. q # <<>> /\ hps'[c] = HpsApply(h, Head(q)) /\ comm'[c] = Tail(q)
    BY <1>1, <1>2, <1>4, <2>1
  <2>3. Head(q) \in BoardMsgs /\ Tail(q) \in Seq(BoardMsgs)
    BY <2>2, HeadTailProperties
  <2>4. PICK g : g = HpsApply(h, Head(q))
    BY Zenon
  <2>5. PICK k \in Cases \ {"reset"}, x \in Nat, y \in Nat, z \in Nat :
          /\ Head(q) = Msg(k, x, y, z)
          /\ Checked(k, x, y)
          /\ k = "interleave" => z \in UsedTimes
    BY <2>3, BoardMsgIs
  <2>6. g \in HpsVars /\ (BoardIsLegal(h) => BoardIsLegal(g))
    BY <2>4, <2>5, BoardTakes
  <2>7. QED
    BY <1>4, <2>1, <2>2, <2>3, <2>4, <2>6
<1>5. QED
  BY <1>3, <1>4

(* The server handling a message.                                          *)
LEMMA ServerStep ==
  ASSUME TypeOK, ServerHandles
  PROVE  /\ ipc # <<>> /\ Head(ipc) \in ScriptMsgs /\ ipc' = Tail(ipc)
         /\ ipc' \in Seq(ScriptMsgs)
         /\ server' = ServerApply(server, Head(ipc))
         /\ server' \in ServerVars
         /\ ServerIsLegal(server) => ServerIsLegal(server')
         /\ comm' \in [Boards -> Seq(BoardMsgs)]
         /\ \A b \in Boards : comm'[b] = comm[b] \o ServerSends(Head(ipc))
<1>1. /\ ipc \in Seq(ScriptMsgs) /\ server \in ServerVars
      /\ comm \in [Boards -> Seq(BoardMsgs)]
  BY DEF TypeOK
<1>2. /\ ipc # <<>> /\ ipc' = Tail(ipc)
      /\ server' = ServerApply(server, Head(ipc))
      /\ comm' = [b \in Boards |-> comm[b] \o ServerSends(Head(ipc))]
  BY DEF ServerHandles
<1>3. Head(ipc) \in ScriptMsgs /\ ipc' \in Seq(ScriptMsgs)
  BY <1>1, <1>2, HeadTailProperties
<1>a. PICK m \in ScriptMsgs, s \in ServerVars : m = Head(ipc) /\ s = server
  BY <1>1, <1>3
<1>4. PICK t : t = ServerApply(s, m)
  BY Zenon
<1>5. ASSUME NEW b \in Boards
      PROVE  /\ comm[b] \o ServerSends(m) \in Seq(BoardMsgs)
             /\ t \in ServerVars
  <2>a. PICK q \in Seq(BoardMsgs) : q = comm[b]
    BY <1>1
  <2>1. PICK r : r = q \o ServerSends(m)
    BY Zenon
  <2>2. r \in Seq(BoardMsgs) /\ t \in ServerVars
    BY <1>4, <2>1, LensForwarded
  <2>3. QED
    BY <2>a, <2>1, <2>2
<1>6. t \in ServerVars
  BY <1>5, SettingsAssumption
<1>7. ServerIsLegal(s) => ServerIsLegal(t)
  BY <1>4, ServerLegalKept
<1>8. QED
  BY <1>2, <1>3, <1>a, <1>4, <1>5, <1>6, <1>7

(* A command of the script.                                                *)
LEMMA SendStep ==
  ASSUME TypeOK, NEW m \in ScriptMsgs, Send(m)
  PROVE  /\ ipc' = Append(ipc, m) /\ ipc' \in Seq(ScriptMsgs)
         /\ server' = server /\ comm' = comm /\ hps' = hps
         /\ sent' \in 0..MaxCommands
<1>1. ipc \in Seq(ScriptMsgs) /\ sent \in 0..MaxCommands
  BY DEF TypeOK
<1>2. ipc' \in Seq(ScriptMsgs)
  BY <1>1, AppendProperties DEF Send
<1>3. sent' \in 0..MaxCommands
  BY <1>1, SettingsAssumption DEF Send
<1>4. QED
  BY <1>2, <1>3 DEF Send

LEMMA InitIsLegal ==
  /\ HpsDefaults \in HpsVars /\ BoardIsLegal(HpsDefaults)
  /\ HpsDefaults.recLen = 2048 /\ HpsDefaults.packetsize = 2048
  /\ GroupsOf(HpsDefaults) = <<1, 0, 0>>
  /\ ServerDefaults \in ServerVars /\ ServerIsLegal(ServerDefaults)
  /\ ServerDefaults.recLen = 2048 /\ ServerDefaults.packetsize = 2048
<1>1. /\ 2048 \in HpsLens /\ 2048 \in UsedLens
      /\ 0 \in UsedTimes /\ 0 \in UsedDelays
  BY UsedValues
<1>2. PICK k \in Nat : k = 2048 /\ k >= 128 /\ k <= 8191
  OBVIOUS
<1>3. PICK n : n = NumPorts(k, k)
  BY Zenon
<1>4. n \in Nat /\ PortsSuffice(n, k, k)
  BY <1>2, <1>3, NumPortsSuffice
<1>5. /\ HpsDefaults \in HpsVars
      /\ HpsDefaults.recLen = k /\ HpsDefaults.packetsize = k
      /\ HpsDefaults.numPorts = n
      /\ HpsDefaults.depth = 1 /\ HpsDefaults.timer = 0 /\ HpsDefaults.wait = 0
  BY <1>1, <1>2, <1>3, <1>4 DEF HpsDefaults, HpsVars
<1>6. k \in MIN_PACKETSIZE..k
  BY <1>2, RangesAre
<1>7. BoardIsLegal(HpsDefaults)
  BY <1>4, <1>5, <1>6 DEF BoardIsLegal
<1>8. /\ ServerDefaults \in ServerVars
      /\ ServerDefaults.recLen = k /\ ServerDefaults.packetsize = k
  BY <1>1, <1>2 DEF ServerDefaults, ServerVars
<1>9. ServerIsLegal(ServerDefaults)
  BY <1>6, <1>8 DEF ServerIsLegal
<1>10. GroupsOf(HpsDefaults) = <<1, 0, 0>>
  BY <1>5 DEF GroupsOf
<1>11. QED
  BY <1>2, <1>5, <1>7, <1>8, <1>9, <1>10

LEMMA TypeInit == Init => TypeOK
<1> SUFFICES ASSUME Init PROVE TypeOK
  OBVIOUS
<1>1. py \in PyFields
  <2>1. /\ 2048 \in UsedLens /\ 0 \in UsedTimes /\ 0 \in UsedDelays /\ 0 \in PyWaits
    BY UsedValues DEF PyWaits
  <2>2. QED
    BY <2>1 DEF Init, PyFields
<1>2. ipc \in Seq(ScriptMsgs)
  BY EmptySeq DEF Init
<1>3. server \in ServerVars
  BY InitIsLegal DEF Init
<1>4. comm \in [Boards -> Seq(BoardMsgs)]
  BY EmptySeq DEF Init
<1>5. hps \in [Boards -> HpsVars]
  BY InitIsLegal DEF Init
<1>6. sent \in 0..MaxCommands
  BY SettingsAssumption DEF Init
<1>7. QED
  BY <1>1, <1>2, <1>3, <1>4, <1>5, <1>6 DEF Init, TypeOK

LEMMA ResetOrNot ==
  ASSUME TypeOK, ScriptActions
  PROVE  groupsReset' \in BOOLEAN
<1>1. groupsReset \in BOOLEAN
  BY DEF TypeOK
<1>2. ASSUME NEW td \in Delays, SetTrigDelay(td)
      PROVE  groupsReset' = groupsReset
  BY <1>2 DEF SetTrigDelay
<1>3. ASSUME NEW rl \in RecLens, NEW ps \in PacketSizes, SetRecLen(rl, ps)
      PROVE  groupsReset' = groupsReset
  BY <1>3 DEF SetRecLen
<1>4. ASSUME NEW d \in Depths, NEW t \in Timers, NEW w \in Waits,
             SetInterleave(d, t, w)
      PROVE  groupsReset' = FALSE
  BY <1>4 DEF SetInterleave
<1>5. ASSUME NEW da \in {0, 1}, ToggleDataAcq(da)
      PROVE  groupsReset' = groupsReset
  BY <1>5 DEF ToggleDataAcq
<1>6. ASSUME NEW t \in Timeouts, SetQueryDataTimeout(t)
      PROVE  groupsReset' = groupsReset
  BY <1>6 DEF SetQueryDataTimeout
<1>7. ResetVars => groupsReset' = TRUE
  BY DEF ResetVars
<1>8. QED
  BY <1>1, <1>2, <1>3, <1>4, <1>5, <1>6, <1>7 DEF ScriptActions

LEMMA TypeStep == TypeOK /\ [Next]_setVars => TypeOK'
<1> SUFFICES ASSUME TypeOK, [Next]_setVars PROVE TypeOK'
  OBVIOUS
<1>1. CASE ScriptActions
  <2>1. PICK m, p, l, w : /\ Commands(m, p, l, w) /\ Send(m)
                          /\ py' = p /\ lensBy' = l /\ badWait' = w
    BY <1>1, ScriptStep
  <2>2. /\ m \in ScriptMsgs /\ p \in PyFields
        /\ l \in {"default", "script", "reset"} /\ w \in BOOLEAN
    BY <2>1 DEF Commands
  <2>3. /\ ipc' \in Seq(ScriptMsgs)
        /\ server' = server /\ comm' = comm /\ hps' = hps
        /\ sent' \in 0..MaxCommands
    BY <2>1, <2>2, SendStep
  <2>4. groupsReset' \in BOOLEAN
    BY <1>1, ResetOrNot
  <2>5. QED
    BY <2>1, <2>2, <2>3, <2>4 DEF TypeOK
<1>2. CASE ServerHandles
  <2>1. UNCHANGED <<py, hps, lensBy, badWait, groupsReset, sent>>
    BY <1>2 DEF ServerHandles
  <2>2. QED
    BY <1>2, <2>1, ServerStep DEF TypeOK
<1>3. ASSUME NEW b \in Boards, BoardHandles(b)
      PROVE  TypeOK'
  <2>1. UNCHANGED <<py, ipc, server, lensBy, badWait, groupsReset, sent>>
    BY <1>3 DEF BoardHandles
  <2>2. comm' \in [Boards -> Seq(BoardMsgs)]
    <3>1. \A c \in Boards : comm'[c] \in Seq(BoardMsgs)
      BY <1>3, BoardStep
    <3>2. comm' = [c \in Boards |-> comm'[c]]
      BY <1>3 DEF BoardHandles, TypeOK
    <3>3. QED
      BY <3>1, <3>2
  <2>3. hps' \in [Boards -> HpsVars]
    <3>1. \A c \in Boards : hps'[c] \in HpsVars
      BY <1>3, BoardStep
    <3>2. hps' = [c \in Boards |-> hps'[c]]
      BY <1>3 DEF BoardHandles, TypeOK
    <3>3. QED
      BY <3>1, <3>2
  <2>4. QED
    BY <2>1, <2>2, <2>3 DEF TypeOK
<1>4. CASE UNCHANGED setVars
  BY <1>4 DEF TypeOK, setVars
<1>5. QED
  BY <1>1, <1>2, <1>3, <1>4, Steps

(* Every value the three tiers hold has been checked, and so has every     *)
(* message on its way: python, the server and the boards repeat each       *)
(* other's checks (dataServer.py:29, cServer.c:603, client_funcs.h:289).   *)
THEOREM TypeCorrect == Spec => []TypeOK
<1>1. Init => TypeOK
  BY TypeInit
<1>2. TypeOK /\ [Next]_setVars => TypeOK'
  BY TypeStep
<1>3. QED
  BY <1>1, <1>2, PTL DEF Spec

LEMMA LayoutParts ==
  LayoutIsLegal <=> /\ ServerIsLegal(server)
                    /\ \A b \in Boards : BoardIsLegal(hps[b])
BY DEF LayoutIsLegal, ServerIsLegal, BoardIsLegal, PortsSuffice

LEMMA LayoutStep == TypeOK /\ LayoutIsLegal /\ [Next]_setVars => LayoutIsLegal'
<1> SUFFICES ASSUME TypeOK, LayoutIsLegal, [Next]_setVars
             PROVE  /\ ServerIsLegal(server')
                    /\ \A b \in Boards : BoardIsLegal(hps'[b])
  BY DEF LayoutIsLegal, ServerIsLegal, BoardIsLegal, PortsSuffice
<1>1. ServerIsLegal(server) /\ \A b \in Boards : BoardIsLegal(hps[b])
  BY LayoutParts
<1>2. CASE ScriptActions
  <2>1. PICK m, p, l, w : Commands(m, p, l, w) /\ Send(m)
    BY <1>2, ScriptStep
  <2>2. server' = server /\ hps' = hps
    BY <2>1 DEF Send
  <2>3. QED
    BY <1>1, <2>2
<1>3. CASE ServerHandles
  <2>1. hps' = hps
    BY <1>3 DEF ServerHandles
  <2>2. QED
    BY <1>1, <1>3, <2>1, ServerStep
<1>4. ASSUME NEW b \in Boards, BoardHandles(b)
      PROVE  /\ ServerIsLegal(server')
             /\ \A c \in Boards : BoardIsLegal(hps'[c])
  <2>1. server' = server
    BY <1>4 DEF BoardHandles
  <2>2. QED
    BY <1>1, <1>4, <2>1, BoardStep
<1>5. CASE UNCHANGED setVars
  BY <1>1, <1>5 DEF setVars
<1>6. QED
  BY <1>2, <1>3, <1>4, <1>5, Steps

(* No script can make the server or a board hold a layout with a packet    *)
(* longer than the record, with ports too few or too many for it, or with  *)
(* more than the server listens on: what HpsRecLen and CASE_RECLEN of the  *)
(* server check is enough (client_funcs.h:306, cServer.c:229).             *)
THEOREM LayoutStaysLegal == Spec => []LayoutIsLegal
<1>1. Init => TypeOK /\ LayoutIsLegal
  BY TypeInit, InitIsLegal, LayoutParts DEF Init
<1>2. TypeOK /\ LayoutIsLegal /\ [Next]_setVars => TypeOK' /\ LayoutIsLegal'
  BY TypeStep, LayoutStep
<1>3. QED
  BY <1>1, <1>2, PTL DEF Spec

-----------------------------------------------------------------------------
(* The record length on its way *)

(* A board that handles a message.                                         *)
LEMMA BoardFollows ==
  ASSUME NEW q \in Seq(BoardMsgs), q # <<>>, NEW h \in HpsVars,
         NEW s \in ServerVars, NEW g, g = HpsApply(h, Head(q)),
         LastIn(q, {"recLen"}, LensOf(s)),
         Without(q, {"recLen"}) => BoardLens(h, s)
  PROVE  /\ LastIn(Tail(q), {"recLen"}, LensOf(s))
         /\ Without(Tail(q), {"recLen"}) => BoardLens(g, s)
<1>1. PICK n \in BoardMsgs : n = Head(q)
  BY HeadTailProperties
<1>2. PICK c \in Cases \ {"reset"}, x \in Nat, y \in Nat, z \in Nat :
        /\ n = Msg(c, x, y, z)
        /\ Checked(c, x, y)
        /\ c = "interleave" => z \in UsedTimes
  BY BoardMsgIs
<1>3. n.case = c /\ n.msg[1] = x /\ n.msg[2] = y
  BY <1>2 DEF Msg
<1>4. /\ LastIn(Tail(q), {"recLen"}, LensOf(s))
      /\ Without(Tail(q), {"recLen"}) /\ c = "recLen" => n \in LensOf(s)
      /\ Without(Tail(q), {"recLen"}) /\ c # "recLen" => Without(q, {"recLen"})
  BY <1>1, <1>3, LastOfTail
<1>5. /\ c = "recLen" =>
           /\ x <= HPS_MAX_RECLEN => g.recLen = x /\ g.packetsize = y
           /\ x > HPS_MAX_RECLEN => g.recLen = 2048 /\ g.packetsize = 2048
      /\ c # "recLen" => g.recLen = h.recLen /\ g.packetsize = h.packetsize
  BY <1>1, <1>2, BoardTakes
<1>6. ASSUME Without(Tail(q), {"recLen"}), c = "recLen"
      PROVE  BoardLens(g, s)
  <2>1. s.recLen = x /\ s.packetsize = y
    BY <1>3, <1>4, <1>6 DEF LensOf
  <2>2. x <= HPS_MAX_RECLEN \/ x > HPS_MAX_RECLEN
    BY DEF HPS_MAX_RECLEN
  <2>3. ~(x > HPS_MAX_RECLEN /\ x <= HPS_MAX_RECLEN)
    BY DEF HPS_MAX_RECLEN
  <2>4. QED
    BY <1>5, <1>6, <2>1, <2>2, <2>3 DEF BoardLens
<1>7. ASSUME Without(Tail(q), {"recLen"}), c # "recLen"
      PROVE  BoardLens(g, s)
  BY <1>4, <1>5, <1>7 DEF BoardLens
<1>8. QED
  BY <1>4, <1>6, <1>7

LEMMA BoardsFollowStep ==
  TypeOK /\ BoardsFollow /\ [Next]_setVars => BoardsFollow'
<1> SUFFICES ASSUME TypeOK, BoardsFollow, [Next]_setVars, NEW b \in Boards
             PROVE  /\ LastIn(comm'[b], {"recLen"}, LensOf(server'))
                    /\ Without(comm'[b], {"recLen"}) => BoardLens(hps'[b], server')
  BY DEF BoardsFollow
<1>1. /\ LastIn(comm[b], {"recLen"}, LensOf(server))
      /\ Without(comm[b], {"recLen"}) => BoardLens(hps[b], server)
  BY DEF BoardsFollow
<1>2. PICK q \in Seq(BoardMsgs), h \in HpsVars, s \in ServerVars :
        q = comm[b] /\ h = hps[b] /\ s = server
  BY DEF TypeOK
<1>3. CASE ScriptActions
  <2>1. PICK m, p, l, w : Commands(m, p, l, w) /\ Send(m)
    BY <1>3, ScriptStep
  <2>2. server' = server /\ hps' = hps /\ comm' = comm
    BY <2>1 DEF Send
  <2>3. QED
    BY <1>1, <2>2
<1>4. CASE ServerHandles
  <2>a. PICK m \in ScriptMsgs : m = Head(ipc)
    BY <1>4, ServerStep
  <2>1. PICK t, r : t = ServerApply(s, m) /\ r = q \o ServerSends(m)
    BY Zenon
  <2>2. server' = t /\ comm'[b] = r /\ hps' = hps
    BY <1>2, <1>4, <2>a, <2>1, ServerStep DEF ServerHandles
  <2>3. LensGoOn(m, s, t, q, r)
    BY <2>1, LensForwarded
  <2>4. CASE m.case \in {"recLen", "reset"}
    BY <2>2, <2>3, <2>4 DEF LensGoOn
  <2>5. CASE m.case \notin {"recLen", "reset"}
    <3>1. BoardLens(h, s) => BoardLens(h, t)
      BY <2>3, <2>5 DEF BoardLens, LensGoOn
    <3>2. QED
      BY <1>1, <1>2, <2>2, <2>3, <2>5, <3>1 DEF LensGoOn
  <2>6. QED
    BY <2>4, <2>5
<1>5. ASSUME NEW c \in Boards, BoardHandles(c)
      PROVE  /\ LastIn(comm'[b], {"recLen"}, LensOf(server'))
             /\ Without(comm'[b], {"recLen"}) => BoardLens(hps'[b], server')
  <2>1. server' = server
    BY <1>5 DEF BoardHandles
  <2>2. CASE b # c
    <3>1. hps'[b] = hps[b] /\ comm'[b] = comm[b]
      BY <1>5, <2>2, BoardStep
    <3>2. QED
      BY <1>1, <2>1, <3>1
  <2>3. CASE b = c
    <3>1. /\ hps'[b] = HpsApply(h, Head(q)) /\ comm'[b] = Tail(q)
          /\ q # <<>>
      BY <1>2, <1>5, <2>3, BoardStep
    <3>2. PICK g : g = HpsApply(h, Head(q))
      BY Zenon
    <3>3. /\ LastIn(Tail(q), {"recLen"}, LensOf(s))
          /\ Without(Tail(q), {"recLen"}) => BoardLens(g, s)
      BY <1>1, <1>2, <3>1, <3>2, BoardFollows
    <3>4. QED
      BY <1>2, <2>1, <3>1, <3>2, <3>3
  <2>4. QED
    BY <2>2, <2>3
<1>6. CASE UNCHANGED setVars
  BY <1>1, <1>6 DEF setVars
<1>7. QED
  BY <1>3, <1>4, <1>5, <1>6, Steps

LEMMA BoardsFollowInit == Init => BoardsFollow
<1> SUFFICES ASSUME Init, NEW b \in Boards
             PROVE  /\ LastIn(comm[b], {"recLen"}, LensOf(server))
                    /\ BoardLens(hps[b], server)
  BY DEF BoardsFollow
<1>1. comm[b] = <<>> /\ hps[b] = HpsDefaults /\ server = ServerDefaults
  BY DEF Init
<1>2. BoardLens(HpsDefaults, ServerDefaults)
  BY InitIsLegal DEF BoardLens, HPS_MAX_RECLEN
<1>3. QED
  BY <1>1, <1>2, EmptyQueue

(* The server that handles a message about the length, or another.         *)
LEMMA ServerTakes ==
  ASSUME NEW m \in ScriptMsgs, NEW s \in ServerVars,
         NEW t, t = ServerApply(s, m)
  PROVE  /\ m.case = "recLen" => t.recLen = m.msg[1] /\ t.packetsize = m.msg[2]
         /\ m.case = "reset" => t.recLen = ServerDefaults.recLen
         /\ m.case \notin LensCases =>
              t.recLen = s.recLen /\ t.packetsize = s.packetsize
<1>1. PICK c \in Cases, x \in Nat, y \in Nat, z \in Nat :
        m = Msg(c, x, y, z) /\ Checked(c, x, y)
  BY ScriptMsgIs
<1>2. m.case = c /\ m.msg[1] = x /\ m.msg[2] = y
  BY <1>1 DEF Msg
<1>3. /\ c = "recLen" => t.recLen = x /\ t.packetsize = y
      /\ c = "reset" => t = ServerDefaults
      /\ c \notin {"recLen", "reset"} =>
           t.recLen = s.recLen /\ t.packetsize = s.packetsize
  BY <1>1, ServerKeeps
<1>4. QED
  BY <1>2, <1>3 DEF LensCases

LEMMA ServerFollowsStep ==
  TypeOK /\ ServerFollows /\ [Next]_setVars => ServerFollows'
<1> SUFFICES ASSUME TypeOK, ServerFollows, [Next]_setVars
             PROVE  ServerFollows'
  OBVIOUS
<1>1. PICK q \in Seq(ScriptMsgs), s \in ServerVars : q = ipc /\ s = server
  BY DEF TypeOK
<1>2. CASE ScriptActions
  <2>1. PICK m, p, l, w : /\ Commands(m, p, l, w) /\ Send(m)
                          /\ py' = p /\ lensBy' = l /\ badWait' = w
    BY <1>2, ScriptStep
  <2>2. m \in ScriptMsgs /\ Goes(m, p, l, w)
    BY <2>1 DEF Commands
  <2>3. ipc' = Append(q, m) /\ server' = server
    BY <1>1, <2>1 DEF Send
  <2>4. CASE m.case = "recLen"
    <3>1. /\ l = "script" /\ m \in LensAsked(p) /\ m.case \in LensCases
      BY <2>2, <2>4 DEF Goes, LensCases
    <3>2. LastIn(Append(q, m), LensCases, LensAsked(p))
          /\ ~Without(Append(q, m), LensCases)
      BY <2>2, <3>1, LastOfAppended
    <3>3. QED
      BY <2>1, <2>3, <3>1, <3>2 DEF ServerFollows
  <2>5. CASE m.case = "reset"
    <3>1. l = "reset" /\ m \in Resets /\ m.case \in LensCases
      BY <2>2, <2>5 DEF Goes, LensCases, Resets
    <3>2. LastIn(Append(q, m), LensCases, Resets)
          /\ ~Without(Append(q, m), LensCases)
      BY <2>2, <3>1, LastOfAppended
    <3>3. QED
      BY <2>1, <2>3, <3>1, <3>2 DEF ServerFollows
  <2>6. CASE m.case \notin LensCases
    <3>1. l = lensBy /\ p.recLen = py.recLen /\ p.packetsize = py.packetsize
      BY <2>2, <2>6 DEF Goes
    <3>2. LensAsked(p) = LensAsked(py)
      BY <3>1 DEF LensAsked
    <3>3. /\ LastIn(q, LensCases, LensAsked(py)) =>
               LastIn(Append(q, m), LensCases, LensAsked(py))
          /\ LastIn(q, LensCases, Resets) => LastIn(Append(q, m), LensCases, Resets)
          /\ Without(Append(q, m), LensCases) <=> Without(q, LensCases)
      BY <2>2, <2>6, OtherAppended
    <3>4. QED
      BY <1>1, <2>1, <2>3, <3>1, <3>2, <3>3 DEF ServerFollows
  <2>7. QED
    BY <2>4, <2>5, <2>6 DEF LensCases
<1>3. CASE ServerHandles
  <2>a. PICK m \in ScriptMsgs : m = Head(q)
    BY <1>1, <1>3, ServerStep
  <2>1. PICK t : t = ServerApply(s, m)
    BY Zenon
  <2>2. /\ q # <<>> /\ ipc' = Tail(q) /\ server' = t
        /\ py' = py /\ lensBy' = lensBy
    BY <1>1, <1>3, <2>a, <2>1 DEF ServerHandles
  <2>3. /\ m.case = "recLen" => t.recLen = m.msg[1] /\ t.packetsize = m.msg[2]
        /\ m.case = "reset" => t.recLen = ServerDefaults.recLen
        /\ m.case \notin LensCases =>
             t.recLen = s.recLen /\ t.packetsize = s.packetsize
    BY <2>1, ServerTakes
  <2>4. ASSUME NEW M, LastIn(q, LensCases, M)
        PROVE  /\ LastIn(Tail(q), LensCases, M)
               /\ Without(Tail(q), LensCases) /\ m.case \in LensCases => m \in M
               /\ Without(Tail(q), LensCases) /\ m.case \notin LensCases =>
                    Without(q, LensCases)
    BY <2>a, <2>2, <2>4, LastOfTail
  <2>5. ASSUME lensBy = "script"
        PROVE  /\ LastIn(Tail(q), LensCases, LensAsked(py))
               /\ Without(Tail(q), LensCases) => /\ t.recLen = py.recLen
                                                 /\ t.packetsize = py.packetsize
    <3>1. /\ LastIn(q, LensCases, LensAsked(py))
          /\ Without(q, LensCases) => /\ s.recLen = py.recLen
                                      /\ s.packetsize = py.packetsize
      BY <1>1, <2>5 DEF ServerFollows
    <3>2. m \in LensAsked(py) => /\ m.case = "recLen"
                                 /\ m.msg[1] = py.recLen
                                 /\ m.msg[2] = py.packetsize
      BY DEF LensAsked
    <3>3. QED
      BY <2>3, <2>4, <3>1, <3>2
  <2>6. ASSUME lensBy = "reset"
        PROVE  /\ LastIn(Tail(q), LensCases, Resets)
               /\ Without(Tail(q), LensCases) => t.recLen = ServerDefaults.recLen
    <3>1. /\ LastIn(q, LensCases, Resets)
          /\ Without(q, LensCases) => s.recLen = ServerDefaults.recLen
      BY <1>1, <2>6 DEF ServerFollows
    <3>2. m \in Resets => m.case = "reset"
      BY DEF Resets
    <3>3. QED
      BY <2>3, <2>4, <3>1, <3>2
  <2>7. QED
    BY <2>2, <2>5, <2>6 DEF ServerFollows
<1>4. ASSUME NEW b \in Boards, BoardHandles(b)
      PROVE  ServerFollows'
  BY <1>4 DEF BoardHandles, ServerFollows
<1>5. CASE UNCHANGED setVars
  BY <1>5 DEF setVars, ServerFollows
<1>6. QED
  BY <1>2, <1>3, <1>4, <1>5, Steps

(* No length too long for the boards, if the script names none.            *)
LEMMA ShortAppended ==
  ASSUME NEW q \in Seq(ScriptMsgs), NEW m \in ScriptMsgs, Short(q),
         m.case = "recLen" => m.msg[1] <= HPS_MAX_RECLEN
  PROVE  Short(Append(q, m))
<1> DEFINE a == Append(q, m)
<1>1. /\ Len(a) = Len(q) + 1 /\ Len(q) \in Nat
      /\ a[Len(q) + 1] = m
      /\ \A i \in 1..Len(q) : a[i] = q[i]
  BY AppendProperties, LenProperties
<1>2. \A i \in 1..Len(a) : (i \in 1..Len(q) /\ a[i] = q[i]) \/ a[i] = m
  BY <1>1
<1>3. QED
  BY <1>2 DEF Short

LEMMA ShortTail ==
  ASSUME NEW q \in Seq(ScriptMsgs), q # <<>>, Short(q)
  PROVE  /\ Short(Tail(q))
         /\ Head(q).case = "recLen" => Head(q).msg[1] <= HPS_MAX_RECLEN
<1> DEFINE t == Tail(q)
<1>1. /\ Len(q) \in Nat \ {0} /\ Len(t) = Len(q) - 1
      /\ \A i \in 1..Len(t) : t[i] = q[i + 1]
  BY HeadTailProperties, EmptySeq
<1>2. Head(q) = q[1] /\ 1 \in 1..Len(q)
  BY <1>1
<1>3. \A i \in 1..Len(t) : i + 1 \in 1..Len(q) /\ t[i] = q[i + 1]
  BY <1>1
<1>4. QED
  BY <1>2, <1>3 DEF Short

LEMMA NoLongestStep ==
  ASSUME MAX_RECLEN \notin RecLens
  PROVE  TypeOK /\ NoLongest /\ [Next]_setVars => NoLongest'
<1> SUFFICES ASSUME TypeOK, NoLongest, [Next]_setVars
             PROVE  server'.recLen <= HPS_MAX_RECLEN /\ Short(ipc')
  BY DEF NoLongest, Short
<1>1. PICK q \in Seq(ScriptMsgs), s \in ServerVars : q = ipc /\ s = server
  BY DEF TypeOK
<1>2. s.recLen <= HPS_MAX_RECLEN /\ Short(q)
  BY <1>1 DEF NoLongest
<1>3. CASE ScriptActions
  <2>1. PICK m, p, l, w : Commands(m, p, l, w) /\ Send(m)
    BY <1>3, ScriptStep
  <2>2. m \in ScriptMsgs /\ Goes(m, p, l, w)
    BY <2>1 DEF Commands
  <2>3. m.case = "recLen" => m.msg[1] <= HPS_MAX_RECLEN
    BY <2>2 DEF Goes
  <2>4. Short(Append(q, m))
    BY <1>2, <2>2, <2>3, ShortAppended
  <2>5. ipc' = Append(q, m) /\ server' = s
    BY <1>1, <2>1 DEF Send
  <2>6. QED
    BY <1>2, <2>4, <2>5
<1>4. CASE ServerHandles
  <2>a. PICK m \in ScriptMsgs : m = Head(q)
    BY <1>1, <1>4, ServerStep
  <2>1. PICK t : t = ServerApply(s, m)
    BY Zenon
  <2>2. q # <<>> /\ ipc' = Tail(q) /\ server' = t
    BY <1>1, <1>4, <2>a, <2>1 DEF ServerHandles
  <2>3. /\ Short(Tail(q))
        /\ m.case = "recLen" => m.msg[1] <= HPS_MAX_RECLEN
    BY <1>2, <2>a, <2>2, ShortTail
  <2>4. /\ m.case = "recLen" => t.recLen = m.msg[1]
        /\ m.case = "reset" => t.recLen = ServerDefaults.recLen
        /\ m.case \notin LensCases => t.recLen = s.recLen
    BY <2>1, ServerTakes
  <2>5. ServerDefaults.recLen <= HPS_MAX_RECLEN
    BY InitIsLegal DEF HPS_MAX_RECLEN
  <2>6. t.recLen <= HPS_MAX_RECLEN
    BY <1>2, <2>3, <2>4, <2>5 DEF LensCases
  <2>7. QED
    BY <2>2, <2>3, <2>6
<1>5. ASSUME NEW b \in Boards, BoardHandles(b)
      PROVE  server'.recLen <= HPS_MAX_RECLEN /\ Short(ipc')
  <2>1. server' = s /\ ipc' = q
    BY <1>1, <1>5 DEF BoardHandles
  <2>2. QED
    BY <1>2, <2>1
<1>6. CASE UNCHANGED setVars
  <2>1. server' = s /\ ipc' = q
    BY <1>1, <1>6 DEF setVars
  <2>2. QED
    BY <1>2, <2>1
<1>7. QED
  BY <1>3, <1>4, <1>5, <1>6, Steps

LEMMA LensInit == Init => ServerFollows /\ NoLongest
<1> SUFFICES ASSUME Init PROVE ServerFollows /\ NoLongest
  OBVIOUS
<1>1. Short(<<>>)
  <2>1. Len(<<>>) = 0
    BY EmptySeq
  <2>2. 1..Len(<<>>) = {}
    BY <2>1
  <2>3. QED
    BY <2>2 DEF Short
<1>2. NoLongest
  BY <1>1, InitIsLegal DEF Init, NoLongest, HPS_MAX_RECLEN
<1>3. ServerFollows
  BY DEF Init, ServerFollows
<1>4. QED
  BY <1>2, <1>3

(* What has arrived when nothing is under way.                             *)
LEMMA QuietLens ==
  ASSUME Quiet, BoardsFollow
  PROVE  \A b \in Boards : BoardLens(hps[b], server)
BY EmptyQueue DEF Quiet, BoardsFollow

LEMMA QuietLensAgree ==
  ASSUME BoardsFollow, ServerFollows, NoLongest
  PROVE  LensAgree
<1> SUFFICES ASSUME Quiet
             PROVE  /\ \A b \in Boards : /\ hps[b].recLen = server.recLen
                                         /\ hps[b].packetsize = server.packetsize
                    /\ lensBy = "script" => /\ server.recLen = py.recLen
                                            /\ server.packetsize = py.packetsize
                    /\ lensBy = "reset" =>
                         server.recLen = ServerDefaults.recLen
  BY DEF LensAgree
<1>1. ASSUME NEW b \in Boards
      PROVE  /\ hps[b].recLen = server.recLen
             /\ hps[b].packetsize = server.packetsize
  BY QuietLens DEF NoLongest, BoardLens
<1>2. Without(ipc, LensCases)
  BY EmptyQueue DEF Quiet
<1>3. QED
  BY <1>1, <1>2 DEF ServerFollows

(* Whatever the script does, boards that have handled their messages cut   *)
(* their records the way the server counts them, but for a length they do  *)
(* not take: they are back to the default of 2048 then, all of them.       *)
THEOREM BoardsTakeTheServersLens ==
  Spec => [](Quiet => \A b \in Boards : BoardLens(hps[b], server))
<1>1. Init => TypeOK /\ BoardsFollow
  BY TypeInit, BoardsFollowInit
<1>2. TypeOK /\ BoardsFollow /\ [Next]_setVars => TypeOK' /\ BoardsFollow'
  BY TypeStep, BoardsFollowStep
<1>3. BoardsFollow => (Quiet => \A b \in Boards : BoardLens(hps[b], server))
  BY QuietLens
<1>4. QED
  BY <1>1, <1>2, <1>3, PTL DEF Spec

(* The three tiers agree on the record length and the packet size once the *)
(* messages have been handled, though none of them is ever answered, for   *)
(* every script that does not ask for 8192, which python and the server    *)
(* take (dataServer.py:44, cServer.c:603) and the boards do not            *)
(* (client_funcs.h:289).                                                   *)
THEOREM TiersAgreeOnLens ==
  ASSUME MAX_RECLEN \notin RecLens
  PROVE  Spec => []LensAgree
<1>1. Init => TypeOK /\ BoardsFollow /\ ServerFollows /\ NoLongest
  BY TypeInit, BoardsFollowInit, LensInit
<1>2. TypeOK /\ BoardsFollow /\ ServerFollows /\ NoLongest /\ [Next]_setVars
        => TypeOK' /\ BoardsFollow' /\ ServerFollows' /\ NoLongest'
  BY TypeStep, BoardsFollowStep, ServerFollowsStep, NoLongestStep
<1>3. BoardsFollow /\ ServerFollows /\ NoLongest => LensAgree
  BY QuietLensAgree
<1>4. QED
  BY <1>1, <1>2, <1>3, PTL DEF Spec

-----------------------------------------------------------------------------
(* The groups on their way *)

(* Only the groups count among what is asked for.                          *)
LEMMA SameGroups ==
  ASSUME NEW p, NEW q, NEW bad, GroupsOf(p) = GroupsOf(q)
  PROVE  /\ GroupsAsked(p, bad) = GroupsAsked(q, bad)
         /\ GroupsSent(p, bad) = GroupsSent(q, bad)
         /\ \A n : Asked(p, bad, n) <=> Asked(q, bad, n)
<1>1. p.depth = q.depth /\ p.timer = q.timer /\ p.wait = q.wait
  BY DEF GroupsOf
<1>2. \A n : Asked(p, bad, n) <=> Asked(q, bad, n)
  BY <1>1 DEF Asked
<1>3. QED
  BY <1>2 DEF GroupsAsked, GroupsSent

(* A board that handles a message.                                         *)
LEMMA BoardGroups ==
  ASSUME NEW q \in Seq(BoardMsgs), q # <<>>, NEW h \in HpsVars,
         NEW g, g = HpsApply(h, Head(q)), NEW p, NEW bad,
         LastIn(q, {"interleave"}, GroupsSent(p, bad)),
         Without(q, {"interleave"}) => Asked(p, bad, GroupsOf(h))
  PROVE  /\ LastIn(Tail(q), {"interleave"}, GroupsSent(p, bad))
         /\ Without(Tail(q), {"interleave"}) => Asked(p, bad, GroupsOf(g))
<1>1. PICK n \in BoardMsgs : n = Head(q)
  BY HeadTailProperties
<1>2. PICK c \in Cases \ {"reset"}, x \in Nat, y \in Nat, z \in Nat :
        /\ n = Msg(c, x, y, z)
        /\ Checked(c, x, y)
        /\ c = "interleave" => z \in UsedTimes
  BY BoardMsgIs
<1>3. n.case = c /\ n.msg = <<x, y, z>>
  BY <1>2 DEF Msg
<1>4. /\ LastIn(Tail(q), {"interleave"}, GroupsSent(p, bad))
      /\ Without(Tail(q), {"interleave"}) /\ c = "interleave" =>
           n \in GroupsSent(p, bad)
      /\ Without(Tail(q), {"interleave"}) /\ c # "interleave" =>
           Without(q, {"interleave"})
  BY <1>1, <1>3, LastOfTail
<1>5. /\ c = "interleave" => g.depth = x /\ g.timer = y /\ g.wait = z
      /\ c # "interleave" =>
           g.depth = h.depth /\ g.timer = h.timer /\ g.wait = h.wait
  BY <1>1, <1>2, BoardTakes
<1>6. ASSUME Without(Tail(q), {"interleave"}), c = "interleave"
      PROVE  Asked(p, bad, GroupsOf(g))
  <2>1. Asked(p, bad, n.msg)
    BY <1>4, <1>6 DEF GroupsSent
  <2>2. GroupsOf(g) = n.msg
    BY <1>3, <1>5, <1>6 DEF GroupsOf
  <2>3. QED
    BY <2>1, <2>2
<1>7. ASSUME Without(Tail(q), {"interleave"}), c # "interleave"
      PROVE  Asked(p, bad, GroupsOf(g))
  <2>1. GroupsOf(g) = GroupsOf(h)
    BY <1>5, <1>7 DEF GroupsOf
  <2>2. QED
    BY <1>4, <1>7, <2>1
<1>8. QED
  BY <1>4, <1>6, <1>7

(* GroupsFollow with each variable named.                                  *)
BoardAsked(q, h, p, bad) ==
  /\ LastIn(q, {"interleave"}, GroupsSent(p, bad))
  /\ Without(q, {"interleave"}) => Asked(p, bad, GroupsOf(h))

LEMMA GroupsParts ==
  GroupsFollow <=>
    /\ LastIn(ipc, {"interleave"}, GroupsAsked(py, badWait))
    /\ Without(ipc, {"interleave"}) =>
         \A b \in Boards : BoardAsked(comm[b], hps[b], py, badWait)
BY DEF GroupsFollow, BoardAsked

LEMMA GroupsStep == TypeOK /\ GroupsFollow /\ [Next]_setVars => GroupsFollow'
<1> SUFFICES ASSUME TypeOK, GroupsFollow, [Next]_setVars
             PROVE  /\ LastIn(ipc', {"interleave"}, GroupsAsked(py', badWait'))
                    /\ Without(ipc', {"interleave"}) =>
                         \A b \in Boards :
                           BoardAsked(comm'[b], hps'[b], py', badWait')
  BY DEF GroupsFollow, BoardAsked
<1>1. PICK q \in Seq(ScriptMsgs) : q = ipc
  BY DEF TypeOK
<1>2. /\ LastIn(q, {"interleave"}, GroupsAsked(py, badWait))
      /\ Without(q, {"interleave"}) =>
           \A b \in Boards : BoardAsked(comm[b], hps[b], py, badWait)
  BY <1>1, GroupsParts
<1>3. CASE ScriptActions
  <2>1. PICK m, p, l, w : /\ Commands(m, p, l, w) /\ Send(m)
                          /\ py' = p /\ lensBy' = l /\ badWait' = w
    BY <1>3, ScriptStep
  <2>2. m \in ScriptMsgs /\ Goes(m, p, l, w)
    BY <2>1 DEF Commands
  <2>3. ipc' = Append(q, m) /\ comm' = comm /\ hps' = hps
    BY <1>1, <2>1 DEF Send
  <2>4. CASE m.case = "interleave"
    <3>1. m \in GroupsAsked(p, w) /\ m.case \in {"interleave"}
      BY <2>2, <2>4 DEF Goes
    <3>2. /\ LastIn(Append(q, m), {"interleave"}, GroupsAsked(p, w))
          /\ ~Without(Append(q, m), {"interleave"})
      BY <2>2, <3>1, LastOfAppended
    <3>3. QED
      BY <2>1, <2>3, <3>2
  <2>5. CASE m.case # "interleave"
    <3>1. w = badWait /\ GroupsOf(p) = GroupsOf(py) /\ m.case \notin {"interleave"}
      BY <2>2, <2>5 DEF Goes
    <3>2. /\ GroupsAsked(p, badWait) = GroupsAsked(py, badWait)
          /\ GroupsSent(p, badWait) = GroupsSent(py, badWait)
          /\ \A n : Asked(p, badWait, n) <=> Asked(py, badWait, n)
      BY <3>1, SameGroups
    <3>3. /\ LastIn(Append(q, m), {"interleave"}, GroupsAsked(py, badWait))
          /\ Without(Append(q, m), {"interleave"}) <=> Without(q, {"interleave"})
      BY <1>2, <2>2, <3>1, OtherAppended
    <3>4. ASSUME NEW b \in Boards, BoardAsked(comm[b], hps[b], py, badWait)
          PROVE  BoardAsked(comm[b], hps[b], p, badWait)
      BY <3>2, <3>4 DEF BoardAsked
    <3>5. QED
      BY <1>2, <2>1, <2>3, <3>1, <3>2, <3>3, <3>4
  <2>6. QED
    BY <2>4, <2>5
<1>4. CASE ServerHandles
  <2>1. PICK m \in ScriptMsgs : m = Head(q)
    BY <1>1, <1>4, ServerStep
  <2>2. /\ q # <<>> /\ ipc' = Tail(q)
        /\ py' = py /\ badWait' = badWait /\ hps' = hps
    BY <1>1, <1>4 DEF ServerHandles
  <2>3. /\ LastIn(Tail(q), {"interleave"}, GroupsAsked(py, badWait))
        /\ Without(Tail(q), {"interleave"}) /\ m.case = "interleave" =>
             m \in GroupsAsked(py, badWait)
        /\ Without(Tail(q), {"interleave"}) /\ m.case # "interleave" =>
             Without(q, {"interleave"})
    BY <1>2, <2>1, <2>2, LastOfTail
  <2>4. ASSUME Without(Tail(q), {"interleave"}), NEW b \in Boards
        PROVE  BoardAsked(comm'[b], hps[b], py, badWait)
    <3>a. PICK k \in Seq(BoardMsgs) : k = comm[b]
      BY DEF TypeOK
    <3>1. PICK r : r = k \o ServerSends(m)
      BY Zenon
    <3>2. comm'[b] = r
      BY <1>1, <1>4, <2>1, <3>a, <3>1, ServerStep
    <3>3. CASE m.case = "interleave"
      <4>1. Asked(py, badWait, ServerInterleave(m.msg))
        BY <2>3, <2>4, <3>3 DEF GroupsAsked
      <4>2. \A n \in BoardMsgs : n.msg = ServerInterleave(m.msg) =>
                                   n \in GroupsSent(py, badWait)
        BY <4>1 DEF GroupsSent
      <4>3. /\ LastIn(r, {"interleave"}, GroupsSent(py, badWait))
            /\ ~Without(r, {"interleave"})
        BY <3>1, <3>3, <4>2, GroupsForwarded
      <4>4. QED
        BY <3>2, <4>3 DEF BoardAsked
    <3>4. CASE m.case # "interleave"
      <4>1. BoardAsked(k, hps[b], py, badWait)
        BY <1>2, <2>3, <2>4, <3>a, <3>4
      <4>2. /\ LastIn(r, {"interleave"}, GroupsSent(py, badWait))
            /\ Without(r, {"interleave"}) <=> Without(k, {"interleave"})
        BY <3>1, <3>4, <4>1, GroupsForwarded DEF BoardAsked
      <4>3. QED
        BY <3>2, <4>1, <4>2 DEF BoardAsked
    <3>5. QED
      BY <3>3, <3>4
  <2>5. QED
    BY <2>2, <2>3, <2>4
<1>5. ASSUME NEW c \in Boards, BoardHandles(c)
      PROVE  /\ LastIn(ipc', {"interleave"}, GroupsAsked(py', badWait'))
             /\ Without(ipc', {"interleave"}) =>
                  \A b \in Boards : BoardAsked(comm'[b], hps'[b], py', badWait')
  <2>1. ipc' = q /\ py' = py /\ badWait' = badWait
    BY <1>1, <1>5 DEF BoardHandles
  <2>2. ASSUME Without(q, {"interleave"}), NEW b \in Boards
        PROVE  BoardAsked(comm'[b], hps'[b], py, badWait)
    <3>1. BoardAsked(comm[b], hps[b], py, badWait)
      BY <1>2, <2>2
    <3>2. CASE b # c
      <4>1. hps'[b] = hps[b] /\ comm'[b] = comm[b]
        BY <1>5, <3>2, BoardStep
      <4>2. QED
        BY <3>1, <4>1
    <3>3. CASE b = c
      <4>1. PICK k \in Seq(BoardMsgs), h \in HpsVars : k = comm[b] /\ h = hps[b]
        BY DEF TypeOK
      <4>2. PICK g : g = HpsApply(h, Head(k))
        BY Zenon
      <4>3. comm'[b] = Tail(k) /\ hps'[b] = g /\ k # <<>>
        BY <1>5, <3>3, <4>1, <4>2, BoardStep
      <4>4. /\ LastIn(Tail(k), {"interleave"}, GroupsSent(py, badWait))
            /\ Without(Tail(k), {"interleave"}) => Asked(py, badWait, GroupsOf(g))
        BY <3>1, <4>1, <4>2, <4>3, BoardGroups DEF BoardAsked
      <4>5. QED
        BY <4>3, <4>4 DEF BoardAsked
    <3>4. QED
      BY <3>2, <3>3
  <2>3. QED
    BY <1>2, <2>1, <2>2
<1>6. CASE UNCHANGED setVars
  BY <1>1, <1>2, <1>6 DEF setVars
<1>7. QED
  BY <1>3, <1>4, <1>5, <1>6, Steps

LEMMA GroupsInit == Init => GroupsFollow
<1> SUFFICES ASSUME Init PROVE GroupsFollow
  OBVIOUS
<1>1. ipc = <<>> /\ badWait = FALSE
  BY DEF Init
<1>2. py.depth = 1 /\ py.timer = 0 /\ py.wait = 0
  BY DEF Init
<1>3. ASSUME NEW b \in Boards
      PROVE  BoardAsked(comm[b], hps[b], py, badWait)
  <2>1. comm[b] = <<>> /\ hps[b] = HpsDefaults
    BY DEF Init
  <2>2. Asked(py, badWait, GroupsOf(HpsDefaults))
    BY <1>1, <1>2, InitIsLegal DEF Asked
  <2>3. QED
    BY <2>1, <2>2, EmptyQueue DEF BoardAsked
<1>4. QED
  BY <1>1, <1>3, GroupsParts, EmptyQueue

LEMMA QuietGroups ==
  ASSUME GroupsFollow
  PROVE  GroupsAgree
<1> SUFFICES ASSUME Quiet, NEW b \in Boards, NEW h, h = hps[b]
             PROVE  /\ h.wait \in {0, py.wait}
                    /\ IF badWait THEN h.depth = 1 /\ h.timer = 0
                                  ELSE h.depth = py.depth /\ h.timer = py.timer
  BY DEF GroupsAgree
<1>1. Asked(py, badWait, GroupsOf(h))
  BY GroupsParts, EmptyQueue DEF Quiet, BoardAsked
<1>2. /\ GroupsOf(h)[1] = h.depth /\ GroupsOf(h)[2] = h.timer
      /\ GroupsOf(h)[3] = h.wait
  BY DEF GroupsOf
<1>3. QED
  BY <1>1, <1>2 DEF Asked

(* The boards are in the groups python prints for them once the messages   *)
(* have been handled, for every script that has not had them reset since   *)
(* it grouped them last, or all in one when the last wait                  *)
(* was one that python corrects and does not send (dataServer.py:55): the  *)
(* checks of the three tiers differ, and what is stored differs from what  *)
(* is sent, yet nothing else can come of it.                               *)
THEOREM TiersAgreeOnGroups == Spec => []GroupsAgree
<1>1. Init => TypeOK /\ GroupsFollow
  BY TypeInit, GroupsInit
<1>2. TypeOK /\ GroupsFollow /\ [Next]_setVars => TypeOK' /\ GroupsFollow'
  BY TypeStep, GroupsStep
<1>3. GroupsFollow => GroupsAgree
  BY QuietGroups
<1>4. QED
  BY <1>1, <1>2, <1>3, PTL DEF Spec
=============================================================================
