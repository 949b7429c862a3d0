-------------------------- MODULE StackTraceProofs --------------------------
(***************************************************************************)
(* Proofs about StackTrace, for traces of every length.  The replay is a   *)
(* recursive function over the marks; what it computes is proved by        *)
(* induction, for which a set takes the place of a predicate (NatStep).    *)
(***************************************************************************)
EXTENDS StackTrace, TLAPS, WellFoundedInduction, NaturalsInduction, FunctionTheorems,
        FiniteSetTheorems, SequenceTheorems

-----------------------------------------------------------------------------
(* Induction over the naturals.                                            *)

LEMMA NatMin ==
    ASSUME NEW S, S \subseteq Nat, S # {}
    PROVE  \E m \in S : \A k \in S : m <= k
<1> DEFINE R == OpToRel(<, Nat)
<1>1. IsWellFoundedOn(R, Nat)
  BY NatLessThanWellFounded
<1>2. \E m \in S : \A k \in S : <<k, m>> \notin R
  <2> HIDE DEF R
  <2> QED
    BY <1>1, WFMin
<1>3. \A k, m \in Nat : k < m => <<k, m>> \in R
  BY DEF OpToRel
<1>4. \A k, m \in S : <<k, m>> \notin R => m <= k
  <2> HIDE DEF R
  <2> QED
    BY <1>3
<1> QED
  BY <1>2, <1>4

LEMMA NatStep ==
    ASSUME NEW S, 0 \in S, \A n \in Nat : n \in S => n + 1 \in S
    PROVE  \A n \in Nat : n \in S
<1> DEFINE B == Nat \ S
<1> SUFFICES ASSUME B # {} PROVE FALSE
  OBVIOUS
<1>1. PICK m \in B : \A k \in B : m <= k
  BY NatMin
<1>2. m # 0 /\ m - 1 \in Nat
  BY <1>1
<1>3. m - 1 \in S
  BY <1>1, <1>2
<1>4. m - 1 + 1 \in S
  BY <1>2, <1>3
<1> QED
  BY <1>1, <1>4

-----------------------------------------------------------------------------
(* The replay, mark by mark.                                               *)

\* f is what the replay has made of the first n marks, for every n up to N.
StepsTo(f, marks, N) ==
    f = [n \in 0..N |-> IF n = 0 THEN Blank ELSE Replayed(f[n - 1], marks[n])]
Steps(marks) == CHOOSE f : StepsTo(f, marks, Len(marks))

LEMMA ReplayIs == \A marks : Replay(marks) = Steps(marks)[Len(marks)]
BY DEF Replay, Steps, StepsTo

LEMMA StepsExist ==
    ASSUME NEW marks, NEW N \in Nat
    PROVE  \E f : StepsTo(f, marks, N)
<1> DEFINE S == {n \in Nat : \E f : StepsTo(f, marks, n)}
<1>1. 0 \in S
  <2>1. StepsTo([n \in 0..0 |-> Blank], marks, 0)
    BY DEF StepsTo
  <2> QED
    BY <2>1
<1>2. ASSUME NEW n \in Nat, n \in S
      PROVE  n + 1 \in S
  <2>1. PICK f : StepsTo(f, marks, n)
    BY <1>2
  <2> DEFINE g == [k \in 0..(n + 1) |-> IF k = n + 1 THEN Replayed(f[n], marks[n + 1]) ELSE f[k]]
  <2>2. \A k \in 0..n : f[k] = IF k = 0 THEN Blank ELSE Replayed(f[k - 1], marks[k])
    BY <2>1 DEF StepsTo
  <2>3. \A k \in 0..(n + 1) : g[k] = IF k = 0 THEN Blank ELSE Replayed(g[k - 1], marks[k])
    <3>1. ASSUME NEW k \in 1..n
          PROVE  g[k] = Replayed(g[k - 1], marks[k])
      <4>1. g[k] = f[k] /\ g[k - 1] = f[k - 1]
        OBVIOUS
      <4> QED
        BY <2>2, <4>1
    <3>2. g[0] = Blank
      BY <2>2
    <3>3. g[n + 1] = Replayed(g[n], marks[n + 1]) /\ n + 1 - 1 = n
      OBVIOUS
    <3> HIDE DEF g
    <3> QED
      BY <3>1, <3>2, <3>3
  <2>4. StepsTo(g, marks, n + 1)
    <3>1. g = [k \in 0..(n + 1) |-> g[k]]
      OBVIOUS
    <3> HIDE DEF g
    <3> QED
      BY <2>3, <3>1 DEF StepsTo
  <2> QED
    BY <2>4
<1>3. \A n \in Nat : n \in S
  <2> HIDE DEF S
  <2> QED
    BY <1>1, <1>2, NatStep
<1> QED
  BY <1>3

LEMMA StepsAre ==
    ASSUME NEW marks, Len(marks) \in Nat
    PROVE  /\ Steps(marks)[0] = Blank
           /\ \A n \in 1..Len(marks) : Steps(marks)[n] = Replayed(Steps(marks)[n - 1], marks[n])
<1>1. StepsTo(Steps(marks), marks, Len(marks))
  BY StepsExist, Zenon DEF Steps
<1> DEFINE f == Steps(marks)
<1>2. \A n \in 0..Len(marks) : f[n] = IF n = 0 THEN Blank ELSE Replayed(f[n - 1], marks[n])
  <2> HIDE DEF f
  <2> QED
    BY <1>1 DEF StepsTo, f
<1> QED
  BY <1>2

\* What a trace begins with is replayed alike.
LEMMA StepsAgree ==
    ASSUME NEW short, NEW long, Len(short) \in Nat, Len(long) \in Nat, Len(short) <= Len(long),
           \A i \in 1..Len(short) : long[i] = short[i]
    PROVE  \A n \in 0..Len(short) : Steps(long)[n] = Steps(short)[n]
<1> DEFINE S == {n \in Nat : n <= Len(short) => Steps(long)[n] = Steps(short)[n]}
<1>1. 0 \in S
  BY StepsAre
<1>2. ASSUME NEW n \in Nat, n \in S
      PROVE  n + 1 \in S
  <2> SUFFICES ASSUME n + 1 <= Len(short)
               PROVE  Steps(long)[n + 1] = Steps(short)[n + 1]
    OBVIOUS
  <2>1. /\ n + 1 \in 1..Len(short) /\ n + 1 \in 1..Len(long) /\ n + 1 - 1 = n
        /\ Steps(long)[n] = Steps(short)[n]
    BY <1>2
  <2>2. /\ Steps(long)[n + 1] = Replayed(Steps(long)[n], long[n + 1])
        /\ Steps(short)[n + 1] = Replayed(Steps(short)[n], short[n + 1])
    BY <2>1, StepsAre
  <2> QED
    BY <2>1, <2>2
<1>3. \A n \in Nat : n \in S
  <2> HIDE DEF S
  <2> QED
    BY <1>1, <1>2, NatStep
<1> QED
  BY <1>3

-----------------------------------------------------------------------------
(* One mark.                                                               *)

Mark == [name: Names \cup {""}, type: {"start", "end", "none"}, t: Nat]
Call == [name: Names, t: Nat]
Boxes == [name: Names, level: Nat, from: Nat, to: Nat]
Replays == [stack: Seq(Call), boxes: SUBSET Boxes, broken: BOOLEAN]

IsTrace(marks) ==
    /\ marks \in Seq(Mark)
    /\ \A i \in 1..Len(marks) : /\ marks[i].t = i
                                /\ marks[i].type # "none" => marks[i].name \in Names

\* A start opens a call, an end closes the one opened last, and makes it a box if
\* it has its name.
Opens(s, item, r) ==
    /\ ~s.broken /\ ~r.broken /\ r.boxes = s.boxes
    /\ Len(r.stack) = Len(s.stack) + 1
    /\ \A k \in 1..Len(s.stack) : r.stack[k] = s.stack[k]
    /\ r.stack[Len(r.stack)] = [name |-> item.name, t |-> item.t]
Closes(s, item, r) ==
    /\ ~s.broken /\ ~r.broken /\ Len(s.stack) # 0
    /\ Len(r.stack) = Len(s.stack) - 1
    /\ \A k \in 1..Len(r.stack) : r.stack[k] = s.stack[k]
    /\ LET u == s.stack[Len(s.stack)]
       IN  r.boxes = IF u.name = item.name
                     THEN s.boxes \cup {Box(u.name, Len(r.stack), u.t, item.t)} ELSE s.boxes
Breaks(s, r) == r.broken /\ r.stack = s.stack /\ r.boxes = s.boxes

LEMMA ReplayedStep ==
    ASSUME NEW s \in Replays, NEW item \in Mark, item.type # "none" => item.name \in Names,
           NEW r, r = Replayed(s, item)
    PROVE  /\ r \in Replays
           /\ s.broken => Breaks(s, r)
           /\ ~s.broken /\ item.type = "start" => Opens(s, item, r)
           /\ ~s.broken /\ item.type = "end" /\ Len(s.stack) # 0 => Closes(s, item, r)
           /\ ~s.broken /\ item.type = "end" /\ Len(s.stack) = 0 => Breaks(s, r)
           /\ ~s.broken /\ item.type = "none" => Breaks(s, r)
<1> DEFINE S == s.stack
<1>1. /\ s = [stack |-> S, boxes |-> s.boxes, broken |-> s.broken]
      /\ S \in Seq(Call) /\ s.boxes \in SUBSET Boxes /\ s.broken \in BOOLEAN
      /\ Len(S) \in Nat /\ item.t \in Nat /\ item.type \in {"start", "end", "none"}
  <2>1. /\ s = [stack |-> S, boxes |-> s.boxes, broken |-> s.broken]
        /\ S \in Seq(Call) /\ s.boxes \in SUBSET Boxes /\ s.broken \in BOOLEAN
    BY DEF Replays
  <2>2. item.t \in Nat /\ item.type \in {"start", "end", "none"}
    BY DEF Mark
  <2> QED
    BY <2>1, <2>2
<1>2. CASE s.broken
  <2>1. r = s
    BY <1>2 DEF Replayed
  <2> QED
    BY <1>2, <2>1 DEF Breaks
<1>3. CASE ~s.broken /\ item.type = "start"
  <2> DEFINE c == [name |-> item.name, t |-> item.t]
  <2>1. r = [s EXCEPT !.stack = Append(@, c)]
    BY <1>3 DEF Replayed
  <2>2. r = [stack |-> Append(S, c), boxes |-> s.boxes, broken |-> s.broken]
    BY <1>1, <2>1
  <2>3. c \in Call
    BY <1>1, <1>3 DEF Call
  <2> HIDE DEF c
  <2>4. /\ Append(S, c) \in Seq(Call) /\ Len(Append(S, c)) = Len(S) + 1
        /\ \A k \in 1..Len(S) : Append(S, c)[k] = S[k]
        /\ Append(S, c)[Len(S) + 1] = c
    BY <1>1, <2>3
  <2>5. r \in Replays
    BY <1>1, <2>2, <2>4 DEF Replays
  <2>6. Opens(s, item, r)
    BY <1>3, <2>2, <2>4 DEF Opens, c
  <2> QED
    BY <1>3, <2>5, <2>6
<1>4. CASE ~s.broken /\ item.type = "end"
  <2>1. r = Returned(s, item)
    BY <1>3, <1>4 DEF Replayed
  <2>2. CASE Len(S) = 0
    <3>1. S = << >>
      BY <1>1, <2>2
    <3>2. r = [s EXCEPT !.broken = TRUE]
      BY <2>1, <3>1 DEF Returned
    <3>3. r = [stack |-> S, boxes |-> s.boxes, broken |-> TRUE]
      BY <1>1, <3>2
    <3>4. r \in Replays
      BY <1>1, <3>3 DEF Replays
    <3> QED
      BY <1>4, <2>2, <3>3, <3>4 DEF Breaks
  <2>3. CASE Len(S) # 0
    <3> DEFINE u == S[Len(S)]
    <3> DEFINE F == SubSeq(S, 1, Len(S) - 1)
    <3> DEFINE B == IF u.name = item.name
                    THEN s.boxes \cup {Box(u.name, Len(F), u.t, item.t)} ELSE s.boxes
    <3>1. S # << >>
      BY <1>1, <2>3
    <3>2. r = [s EXCEPT !.stack = F, !.boxes = B]
      BY <2>1, <3>1 DEF Returned, Last, Front
    <3>3. r = [stack |-> F, boxes |-> B, broken |-> s.broken]
      BY <1>1, <3>2
    <3>4. /\ F \in Seq(Call) /\ Len(F) = Len(S) - 1 /\ Len(F) \in Nat
          /\ \A k \in 1..Len(F) : F[k] = S[k]
      <4> DEFINE m == Len(S) - 1
      <4>1. m \in Nat /\ 1 \in Int /\ m \in Int /\ \A k \in 1..m : S[k] \in Call
        BY <1>1, <2>3
      <4> HIDE DEF S, m
      <4>2. /\ SubSeq(S, 1, m) \in Seq(Call)
            /\ Len(SubSeq(S, 1, m)) = IF 1 <= m THEN m - 1 + 1 ELSE 0
            /\ \A i \in 1..(m - 1 + 1) : SubSeq(S, 1, m)[i] = S[1 + i - 1]
        BY <4>1, SubSeqProperties
      <4>3. Len(SubSeq(S, 1, m)) = m /\ \A i \in 1..m : SubSeq(S, 1, m)[i] = S[i]
        BY <4>1, <4>2
      <4> QED
        BY <4>1, <4>2, <4>3 DEF m
    <3>5. u \in Call
      BY <1>1, <2>3
    <3>6. Box(u.name, Len(F), u.t, item.t) \in Boxes
      <4> HIDE DEF F, u
      <4> QED
        BY <1>1, <3>4, <3>5 DEF Box, Boxes, Call
    <3>7. B \in SUBSET Boxes
      BY <1>1, <3>6
    <3>8. r \in Replays
      <4> HIDE DEF F, B
      <4> QED
        BY <1>1, <3>3, <3>4, <3>7 DEF Replays
    <3>9. Closes(s, item, r)
      <4>1. r.stack = F /\ r.boxes = B /\ r.broken = s.broken
        BY <3>3
      <4> HIDE DEF F
      <4> QED
        BY <1>4, <2>3, <3>4, <4>1 DEF Closes
    <3> QED
      BY <1>4, <2>3, <3>8, <3>9
  <2> QED
    BY <2>2, <2>3
<1>5. CASE ~s.broken /\ item.type = "none"
  <2>1. r = [s EXCEPT !.broken = TRUE]
    BY <1>5 DEF Replayed
  <2>2. r = [stack |-> S, boxes |-> s.boxes, broken |-> TRUE]
    BY <1>1, <2>1
  <2>3. r \in Replays
    BY <1>1, <2>2 DEF Replays
  <2> QED
    BY <1>5, <2>2, <2>3 DEF Breaks
<1> QED
  BY <1>1, <1>2, <1>3, <1>4, <1>5

LEMMA BlankTyped == Blank \in Replays /\ Len(Blank.stack) = 0 /\ Blank.boxes = {} /\ Blank.broken = FALSE
BY DEF Blank, Replays

-----------------------------------------------------------------------------
(* Any trace.                                                              *)

\* The calls on the stack are starts, in their order; a box goes from a start of
\* its function to an end of it; it is over before a call that is open, or inside
\* it and higher.
IsStart(marks, n, c) == c.t \in 1..n /\ marks[c.t].type = "start" /\ marks[c.t].name = c.name
IsBox(marks, n, b) ==
    /\ b.from \in 1..n /\ b.to \in 1..n /\ b.from < b.to /\ b.level < n
    /\ marks[b.from].type = "start" /\ marks[b.from].name = b.name
    /\ marks[b.to].type = "end" /\ marks[b.to].name = b.name
Clears(b, t, level) == b.to < t \/ (t < b.from /\ level < b.level)
Apart(b, c) ==
    \/ b.to < c.from \/ c.to < b.from
    \/ b.from < c.from /\ c.to < b.to /\ b.level < c.level
    \/ c.from < b.from /\ b.to < c.to /\ c.level < b.level

Nested(marks, n, s) ==
    /\ s \in Replays /\ Len(s.stack) <= n
    /\ \A k \in 1..Len(s.stack) : IsStart(marks, n, s.stack[k])
    /\ \A j, k \in 1..Len(s.stack) : j < k => s.stack[j].t < s.stack[k].t
    /\ \A b \in s.boxes : IsBox(marks, n, b)
    /\ \A b \in s.boxes : \A k \in 1..Len(s.stack) : Clears(b, s.stack[k].t, k - 1)
    /\ \A b, c \in s.boxes : b # c => Apart(b, c)

LEMMA NestedStep ==
    ASSUME NEW marks, IsTrace(marks), NEW n \in Nat, n + 1 <= Len(marks),
           NEW s, Nested(marks, n, s), NEW r, r = Replayed(s, marks[n + 1])
    PROVE  Nested(marks, n + 1, r)
<1> DEFINE item == marks[n + 1]
<1>1. /\ item \in Mark /\ item.t = n + 1 /\ (item.type # "none" => item.name \in Names)
      /\ item.type \in {"start", "end", "none"}
  <2>1. n + 1 \in 1..Len(marks)
    BY DEF IsTrace
  <2>2. item \in Mark /\ item.t = n + 1 /\ (item.type # "none" => item.name \in Names)
    BY <2>1, ElementOfSeq DEF IsTrace
  <2> QED
    BY <2>2 DEF Mark
<1>2. s \in Replays /\ s.stack \in Seq(Call) /\ Len(s.stack) \in Nat /\ s.boxes \subseteq Boxes
  BY DEF Nested, Replays
<1>3. /\ r \in Replays
      /\ s.broken => Breaks(s, r)
      /\ ~s.broken /\ item.type = "start" => Opens(s, item, r)
      /\ ~s.broken /\ item.type = "end" /\ Len(s.stack) # 0 => Closes(s, item, r)
      /\ ~s.broken /\ item.type = "end" /\ Len(s.stack) = 0 => Breaks(s, r)
      /\ ~s.broken /\ item.type = "none" => Breaks(s, r)
  BY <1>1, <1>2, ReplayedStep
<1>4. /\ Len(s.stack) <= n
      /\ \A k \in 1..Len(s.stack) : IsStart(marks, n, s.stack[k])
      /\ \A j, k \in 1..Len(s.stack) : j < k => s.stack[j].t < s.stack[k].t
      /\ \A b \in s.boxes : IsBox(marks, n, b)
      /\ \A b \in s.boxes : \A k \in 1..Len(s.stack) : Clears(b, s.stack[k].t, k - 1)
      /\ \A b, c \in s.boxes : b # c => Apart(b, c)
  BY DEF Nested
<1>5. /\ \A c : IsStart(marks, n, c) => IsStart(marks, n + 1, c)
      /\ \A b : IsBox(marks, n, b) /\ b \in Boxes => IsBox(marks, n + 1, b)
  <2>1. \A c : IsStart(marks, n, c) => IsStart(marks, n + 1, c)
    BY DEF IsStart
  <2>2. \A b \in Boxes : b.level \in Nat
    BY DEF Boxes
  <2> QED
    BY <2>1, <2>2 DEF IsBox
<1> HIDE DEF item
<1>6. CASE Breaks(s, r)
  BY <1>2, <1>3, <1>4, <1>5, <1>6 DEF Breaks, Nested
<1>7. CASE item.type = "start" /\ Opens(s, item, r)
  <2> DEFINE m == Len(s.stack)
  <2> DEFINE c == [name |-> item.name, t |-> item.t]
  <2>1. /\ Len(r.stack) = m + 1 /\ r.boxes = s.boxes /\ m \in Nat /\ m <= n
        /\ \A k \in 1..m : r.stack[k] = s.stack[k]
        /\ r.stack[m + 1] = c
    BY <1>2, <1>4, <1>7 DEF Opens
  <2>2. IsStart(marks, n + 1, c)
    BY <1>1, <1>7 DEF IsStart, item
  <2>3. c.t = n + 1
    BY <1>1
  <2> HIDE DEF m, c
  <2>4. \A k \in 1..(m + 1) : k = m + 1 \/ k \in 1..m
    BY <2>1
  <2>5. \A k \in 1..(m + 1) : IsStart(marks, n + 1, r.stack[k])
    BY <1>4, <1>5, <2>1, <2>2, <2>4 DEF m
  <2>6. \A k \in 1..m : s.stack[k].t \in 1..n
    BY <1>4 DEF IsStart, m
  <2>7. \A j, k \in 1..(m + 1) : j < k => r.stack[j].t < r.stack[k].t
    <3> SUFFICES ASSUME NEW j \in 1..(m + 1), NEW k \in 1..(m + 1), j < k
                 PROVE  r.stack[j].t < r.stack[k].t
      OBVIOUS
    <3>1. j \in 1..m
      BY <2>1
    <3>2. CASE k \in 1..m
      BY <1>4, <2>1, <3>1, <3>2 DEF m
    <3>3. CASE k = m + 1
      BY <2>1, <2>3, <2>6, <3>1, <3>3, SMTT(30)
    <3> QED
      BY <2>4, <3>2, <3>3
  <2>8. \A b \in s.boxes : Clears(b, n + 1, m)
    BY <1>4 DEF IsBox, Clears
  <2>9. \A b \in r.boxes : \A k \in 1..(m + 1) : Clears(b, r.stack[k].t, k - 1)
    <3> SUFFICES ASSUME NEW b \in r.boxes, NEW k \in 1..(m + 1)
                 PROVE  Clears(b, r.stack[k].t, k - 1)
      OBVIOUS
    <3>1. CASE k \in 1..m
      BY <1>4, <2>1, <3>1 DEF m
    <3>2. CASE k = m + 1
      <4>1. k - 1 = m
        BY <2>1, <3>2
      <4> QED
        BY <2>1, <2>3, <2>8, <3>2, <4>1
    <3> QED
      BY <2>4, <3>1, <3>2
  <2>10. \A b \in r.boxes : IsBox(marks, n + 1, b)
    BY <1>2, <1>4, <1>5, <2>1
  <2> QED
    BY <1>3, <1>4, <2>1, <2>5, <2>7, <2>9, <2>10 DEF Nested
<1>8. CASE item.type = "end" /\ Closes(s, item, r)
  <2> DEFINE m == Len(s.stack)
  <2> DEFINE u == s.stack[m]
  <2> DEFINE b0 == Box(u.name, m - 1, u.t, n + 1)
  <2>1. /\ m \in Nat /\ m >= 1 /\ m <= n /\ Len(r.stack) = m - 1
        /\ \A k \in 1..(m - 1) : r.stack[k] = s.stack[k]
    BY <1>2, <1>4, <1>8 DEF Closes
  <2>2. r.boxes = IF u.name = item.name THEN s.boxes \cup {b0} ELSE s.boxes
    BY <1>1, <1>2, <1>8 DEF Closes
  <2>3. b0.name = u.name /\ b0.level = m - 1 /\ b0.from = u.t /\ b0.to = n + 1
    BY DEF Box
  <2>4. u.t \in 1..n /\ marks[u.t].type = "start" /\ marks[u.t].name = u.name
    BY <1>4, <2>1 DEF IsStart
  <2>5. u.name = item.name => IsBox(marks, n + 1, b0)
    BY <1>8, <2>1, <2>3, <2>4, SMTT(30) DEF IsBox, item
  <2>6. \A b \in s.boxes : Clears(b, u.t, m - 1)
    BY <1>4, <2>1
  <2>7. \A k \in 1..(m - 1) : s.stack[k].t < u.t
    BY <1>4, <2>1
  <2>8. \A b \in s.boxes : b.to < n + 1 /\ b.from \in Nat /\ b.to \in Nat /\ b.level \in Nat
    BY <1>2, <1>4 DEF IsBox, Boxes
  <2> HIDE DEF m, u, b0
  <2>9. \A k \in 1..(m - 1) : IsStart(marks, n + 1, r.stack[k])
    BY <1>4, <1>5, <2>1 DEF m
  <2>10. \A j, k \in 1..(m - 1) : j < k => r.stack[j].t < r.stack[k].t
    <3> SUFFICES ASSUME NEW j \in 1..(m - 1), NEW k \in 1..(m - 1), j < k
                 PROVE  r.stack[j].t < r.stack[k].t
      OBVIOUS
    <3>1. j \in 1..m /\ k \in 1..m
      BY <2>1
    <3> QED
      BY <1>4, <2>1, <3>1 DEF m
  <2>11. \A b \in r.boxes : b \in s.boxes \/ (b = b0 /\ u.name = item.name)
    BY <2>2
  <2>12. \A b \in r.boxes : IsBox(marks, n + 1, b)
    BY <1>2, <1>4, <1>5, <2>5, <2>11
  <2>13. \A b \in r.boxes : \A k \in 1..(m - 1) : Clears(b, r.stack[k].t, k - 1)
    <3> SUFFICES ASSUME NEW b \in r.boxes, NEW k \in 1..(m - 1)
                 PROVE  Clears(b, r.stack[k].t, k - 1)
      OBVIOUS
    <3>1. k \in 1..m /\ r.stack[k] = s.stack[k]
      BY <2>1
    <3>2. CASE b \in s.boxes
      BY <1>4, <3>1, <3>2 DEF m
    <3>3. CASE b = b0
      BY <2>1, <2>3, <2>7, <3>1, <3>3 DEF Clears
    <3> QED
      BY <2>11, <3>2, <3>3
  <2>14. \A b \in s.boxes : Apart(b, b0) /\ Apart(b0, b)
    BY <2>1, <2>3, <2>4, <2>6, <2>8 DEF Clears, Apart
  <2>15. \A b, c \in r.boxes : b # c => Apart(b, c)
    BY <1>4, <2>11, <2>14
  <2> QED
    BY <1>3, <2>1, <2>9, <2>10, <2>12, <2>13, <2>15 DEF Nested
<1> QED
  BY <1>1, <1>3, <1>6, <1>7, <1>8

LEMMA AlwaysNested ==
    ASSUME NEW marks, IsTrace(marks)
    PROVE  \A n \in 0..Len(marks) : Nested(marks, n, Steps(marks)[n])
<1> DEFINE S == {n \in Nat : n <= Len(marks) => Nested(marks, n, Steps(marks)[n])}
<1>1. Len(marks) \in Nat
  BY DEF IsTrace
<1>2. 0 \in S
  <2>1. Steps(marks)[0] = Blank
    BY <1>1, StepsAre
  <2> QED
    BY <2>1, BlankTyped DEF Nested
<1>3. ASSUME NEW n \in Nat, n \in S
      PROVE  n + 1 \in S
  <2> SUFFICES ASSUME n + 1 <= Len(marks)
               PROVE  Nested(marks, n + 1, Steps(marks)[n + 1])
    OBVIOUS
  <2>1. Nested(marks, n, Steps(marks)[n]) /\ n + 1 \in 1..Len(marks) /\ n + 1 - 1 = n
    BY <1>1, <1>3
  <2>2. Steps(marks)[n + 1] = Replayed(Steps(marks)[n], marks[n + 1])
    BY <1>1, <2>1, StepsAre
  <2> QED
    BY <2>1, <2>2, NestedStep
<1>4. \A n \in Nat : n \in S
  <2> HIDE DEF S
  <2> QED
    BY <1>2, <1>3, NatStep
<1> QED
  BY <1>1, <1>4

LEMMA StaysBroken ==
    ASSUME NEW marks, IsTrace(marks), NEW n \in 0..Len(marks), Steps(marks)[n].broken
    PROVE  Steps(marks)[Len(marks)].broken
<1> DEFINE S == {d \in Nat : n + d <= Len(marks) => Steps(marks)[n + d].broken}
<1>1. Len(marks) \in Nat /\ n \in Nat
  BY DEF IsTrace
<1>2. 0 \in S
  BY <1>1
<1>3. ASSUME NEW d \in Nat, d \in S
      PROVE  d + 1 \in S
  <2> SUFFICES ASSUME n + (d + 1) <= Len(marks)
               PROVE  Steps(marks)[n + (d + 1)].broken
    OBVIOUS
  <2> DEFINE i == n + d + 1
  <2>1. i \in 1..Len(marks) /\ i - 1 = n + d /\ i = n + (d + 1) /\ n + d \in 0..Len(marks)
    BY <1>1
  <2>2. Steps(marks)[n + d].broken
    BY <1>1, <1>3, <2>1
  <2> HIDE DEF i
  <2>3. Steps(marks)[i] = Replayed(Steps(marks)[i - 1], marks[i])
    BY <1>1, <2>1, StepsAre
  <2>4. Replayed(Steps(marks)[i - 1], marks[i]) = Steps(marks)[i - 1]
    BY <2>1, <2>2 DEF Replayed
  <2> QED
    BY <2>1, <2>2, <2>3, <2>4
<1>4. \A d \in Nat : d \in S
  <2> HIDE DEF S
  <2> QED
    BY <1>2, <1>3, NatStep
<1>5. Len(marks) - n \in Nat /\ n + (Len(marks) - n) = Len(marks)
  BY <1>1
<1> QED
  BY <1>4, <1>5

-----------------------------------------------------------------------------
(* The chart.                                                              *)

\* What is drawn is what some beginning of the trace has given, the whole of it
\* unless its replay threw.
Drawn(k) ==
    /\ ~Steps(perf)[k].broken
    /\ data = Steps(perf)[k].boxes \cup Running(Steps(perf)[k].stack)
ChartInv ==
    /\ IsTrace(perf) /\ Len(perf) <= MaxMarks
    /\ broken = Steps(perf)[Len(perf)].broken
    /\ \E k \in 0..Len(perf) : Drawn(k)
    /\ ~broken => Drawn(Len(perf))

LEMMA MarkedTrace ==
    ASSUME NEW marks, IsTrace(marks), NEW symbol \in Symbols,
           NEW more, more = Marked(marks, symbol)
    PROVE  /\ IsTrace(more) /\ Len(more) = Len(marks) + 1
           /\ \A i \in 1..Len(marks) : more[i] = marks[i]
<1> DEFINE m == [name |-> symbol.name, type |-> symbol.type, t |-> Len(marks) + 1]
<1>1. marks \in Seq(Mark) /\ Len(marks) \in Nat
  BY DEF IsTrace
<1>2. /\ symbol.name \in Names \cup {""} /\ symbol.type \in {"start", "end", "none"}
      /\ symbol.type # "none" => symbol.name \in Names
  <2>1. CASE symbol = Unknown
    BY <2>1 DEF Unknown
  <2>2. CASE symbol \in [name: Names, type: {"start", "end"}]
    BY <2>2
  <2> QED
    BY <2>1, <2>2 DEF Symbols
<1>3. /\ m \in Mark /\ m.t = Len(marks) + 1
      /\ m.type # "none" => m.name \in Names
  <2>1. m.t \in Nat
    BY <1>1
  <2> QED
    BY <1>2, <2>1 DEF Mark
<1>4. more = Append(marks, m)
  BY DEF Marked
<1> HIDE DEF m
<1>5. /\ more \in Seq(Mark) /\ Len(more) = Len(marks) + 1
      /\ \A i \in 1..Len(marks) : more[i] = marks[i]
      /\ more[Len(marks) + 1] = m
  BY <1>1, <1>3, <1>4, AppendProperties
<1>6. ASSUME NEW i \in 1..Len(more)
      PROVE  more[i].t = i /\ (more[i].type # "none" => more[i].name \in Names)
  <2>1. i \in 1..Len(marks) \/ i = Len(marks) + 1
    BY <1>1, <1>5
  <2>2. CASE i \in 1..Len(marks)
    BY <1>5, <2>2 DEF IsTrace
  <2>3. CASE i = Len(marks) + 1
    BY <1>3, <1>5, <2>3
  <2> QED
    BY <2>1, <2>2, <2>3
<1> QED
  BY <1>5, <1>6 DEF IsTrace

LEMMA UpdateExtends ==
    ASSUME ChartInv, UpdatePerf
    PROVE  /\ IsTrace(perf') /\ Len(perf') <= MaxMarks
           /\ Len(perf) \in Nat /\ Len(perf') \in Nat /\ Len(perf) <= Len(perf')
           /\ \A k \in 0..Len(perf) : Steps(perf')[k] = Steps(perf)[k]
           /\ broken' = Steps(perf')[Len(perf')].broken
           /\ data' = IF broken' THEN data
                      ELSE Steps(perf')[Len(perf')].boxes
                             \cup Running(Steps(perf')[Len(perf')].stack)
<1>1. IsTrace(perf) /\ Len(perf) \in Nat /\ MaxMarks \in Nat
  BY StackAssumption DEF ChartInv, IsTrace
<1>2. PICK first \in Symbols :
         /\ Len(perf) < MaxMarks
         /\ LET one == Marked(perf, first)
            IN  \/ perf' = one
                \/ \E second \in Symbols : Len(one) < MaxMarks /\ perf' = Marked(one, second)
         /\ Show(perf', SubSeq(perf', Len(perf) + 1, Len(perf')))
  BY DEF UpdatePerf
<1> DEFINE one == Marked(perf, first)
<1>3. IsTrace(one) /\ Len(one) = Len(perf) + 1 /\ \A i \in 1..Len(perf) : one[i] = perf[i]
  BY <1>1, MarkedTrace
<1>4. /\ IsTrace(perf') /\ Len(perf') <= MaxMarks
      /\ Len(perf') \in Nat /\ Len(perf) <= Len(perf')
      /\ \A i \in 1..Len(perf) : perf'[i] = perf[i]
  <2>1. CASE perf' = one
    BY <1>1, <1>2, <1>3, <2>1
  <2>2. ASSUME NEW second \in Symbols, Len(one) < MaxMarks, perf' = Marked(one, second)
        PROVE  /\ IsTrace(perf') /\ Len(perf') <= MaxMarks
               /\ Len(perf') \in Nat /\ Len(perf) <= Len(perf')
               /\ \A i \in 1..Len(perf) : perf'[i] = perf[i]
    <3> HIDE DEF one
    <3>1. IsTrace(perf') /\ Len(perf') = Len(one) + 1 /\ \A i \in 1..Len(one) : perf'[i] = one[i]
      BY <1>3, <2>2, MarkedTrace
    <3> QED
      BY <1>1, <1>3, <2>2, <3>1
  <2> QED
    BY <1>2, <2>1, <2>2
<1>5. \A k \in 0..Len(perf) : Steps(perf')[k] = Steps(perf)[k]
  BY <1>1, <1>4, StepsAgree
<1>6. /\ broken' = Replay(perf').broken
      /\ data' = IF Replay(perf').broken THEN data
                 ELSE Replay(perf').boxes \cup Running(Replay(perf').stack)
  BY <1>2 DEF Show
<1> QED
  BY <1>1, <1>4, <1>5, <1>6, ReplayIs

LEMMA Halves == \A n \in Nat : /\ n \div 2 \in Nat /\ n - n \div 2 = (n + 1) \div 2
                               /\ n \div 2 <= n
OBVIOUS

LEMMA EmptyChart ==
    /\ IsTrace(<< >>) /\ Len(<< >>) = 0 /\ Steps(<< >>)[0] = Blank /\ Running(Blank.stack) = {}
    /\ Replay(<< >>) = Blank
<1>1. IsTrace(<< >>) /\ Len(<< >>) = 0
  BY EmptySeq DEF IsTrace
<1>2. Steps(<< >>)[0] = Blank
  BY <1>1, StepsAre
<1>3. Running(Blank.stack) = {}
  BY DEF Running, Blank
<1> QED
  BY <1>1, <1>2, <1>3, ReplayIs

LEMMA ChartAlways == Spec => []ChartInv
<1>1. Init => ChartInv
  <2> SUFFICES ASSUME Init PROVE ChartInv
    OBVIOUS
  <2>1. perf = << >> /\ data = {} /\ broken = FALSE
    BY DEF Init
  <2>2. Drawn(0)
    BY <2>1, EmptyChart, BlankTyped DEF Drawn
  <2>3. Len(perf) = 0 /\ IsTrace(perf) /\ 0 \in 0..0 /\ 0 <= MaxMarks
    BY <2>1, EmptyChart, StackAssumption
  <2>4. broken = Steps(perf)[Len(perf)].broken
    BY <2>1, <2>3, EmptyChart, BlankTyped
  <2> QED
    BY <2>2, <2>3, <2>4 DEF ChartInv
<1>2. ChartInv /\ [Next]_vars => ChartInv'
  <2> SUFFICES ASSUME ChartInv, [Next]_vars PROVE ChartInv'
    OBVIOUS
  <2>1. CASE UNCHANGED vars
    BY <2>1 DEF vars, ChartInv, Drawn
  <2>2. CASE UpdatePerf
    <3>1. /\ IsTrace(perf') /\ Len(perf') <= MaxMarks
          /\ Len(perf) \in Nat /\ Len(perf') \in Nat /\ Len(perf) <= Len(perf')
          /\ \A k \in 0..Len(perf) : Steps(perf')[k] = Steps(perf)[k]
          /\ broken' = Steps(perf')[Len(perf')].broken
          /\ data' = IF broken' THEN data
                     ELSE Steps(perf')[Len(perf')].boxes
                            \cup Running(Steps(perf')[Len(perf')].stack)
      BY <2>2, UpdateExtends
    <3>2. CASE broken'
      <4>1. PICK k \in 0..Len(perf) : Drawn(k)
        BY DEF ChartInv
      <4>2. k \in 0..Len(perf')
        BY <3>1
      <4>3. Drawn(k)'
        BY <3>1, <3>2, <4>1 DEF Drawn
      <4> QED
        BY <3>1, <3>2, <4>2, <4>3 DEF ChartInv
    <3>3. CASE ~broken'
      <4>1. Drawn(Len(perf))' /\ Len(perf') \in 0..Len(perf')
        BY <3>1, <3>3 DEF Drawn
      <4> QED
        BY <3>1, <4>1 DEF ChartInv
    <3> QED
      BY <3>2, <3>3
  <2>3. CASE Run
    <3>1. perf' = << >> /\ broken' = FALSE /\ data' = {}
      BY <2>3, EmptyChart, BlankTyped DEF Run, Show
    <3>2. ~Steps(perf')[0].broken /\ data' = Steps(perf')[0].boxes \cup Running(Steps(perf')[0].stack)
      BY <3>1, EmptyChart, BlankTyped
    <3>3. Drawn(0)'
      BY <3>2 DEF Drawn
    <3>4. Len(perf') = 0 /\ IsTrace(perf') /\ 0 \in 0..0 /\ 0 <= MaxMarks
      BY <3>1, EmptyChart, StackAssumption
    <3>5. broken' = Steps(perf')[Len(perf')].broken
      BY <3>1, <3>4, EmptyChart, BlankTyped
    <3> QED
      BY <3>3, <3>4, <3>5 DEF ChartInv
  <2> QED
    BY <2>1, <2>2, <2>3 DEF Next
<1> QED
  BY <1>1, <1>2, PTL DEF Spec

-----------------------------------------------------------------------------
\* The boxes drawn are those of the replay, or are drawn to the end of the chart.
LEMMA DrawnBoxes ==
    ASSUME ChartInv
    PROVE  \E k \in 0..Len(perf) :
             LET s == Steps(perf)[k]
             IN  /\ Nested(perf, k, s)
                 /\ \A b \in data : \/ b \in s.boxes
                                    \/ \E i \in 1..Len(s.stack) :
                                         b = Box(s.stack[i].name, i - 1, s.stack[i].t, CurrentPerf)
<1>1. PICK k \in 0..Len(perf) : Drawn(k)
  BY DEF ChartInv
<1> DEFINE s == Steps(perf)[k]
<1>2. Nested(perf, k, s)
  BY AlwaysNested DEF ChartInv
<1>3. Len(s.stack) \in Nat
  BY <1>2 DEF Nested, Replays
<1>4. ASSUME NEW b \in data
      PROVE  \/ b \in s.boxes
             \/ \E i \in 1..Len(s.stack) :
                  b = Box(s.stack[i].name, i - 1, s.stack[i].t, CurrentPerf)
  <2>1. b \in s.boxes \/ b \in Running(s.stack)
    BY <1>1 DEF Drawn
  <2> HIDE DEF s
  <2>2. CASE b \in Running(s.stack)
    <3>1. PICK i \in (Len(s.stack) \div 2 + 1)..Len(s.stack) :
             b = Box(s.stack[i].name, i - 1, s.stack[i].t, CurrentPerf)
      BY <2>2 DEF Running
    <3>2. i \in 1..Len(s.stack)
      <4> DEFINE L == Len(s.stack)
      <4>1. L \in Nat /\ i \in (L \div 2 + 1)..L
        BY <1>3
      <4> HIDE DEF L
      <4>2. L \div 2 \in Nat
        BY <4>1, Halves
      <4>3. i \in 1..L
        BY <4>1, <4>2
      <4> QED
        BY <4>3 DEF L
    <3> QED
      BY <3>1, <3>2
  <2> QED
    BY <2>1, <2>2
<1> QED
  BY <1>2, <1>4

\* A chart never has a box without a function of the program, nor higher than the
\* trace is long, whatever the marks.
THEOREM TypeCorrect == Spec => []TypeOK
<1>1. ChartInv => TypeOK
  <2> SUFFICES ASSUME ChartInv PROVE TypeOK
    OBVIOUS
  <2>1. Len(perf) <= MaxMarks /\ IsTrace(perf) /\ Len(perf) \in Nat /\ MaxMarks \in Nat
    BY StackAssumption DEF ChartInv, IsTrace
  <2>2. broken \in BOOLEAN
    <3>1. Nested(perf, Len(perf), Steps(perf)[Len(perf)])
      BY <2>1, AlwaysNested
    <3> QED
      BY <3>1 DEF ChartInv, Nested, Replays
  <2>3. PICK k \in 0..Len(perf) :
           LET s == Steps(perf)[k]
           IN  /\ Nested(perf, k, s)
               /\ \A b \in data : \/ b \in s.boxes
                                  \/ \E i \in 1..Len(s.stack) :
                                       b = Box(s.stack[i].name, i - 1, s.stack[i].t, CurrentPerf)
    BY DrawnBoxes
  <2> DEFINE s == Steps(perf)[k]
  <2>4. s.stack \in Seq(Call) /\ Len(s.stack) \in Nat /\ Len(s.stack) <= k /\ s.boxes \subseteq Boxes
    BY <2>3 DEF Nested, Replays
  <2>5. ASSUME NEW b \in data
        PROVE  b.name \in Names /\ b.level \in 0..(MaxMarks - 1)
    <3>1. CASE b \in s.boxes
      <4>1. b.name \in Names /\ b.level \in Nat /\ b.level < k
        BY <2>3, <2>4, <3>1 DEF Nested, IsBox, Boxes
      <4> QED
        BY <2>1, <4>1
    <3>2. ASSUME NEW i \in 1..Len(s.stack),
                 b = Box(s.stack[i].name, i - 1, s.stack[i].t, CurrentPerf)
          PROVE  b.name \in Names /\ b.level \in 0..(MaxMarks - 1)
      <4>1. s.stack[i].name \in Names
        <5>1. s.stack[i] \in Call
          BY <2>4, ElementOfSeq
        <5> QED
          BY <5>1 DEF Call
      <4>2. b.name = s.stack[i].name /\ b.level = i - 1
        BY <3>2 DEF Box
      <4> HIDE DEF s
      <4> QED
        BY <2>1, <2>4, <4>1, <4>2
    <3> QED
      BY <2>3, <3>1, <3>2
  <2> QED
    BY <2>1, <2>2, <2>5 DEF TypeOK
<1> QED
  BY <1>1, ChartAlways, PTL

(* Whatever the marks, two boxes of returned calls are apart or one is     *)
(* inside the other and higher, and each goes from a start of its function *)
(* to an end of the same function.                                         *)
THEOREM BoxesAlwaysNest == Spec => []BoxesNest
<1>1. ChartInv => BoxesNest
  <2> SUFFICES ASSUME ChartInv, NEW b \in data, b.to # CurrentPerf
               PROVE  /\ perf[b.from].type = "start" /\ perf[b.to].type = "end"
                      /\ perf[b.from].name = b.name /\ perf[b.to].name = b.name
                      /\ \A c \in data \ {b} : c.to # CurrentPerf => Apart(b, c)
    BY DEF BoxesNest, Apart
  <2>1. PICK k \in 0..Len(perf) :
           LET s == Steps(perf)[k]
           IN  /\ Nested(perf, k, s)
               /\ \A x \in data : \/ x \in s.boxes
                                  \/ \E i \in 1..Len(s.stack) :
                                       x = Box(s.stack[i].name, i - 1, s.stack[i].t, CurrentPerf)
    BY DrawnBoxes
  <2> DEFINE s == Steps(perf)[k]
  <2>2. \A x \in data : x.to # CurrentPerf => x \in s.boxes
    BY <2>1 DEF Box
  <2> QED
    BY <2>1, <2>2 DEF Nested, IsBox
<1> QED
  BY <1>1, ChartAlways, PTL

(* A replay that threw throws for ever: only a new run mends the chart.    *)
THEOREM AlwaysBrokenUntilRun == Spec => BrokenUntilRun
<1>1. ChartInv /\ [Next]_vars => [broken /\ ~broken' => perf' = << >>]_vars
  <2> SUFFICES ASSUME ChartInv, Next, broken, ~broken' PROVE perf' = << >>
    OBVIOUS
  <2>1. CASE UpdatePerf
    <3>1. Steps(perf)[Len(perf)].broken
      BY DEF ChartInv
    <3>2. /\ IsTrace(perf') /\ Len(perf) \in 0..Len(perf')
          /\ Steps(perf')[Len(perf)] = Steps(perf)[Len(perf)]
          /\ broken' = Steps(perf')[Len(perf')].broken
      BY <2>1, UpdateExtends
    <3>3. Steps(perf')[Len(perf')].broken
      BY <3>1, <3>2, StaysBroken
    <3> QED
      BY <3>2, <3>3
  <2>2. CASE Run
    BY <2>2 DEF Run
  <2> QED
    BY <2>1, <2>2 DEF Next
<1> QED
  BY <1>1, ChartAlways, PTL DEF Spec, BrokenUntilRun

-----------------------------------------------------------------------------
(* Counting marks.                                                         *)

Count(T, i, j) == Cardinality({k \in i..j : k \in T})

LEMMA Counted ==
    ASSUME NEW T, NEW i \in Int, NEW j \in Int
    PROVE  IsFiniteSet({k \in i..j : k \in T}) /\ Count(T, i, j) \in Nat
<1> DEFINE A == {k \in i..j : k \in T}
<1>1. IsFiniteSet(i..j) /\ A \in SUBSET (i..j)
  BY FS_Interval
<1>2. IsFiniteSet(A)
  BY <1>1, FS_Subset
<1>3. Cardinality(A) \in Nat
  BY <1>2, FS_CardinalityType
<1> QED
  BY <1>2, <1>3 DEF Count

LEMMA CountNone == \A T : Count(T, 1, 0) = 0
<1> SUFFICES ASSUME NEW T PROVE Count(T, 1, 0) = 0
  OBVIOUS
<1>1. {k \in 1..0 : k \in T} = {}
  OBVIOUS
<1> QED
  BY <1>1, FS_EmptySet DEF Count

LEMMA CountNext ==
    ASSUME NEW T, NEW n \in Nat
    PROVE  Count(T, 1, n + 1) = IF n + 1 \in T THEN Count(T, 1, n) + 1 ELSE Count(T, 1, n)
<1> DEFINE A == {k \in 1..n : k \in T}
<1> DEFINE B == {k \in 1..(n + 1) : k \in T}
<1>1. IsFiniteSet(A) /\ n + 1 \notin A
  <2>1. IsFiniteSet(A)
    BY Counted
  <2> QED
    BY <2>1
<1>2. CASE n + 1 \in T
  <2>1. B = A \cup {n + 1}
    BY <1>2
  <2> HIDE DEF A, B
  <2>2. Cardinality(B) = Cardinality(A) + 1
    BY <1>1, <2>1, FS_AddElement
  <2> QED
    BY <1>2, <2>2 DEF Count, A, B
<1>3. CASE n + 1 \notin T
  <2>1. B = A
    BY <1>3
  <2> QED
    BY <1>3, <2>1 DEF Count
<1> QED
  BY <1>2, <1>3

LEMMA CountSplit ==
    ASSUME NEW T, NEW i \in Nat, NEW j \in Nat, i <= j
    PROVE  Count(T, 1, j) = Count(T, 1, i) + Count(T, i + 1, j)
<1> DEFINE A == {k \in 1..i : k \in T}
<1> DEFINE B == {k \in (i + 1)..j : k \in T}
<1> DEFINE C == {k \in 1..j : k \in T}
<1>1. IsFiniteSet(A) /\ IsFiniteSet(B) /\ Cardinality(A) \in Nat /\ Cardinality(B) \in Nat
  <2>1. 1 \in Int /\ i \in Int /\ i + 1 \in Int /\ j \in Int
    OBVIOUS
  <2>2. IsFiniteSet(A)
    BY <2>1, Counted, Zenon
  <2>3. IsFiniteSet(B)
    BY <2>1, Counted, Zenon
  <2> HIDE DEF A, B
  <2> QED
    BY <2>2, <2>3, FS_CardinalityType
<1>2. C = A \cup B /\ A \cap B = {}
  OBVIOUS
<1>3. Cardinality(C) = Cardinality(A) + Cardinality(B)
  <2> HIDE DEF A, B, C
  <2>1. Cardinality(A \cup B) = Cardinality(A) + Cardinality(B) - Cardinality(A \cap B)
    BY <1>1, FS_Union
  <2>2. Cardinality(A \cap B) = 0
    BY <1>2, FS_EmptySet
  <2> QED
    BY <1>1, <1>2, <2>1, <2>2
<1> QED
  BY <1>3 DEF Count

\* The same number of elements on both sides of a function that is one to one.
LEMMA Listed ==
    ASSUME NEW a \in Int, NEW b \in Int, a <= b + 1, NEW S, NEW f \in [a..b -> S],
           \A j, k \in a..b : f[j] = f[k] => j = k,
           \A x \in S : \E k \in a..b : f[k] = x
    PROVE  Cardinality(S) = b - a + 1
<1>1. f \in Bijection(a..b, S)
  BY Fun_IsBij
<1>2. IsFiniteSet(a..b) /\ Cardinality(a..b) = b - a + 1
  BY FS_Interval
<1> QED
  BY <1>1, <1>2, FS_Bijection DEF ExistsBijection

-----------------------------------------------------------------------------
(* The depth of the calls after n marks.                                   *)

Depth(n) == Starts(1, n) - Ends(1, n)

LEMMA Depths ==
    ASSUME NEW i \in Nat, NEW j \in Nat
    PROVE  /\ Starts(1, i) \in Nat /\ Ends(1, i) \in Nat /\ Depth(i) \in Int /\ Depth(0) = 0
           /\ perf[i + 1].type = "start" => Depth(i + 1) = Depth(i) + 1
           /\ perf[i + 1].type = "end" => Depth(i + 1) = Depth(i) - 1
           /\ i <= j => /\ Starts(i + 1, j) - Ends(i + 1, j) = Depth(j) - Depth(i)
                        /\ Starts(i + 1, j) \in Nat /\ Ends(i + 1, j) \in Nat
<1> DEFINE S == {k \in Nat : perf[k].type = "start"}
<1> DEFINE E == {k \in Nat : perf[k].type = "end"}
<1>1. \A l \in Nat, k \in Nat : Starts(l, k) = Count(S, l, k) /\ Ends(l, k) = Count(E, l, k)
  <2> SUFFICES ASSUME NEW l \in Nat, NEW k \in Nat
               PROVE  Starts(l, k) = Count(S, l, k) /\ Ends(l, k) = Count(E, l, k)
    OBVIOUS
  <2>1. {x \in l..k : perf[x].type = "start"} = {x \in l..k : x \in S}
    OBVIOUS
  <2>2. {x \in l..k : perf[x].type = "end"} = {x \in l..k : x \in E}
    OBVIOUS
  <2> QED
    BY <2>1, <2>2 DEF Starts, Ends, Count
<1>2. /\ perf[i + 1].type = "start" => i + 1 \in S /\ i + 1 \notin E
      /\ perf[i + 1].type = "end" => i + 1 \notin S /\ i + 1 \in E
  OBVIOUS
<1> HIDE DEF S, E
<1>3. ASSUME NEW T, NEW l \in Nat, NEW k \in Nat
      PROVE  Count(T, l, k) \in Nat
  <2>1. l \in Int /\ k \in Int
    OBVIOUS
  <2> QED
    BY <2>1, Counted, Zenon
<1>4. 1 \in Nat /\ 0 \in Nat /\ i + 1 \in Nat
  OBVIOUS
<1>5. Starts(1, i) \in Nat /\ Ends(1, i) \in Nat /\ Depth(i) \in Int
  <2>1. Starts(1, i) \in Nat /\ Ends(1, i) \in Nat
    BY <1>1, <1>3, <1>4
  <2> QED
    BY <2>1 DEF Depth
<1>6. Depth(0) = 0
  BY <1>1, <1>4, CountNone DEF Depth
<1>7. /\ perf[i + 1].type = "start" => Depth(i + 1) = Depth(i) + 1
      /\ perf[i + 1].type = "end" => Depth(i + 1) = Depth(i) - 1
  <2>1. /\ Starts(1, i + 1) = IF i + 1 \in S THEN Starts(1, i) + 1 ELSE Starts(1, i)
        /\ Ends(1, i + 1) = IF i + 1 \in E THEN Ends(1, i) + 1 ELSE Ends(1, i)
    BY <1>1, <1>4, CountNext
  <2> QED
    BY <1>2, <1>5, <2>1 DEF Depth
<1>8. ASSUME i <= j
      PROVE  /\ Starts(i + 1, j) - Ends(i + 1, j) = Depth(j) - Depth(i)
             /\ Starts(i + 1, j) \in Nat /\ Ends(i + 1, j) \in Nat
  <2>1. /\ Starts(1, j) = Starts(1, i) + Starts(i + 1, j)
        /\ Ends(1, j) = Ends(1, i) + Ends(i + 1, j)
    BY <1>1, <1>4, <1>8, CountSplit
  <2>2. Starts(i + 1, j) \in Nat /\ Ends(i + 1, j) \in Nat
    BY <1>1, <1>3, <1>4
  <2> QED
    BY <1>5, <2>1, <2>2 DEF Depth
<1> QED
  BY <1>5, <1>6, <1>7, <1>8

\* A call returns at the first mark that brings the depth back to what it was.
LEMMA ReturnsAre ==
    ASSUME NEW i \in Nat \ {0}, NEW j \in Nat
    PROVE  Returns(i, j) <=> /\ i < j /\ Depth(j) = Depth(i - 1)
                             /\ \A k \in i..(j - 1) : Depth(k) > Depth(i - 1)
<1> DEFINE h == i - 1
<1>1. h \in Nat /\ h + 1 = i
  OBVIOUS
<1> HIDE DEF h
<1>2. ASSUME NEW k \in Nat, k >= i
      PROVE  /\ Starts(i, k) - Ends(i, k) = Depth(k) - Depth(h)
             /\ Starts(i, k) \in Nat /\ Ends(i, k) \in Nat
             /\ Depth(k) \in Int /\ Depth(h) \in Int
  <2>1. h <= k
    BY <1>1, <1>2
  <2>2. Depth(k) \in Int /\ Depth(h) \in Int
    BY <1>1, Depths
  <2>3. /\ Starts(h + 1, k) - Ends(h + 1, k) = Depth(k) - Depth(h)
        /\ Starts(h + 1, k) \in Nat /\ Ends(h + 1, k) \in Nat
    BY <1>1, <2>1, Depths
  <2> QED
    BY <1>1, <2>2, <2>3
<1>3. \A k \in i..(j - 1) : k \in Nat /\ k >= i
  OBVIOUS
<1> QED
  BY <1>2, <1>3 DEF Returns, h

-----------------------------------------------------------------------------
(* Traces of a program seen from its first instruction on.                 *)

\* The call that starts at mark i is still open after n marks.
Open(i, n) == /\ i \in 1..n /\ perf[i].type = "start"
              /\ \A j \in i..n : Depth(j) >= Depth(i)
Kept(c1, c2) == Box(perf[c1].name, Depth(c1) - 1, c1, c2)

\* The stack holds the calls that are open, each at its depth; the boxes are the
\* calls that have returned.
Balanced(n, s) ==
    /\ s \in Replays /\ s.broken = FALSE /\ Len(s.stack) = Depth(n)
    /\ \A k \in 1..Len(s.stack) : /\ Open(s.stack[k].t, n) /\ Depth(s.stack[k].t) = k
                                  /\ perf[s.stack[k].t].name = s.stack[k].name
    /\ \A i \in 1..n : Open(i, n) => /\ Depth(i) \in 1..Len(s.stack)
                                     /\ s.stack[Depth(i)].t = i
    /\ \A b : b \in s.boxes <=> \E c1, c2 \in 1..n : Returns(c1, c2) /\ b = Kept(c1, c2)

\* A call that returns at mark n + 1 was open before.
LEMMA OpenUntilReturn ==
    ASSUME NEW n \in Nat, NEW i \in 1..(n + 1), Returns(i, n + 1),
           perf[i].type \in {"start", "end"}
    PROVE  /\ Open(i, n) /\ Depth(i) = Depth(i - 1) + 1 /\ i \in 1..n
           /\ Depth(n + 1) = Depth(i) - 1 /\ Depth(n) > Depth(n + 1)
<1>1. /\ i < n + 1 /\ Depth(n + 1) = Depth(i - 1)
      /\ \A k \in i..n : Depth(k) > Depth(i - 1)
  <2>1. i \in Nat \ {0} /\ n + 1 \in Nat /\ n + 1 - 1 = n
    OBVIOUS
  <2> QED
    BY <2>1, ReturnsAre
<1>2. i \in 1..n /\ i \in i..n /\ n \in i..n /\ i - 1 \in Nat /\ i - 1 + 1 = i /\ n \in Nat
  BY <1>1
<1>3. \A k \in Nat : Depth(k) \in Int
  BY Depths
<1>4. /\ perf[i].type = "start" => Depth(i) = Depth(i - 1) + 1
      /\ perf[i].type = "end" => Depth(i) = Depth(i - 1) - 1
  BY <1>2, Depths
<1>5. Depth(i) > Depth(i - 1) /\ Depth(i) \in Int /\ Depth(i - 1) \in Int
  BY <1>1, <1>2, <1>3
<1>6. perf[i].type = "start" /\ Depth(i) = Depth(i - 1) + 1
  BY <1>4, <1>5
<1>7. ASSUME NEW j \in i..n
      PROVE  Depth(j) >= Depth(i)
  <2>1. Depth(j) > Depth(i - 1) /\ Depth(j) \in Int
    BY <1>1, <1>2, <1>3
  <2> QED
    BY <1>5, <1>6, <2>1
<1>8. Depth(n) > Depth(n + 1)
  BY <1>1, <1>2
<1> QED
  BY <1>1, <1>2, <1>5, <1>6, <1>7, <1>8 DEF Open

LEMMA BalancedStart ==
    ASSUME NEW n \in Nat, NEW s, Balanced(n, s), NEW r \in Replays,
           perf[n + 1].type = "start", perf[n + 1].t = n + 1, Opens(s, perf[n + 1], r),
           \A i \in 1..(n + 1) : perf[i].type \in {"start", "end"}
    PROVE  Balanced(n + 1, r)
<1> DEFINE m == Len(s.stack)
<1>1. /\ m \in Nat /\ m = Depth(n) /\ Depth(n + 1) = m + 1
      /\ Len(r.stack) = m + 1 /\ r.boxes = s.boxes /\ r.broken = FALSE
      /\ \A k \in 1..m : r.stack[k] = s.stack[k]
      /\ r.stack[m + 1].t = n + 1 /\ r.stack[m + 1].name = perf[n + 1].name
  <2>1. m \in Nat /\ m = Depth(n)
    BY DEF Balanced, Replays
  <2>2. Depth(n + 1) = Depth(n) + 1
    BY Depths
  <2>3. r.broken = FALSE
    BY DEF Opens, Replays
  <2> QED
    BY <2>1, <2>2, <2>3 DEF Opens
<1>2. \A k \in Nat : Depth(k) \in Int
  BY Depths
<1>3. /\ \A k \in 1..m : /\ Open(s.stack[k].t, n) /\ Depth(s.stack[k].t) = k
                         /\ perf[s.stack[k].t].name = s.stack[k].name
      /\ \A i \in 1..n : Open(i, n) => Depth(i) \in 1..m /\ s.stack[Depth(i)].t = i
      /\ \A b : b \in s.boxes <=> \E c1, c2 \in 1..n : Returns(c1, c2) /\ b = Kept(c1, c2)
  BY DEF Balanced
<1> HIDE DEF m
<1>4. ASSUME NEW i \in 1..n
      PROVE  Open(i, n + 1) <=> Open(i, n)
  <2>1. i \in i..n /\ i \in 1..(n + 1) /\ n \in i..n /\ i \in Nat
    OBVIOUS
  <2>2. \A j \in i..(n + 1) : j \in i..n \/ j = n + 1
    OBVIOUS
  <2>3. \A j \in i..n : j \in i..(n + 1)
    OBVIOUS
  <2>4. Depth(n) >= Depth(i) => Depth(n + 1) >= Depth(i)
    BY <1>1, <1>2, <2>1
  <2> QED
    BY <2>1, <2>2, <2>3, <2>4 DEF Open
<1>5. Open(n + 1, n + 1)
  <2>1. \A j \in (n + 1)..(n + 1) : j = n + 1
    OBVIOUS
  <2>2. n + 1 \in 1..(n + 1) /\ Depth(n + 1) >= Depth(n + 1)
    BY <1>1
  <2> QED
    BY <2>1, <2>2 DEF Open
<1>6. ASSUME NEW k \in 1..(m + 1)
      PROVE  /\ Open(r.stack[k].t, n + 1) /\ Depth(r.stack[k].t) = k
             /\ perf[r.stack[k].t].name = r.stack[k].name
  <2>1. k \in 1..m \/ k = m + 1
    BY <1>1
  <2>2. CASE k \in 1..m
    <3>1. s.stack[k].t \in 1..n
      BY <1>3, <2>2 DEF Open
    <3> QED
      BY <1>1, <1>3, <1>4, <2>2, <3>1
  <2>3. CASE k = m + 1
    BY <1>1, <1>5, <2>3
  <2> QED
    BY <2>1, <2>2, <2>3
<1>7. ASSUME NEW i \in 1..(n + 1), Open(i, n + 1)
      PROVE  Depth(i) \in 1..(m + 1) /\ r.stack[Depth(i)].t = i
  <2>1. i \in 1..n \/ i = n + 1
    OBVIOUS
  <2>2. CASE i \in 1..n
    <3>1. Depth(i) \in 1..m /\ s.stack[Depth(i)].t = i
      BY <1>3, <1>4, <1>7, <2>2
    <3> QED
      BY <1>1, <3>1
  <2>3. CASE i = n + 1
    <3>1. m + 1 \in 1..(m + 1)
      BY <1>1
    <3> QED
      BY <1>1, <2>3, <3>1
  <2> QED
    BY <2>1, <2>2, <2>3
<1>8. ASSUME NEW c1 \in 1..(n + 1), NEW c2 \in 1..(n + 1), Returns(c1, c2)
      PROVE  c1 \in 1..n /\ c2 \in 1..n
  <2>1. c1 < c2
    BY <1>8 DEF Returns
  <2>2. CASE c2 = n + 1
    <3>1. Depth(n) > Depth(n + 1)
      BY <1>8, <2>2, OpenUntilReturn
    <3> QED
      BY <1>1, <3>1
  <2> QED
    BY <2>1, <2>2
<1>9. \A b : b \in r.boxes <=> \E c1, c2 \in 1..(n + 1) : Returns(c1, c2) /\ b = Kept(c1, c2)
  <2>1. \A c \in 1..n : c \in 1..(n + 1)
    OBVIOUS
  <2> QED
    BY <1>1, <1>3, <1>8, <2>1
<1> QED
  BY <1>1, <1>6, <1>7, <1>9 DEF Balanced

LEMMA BalancedEnd ==
    ASSUME NEW n \in Nat, NEW s, Balanced(n, s), NEW r \in Replays,
           perf[n + 1].type = "end", perf[n + 1].t = n + 1,
           Len(s.stack) # 0 => Closes(s, perf[n + 1], r),
           \A i \in 1..(n + 1) : perf[i].type \in {"start", "end"},
           NEW i \in 1..(n + 1), Returns(i, n + 1), perf[i].name = perf[n + 1].name
    PROVE  Balanced(n + 1, r)
<1> DEFINE m == Len(s.stack)
<1>1. /\ \A k \in 1..m : /\ Open(s.stack[k].t, n) /\ Depth(s.stack[k].t) = k
                         /\ perf[s.stack[k].t].name = s.stack[k].name
      /\ \A c \in 1..n : Open(c, n) => Depth(c) \in 1..m /\ s.stack[Depth(c)].t = c
      /\ \A b : b \in s.boxes <=> \E c1, c2 \in 1..n : Returns(c1, c2) /\ b = Kept(c1, c2)
  BY DEF Balanced
<1>2. m \in Nat /\ m = Depth(n) /\ Depth(n + 1) = m - 1
  <2>1. m \in Nat /\ m = Depth(n)
    BY DEF Balanced, Replays
  <2>2. Depth(n + 1) = Depth(n) - 1
    BY Depths
  <2> QED
    BY <2>1, <2>2
<1>3. \A k \in Nat : Depth(k) \in Int
  BY Depths
<1> HIDE DEF m
<1>4. ASSUME NEW c \in 1..(n + 1), Returns(c, n + 1)
      PROVE  c \in 1..n /\ Open(c, n) /\ Depth(c) = m /\ m \in 1..m /\ s.stack[m].t = c
  <2>1. c \in 1..n /\ Open(c, n) /\ Depth(n + 1) = Depth(c) - 1
    BY <1>4, OpenUntilReturn
  <2>2. Depth(c) \in Int
    BY <1>3, <2>1
  <2>3. Depth(c) = m
    BY <1>2, <2>1, <2>2
  <2> QED
    BY <1>1, <2>1, <2>3
<1>5. i \in 1..n /\ Open(i, n) /\ Depth(i) = m /\ m \in 1..m /\ s.stack[m].t = i
  BY <1>4
<1>6. /\ Len(r.stack) = m - 1 /\ m - 1 \in Nat /\ r.broken = FALSE
      /\ \A k \in 1..(m - 1) : r.stack[k] = s.stack[k]
      /\ r.boxes = s.boxes \cup {Kept(i, n + 1)}
  <2>1. m # 0
    BY <1>5
  <2>2. Closes(s, perf[n + 1], r)
    BY <2>1 DEF m
  <2>3. /\ Len(r.stack) = m - 1 /\ \A k \in 1..(m - 1) : r.stack[k] = s.stack[k]
    BY <2>2 DEF Closes, m
  <2>4. r.broken = FALSE
    BY <2>2 DEF Closes, Replays
  <2>5. s.stack[m].name = perf[n + 1].name
    BY <1>1, <1>5
  <2>6. r.boxes = s.boxes \cup {Box(s.stack[m].name, Len(r.stack), s.stack[m].t, n + 1)}
    BY <2>2, <2>5 DEF Closes, m
  <2>7. Kept(i, n + 1) = Box(s.stack[m].name, Len(r.stack), s.stack[m].t, n + 1)
    BY <1>5, <2>3, <2>5 DEF Kept
  <2> QED
    BY <1>2, <2>1, <2>3, <2>4, <2>6, <2>7
<1>7. ASSUME NEW c \in 1..n
      PROVE  Open(c, n + 1) <=> Open(c, n) /\ Depth(c) <= m - 1
  <2>1. c \in 1..(n + 1) /\ n + 1 \in c..(n + 1)
    OBVIOUS
  <2>2. \A j \in c..(n + 1) : j \in c..n \/ j = n + 1
    OBVIOUS
  <2>3. \A j \in c..n : j \in c..(n + 1)
    OBVIOUS
  <2>4. Depth(n + 1) >= Depth(c) <=> Depth(c) <= m - 1
    BY <1>2, <1>3
  <2> QED
    BY <2>1, <2>2, <2>3, <2>4 DEF Open
<1>8. ASSUME NEW k \in 1..(m - 1)
      PROVE  /\ Open(r.stack[k].t, n + 1) /\ Depth(r.stack[k].t) = k
             /\ perf[r.stack[k].t].name = r.stack[k].name
  <2>1. k \in 1..m /\ k <= m - 1
    BY <1>2
  <2>2. s.stack[k].t \in 1..n
    BY <1>1, <2>1 DEF Open
  <2> QED
    BY <1>1, <1>6, <1>7, <2>1, <2>2
<1>9. ASSUME NEW c \in 1..(n + 1), Open(c, n + 1)
      PROVE  Depth(c) \in 1..(m - 1) /\ r.stack[Depth(c)].t = c
  <2>1. c # n + 1
    BY <1>9 DEF Open
  <2>2. c \in 1..n
    BY <2>1
  <2>3. Open(c, n) /\ Depth(c) <= m - 1 /\ Depth(c) \in 1..m /\ s.stack[Depth(c)].t = c
    BY <1>1, <1>7, <1>9, <2>2
  <2>4. Depth(c) \in 1..(m - 1)
    BY <1>2, <2>3
  <2> QED
    BY <1>6, <2>3, <2>4
<1>10. \A b : b \in r.boxes <=> \E c1, c2 \in 1..(n + 1) : Returns(c1, c2) /\ b = Kept(c1, c2)
  <2>1. ASSUME NEW c1 \in 1..(n + 1), NEW c2 \in 1..(n + 1), Returns(c1, c2)
        PROVE  (c1 \in 1..n /\ c2 \in 1..n) \/ (c1 = i /\ c2 = n + 1)
    <3>1. c1 < c2
      BY <2>1 DEF Returns
    <3>2. CASE c2 = n + 1
      <4>1. s.stack[m].t = c1
        BY <1>4, <2>1, <3>2
      <4> QED
        BY <1>5, <3>2, <4>1
    <3>3. CASE c2 # n + 1
      BY <3>1, <3>3
    <3> QED
      BY <3>2, <3>3
  <2>2. \A c \in 1..n : c \in 1..(n + 1)
    OBVIOUS
  <2>3. n + 1 \in 1..(n + 1)
    OBVIOUS
  <2>4. ASSUME NEW b \in r.boxes
        PROVE  \E c1, c2 \in 1..(n + 1) : Returns(c1, c2) /\ b = Kept(c1, c2)
    <3>1. b \in s.boxes \/ b = Kept(i, n + 1)
      BY <1>6
    <3> QED
      BY <1>1, <2>2, <2>3, <3>1
  <2>5. ASSUME NEW c1 \in 1..(n + 1), NEW c2 \in 1..(n + 1), Returns(c1, c2)
        PROVE  Kept(c1, c2) \in r.boxes
    <3>1. CASE c1 \in 1..n /\ c2 \in 1..n
      <4>1. Kept(c1, c2) \in s.boxes
        BY <1>1, <2>5, <3>1
      <4> QED
        BY <1>6, <4>1
    <3>2. CASE c1 = i /\ c2 = n + 1
      BY <1>6, <3>2
    <3> QED
      BY <2>1, <2>5, <3>1, <3>2
  <2> QED
    BY <2>4, <2>5
<1>11. Len(r.stack) = Depth(n + 1)
  BY <1>2, <1>6
<1> QED
  BY <1>6, <1>8, <1>9, <1>10, <1>11 DEF Balanced

LEMMA AlwaysBalanced ==
    ASSUME IsTrace(perf), Orderly
    PROVE  \A n \in 0..Len(perf) : Balanced(n, Steps(perf)[n])
<1> DEFINE S == {n \in Nat : n <= Len(perf) => Balanced(n, Steps(perf)[n])}
<1>1. Len(perf) \in Nat /\ DOMAIN perf = 1..Len(perf)
  BY DEF IsTrace
<1>2. 0 \in S
  <2>1. Steps(perf)[0] = Blank
    BY <1>1, StepsAre
  <2>2. Depth(0) = 0
    BY Depths
  <2>3. 1..0 = {}
    OBVIOUS
  <2>4. Balanced(0, Blank)
    BY <2>2, <2>3, BlankTyped DEF Balanced
  <2> QED
    BY <2>1, <2>4
<1>3. ASSUME NEW n \in Nat, n \in S
      PROVE  n + 1 \in S
  <2> SUFFICES ASSUME n + 1 <= Len(perf)
               PROVE  Balanced(n + 1, Steps(perf)[n + 1])
    OBVIOUS
  <2> DEFINE s == Steps(perf)[n]
  <2> DEFINE r == Steps(perf)[n + 1]
  <2>1. Balanced(n, s) /\ n + 1 \in 1..Len(perf) /\ n + 1 - 1 = n
    BY <1>1, <1>3
  <2>2. r = Replayed(s, perf[n + 1])
    BY <1>1, <2>1, StepsAre
  <2>3. \A i \in 1..Len(perf) : /\ perf[i] \in Mark /\ perf[i].t = i
                                /\ perf[i].type # "none" => perf[i].name \in Names
    BY ElementOfSeq DEF IsTrace
  <2>4. \A i \in 1..Len(perf) : perf[i].type \in {"start", "end"}
    BY <1>1, <2>3 DEF Mark, Orderly
  <2>5. s \in Replays /\ s.broken = FALSE /\ Len(s.stack) \in Nat
    BY <2>1 DEF Balanced, Replays
  <2>6. \A i \in 1..(n + 1) : perf[i].type \in {"start", "end"}
    BY <1>1, <2>1, <2>4
  <2> HIDE DEF s, r
  <2>7. /\ r \in Replays
        /\ perf[n + 1].type = "start" => Opens(s, perf[n + 1], r)
        /\ perf[n + 1].type = "end" /\ Len(s.stack) # 0 => Closes(s, perf[n + 1], r)
    BY <2>1, <2>2, <2>3, <2>5, ReplayedStep
  <2>8. CASE perf[n + 1].type = "start"
    <3>1. Balanced(n + 1, r)
      BY <2>1, <2>3, <2>6, <2>7, <2>8, BalancedStart
    <3> QED
      BY <3>1 DEF r
  <2>9. CASE perf[n + 1].type = "end"
    <3>1. PICK i \in 1..(n + 1) : Returns(i, n + 1) /\ perf[i].name = perf[n + 1].name
      BY <1>1, <2>1, <2>9 DEF Orderly
    <3>2. Balanced(n + 1, r)
      BY <2>1, <2>3, <2>6, <2>7, <2>9, <3>1, BalancedEnd
    <3> QED
      BY <3>2 DEF r
  <2> QED
    BY <2>1, <2>4, <2>8, <2>9
<1>4. \A n \in Nat : n \in S
  <2> HIDE DEF S
  <2> QED
    BY <1>2, <1>3, NatStep
<1> QED
  BY <1>1, <1>4

\* A call is open at the end of the trace just when it never returns in it.
LEMMA OpenNeverReturns ==
    ASSUME IsTrace(perf), Orderly, NEW N, N = Len(perf), NEW i \in 1..N, perf[i].type = "start"
    PROVE  Open(i, N) <=> ~ \E j \in 1..N : Returns(i, j)
<1>1. N \in Nat /\ i \in Nat \ {0} /\ i - 1 \in Nat /\ i - 1 + 1 = i
  BY DEF IsTrace
<1>2. Depth(i) = Depth(i - 1) + 1 /\ Depth(i) \in Int /\ Depth(i - 1) \in Int
  BY <1>1, Depths
<1>3. \A k \in Nat : Depth(k) \in Int
  BY Depths
<1>4. ASSUME Open(i, N), NEW j \in 1..N, Returns(i, j)
      PROVE  FALSE
  <2>1. i < j /\ Depth(j) = Depth(i - 1)
    BY <1>1, <1>4, ReturnsAre
  <2>2. Depth(j) >= Depth(i)
    BY <1>4, <2>1 DEF Open
  <2> QED
    BY <1>2, <2>1, <2>2
<1>5. ASSUME ~Open(i, N)
      PROVE  \E j \in 1..N : Returns(i, j)
  <2> DEFINE Under == {j \in i..N : Depth(j) < Depth(i)}
  <2>1. Under \subseteq Nat /\ Under # {}
    <3>1. PICK j \in i..N : ~(Depth(j) >= Depth(i))
      BY <1>5 DEF Open
    <3>2. Depth(j) < Depth(i)
      BY <1>2, <1>3, <3>1
    <3> QED
      BY <1>1, <3>1, <3>2
  <2>2. PICK j \in Under : \A k \in Under : j <= k
    <3> HIDE DEF Under
    <3> QED
      BY <2>1, NatMin
  <2>3. j \in i..N /\ Depth(j) < Depth(i) /\ j # i
    BY <1>2
  <2>4. i < j /\ j \in 1..N /\ j - 1 \in Nat /\ j - 1 + 1 = j /\ j - 1 \in i..N /\ j \in Nat
    BY <1>1, <2>3
  <2>5. \A k \in i..(j - 1) : k \in i..N /\ ~(j <= k)
    BY <1>1, <2>3
  <2>6. \A k \in i..(j - 1) : Depth(k) \in Int /\ ~(Depth(k) < Depth(i))
    BY <1>1, <1>3, <2>2, <2>5
  <2> HIDE DEF Under
  <2>7. \A k \in i..(j - 1) : Depth(k) >= Depth(i) /\ Depth(k) > Depth(i - 1)
    BY <1>2, <2>6
  <2>8. j - 1 \in i..(j - 1)
    BY <1>1, <2>4
  <2>9. Depth(j - 1) >= Depth(i)
    BY <2>7, <2>8
  <2>10. perf[j].type \in {"start", "end"}
    <3>1. perf[j] \in Mark /\ perf[j].type # "none"
      BY <2>4, ElementOfSeq DEF IsTrace, Orderly
    <3> QED
      BY <3>1 DEF Mark
  <2>11. /\ perf[j].type = "start" => Depth(j) = Depth(j - 1) + 1
         /\ perf[j].type = "end" => Depth(j) = Depth(j - 1) - 1
    BY <2>4, Depths
  <2>12. Depth(j) \in Int /\ Depth(j - 1) \in Int
    BY <1>3, <2>4
  <2>13. Depth(j) = Depth(i - 1)
    BY <1>2, <2>3, <2>9, <2>10, <2>11, <2>12
  <2>14. Returns(i, j)
    BY <1>1, <2>4, <2>7, <2>13, ReturnsAre
  <2> QED
    BY <2>4, <2>14
<1> QED
  BY <1>4, <1>5

\* What an orderly trace has on the chart.
LEMMA OrderlyChart ==
    ASSUME ChartInv, Orderly, NEW N, N = Len(perf), NEW s, s = Steps(perf)[N]
    PROVE  /\ IsTrace(perf) /\ N \in Nat /\ DOMAIN perf = 1..N /\ N <= MaxMarks
           /\ Balanced(N, s) /\ Nested(perf, N, s)
           /\ Len(s.stack) \in Nat
           /\ data = s.boxes \cup Running(s.stack)
<1>1. IsTrace(perf) /\ N \in Nat /\ N \in 0..N /\ DOMAIN perf = 1..N /\ N <= MaxMarks
  BY DEF ChartInv, IsTrace
<1>2. Balanced(N, s) /\ Nested(perf, N, s)
  BY <1>1, AlwaysBalanced, AlwaysNested
<1>3. s.broken = FALSE /\ Len(s.stack) \in Nat
  BY <1>2 DEF Balanced, Replays
<1>4. ~broken
  BY <1>3 DEF ChartInv
<1>5. Drawn(N)
  BY <1>4 DEF ChartInv
<1> QED
  BY <1>1, <1>2, <1>3, <1>5 DEF Drawn

(* In an orderly trace the boxes of returned calls are exactly the calls:  *)
(* each once, from its call to its return, at the depth it was called at.  *)
(* The chart tells a call that has returned from one still running by the  *)
(* time its box ends; the times here are the numbers of the marks, so none *)
(* of them may be current_perf.                                            *)
THEOREM CallsAlwaysBoxes ==
    ASSUME CurrentPerf \notin 1..MaxMarks
    PROVE  Spec => []CallsAreBoxes
<1>1. ChartInv => CallsAreBoxes
  <2> DEFINE Calls == {c \in (DOMAIN perf) \X (DOMAIN perf) : Returns(c[1], c[2])}
  <2> DEFINE Wanted == {Box(perf[c[1]].name, Starts(1, c[1]) - 1 - Ends(1, c[1]), c[1], c[2]) :
                          c \in Calls}
  <2> DEFINE Old == {b \in data : b.to # CurrentPerf}
  <2> SUFFICES ASSUME ChartInv, Orderly
               PROVE  Old = Wanted
    BY DEF CallsAreBoxes
  <2> DEFINE N == Len(perf)
  <2> DEFINE s == Steps(perf)[N]
  <2>1. /\ N \in Nat /\ DOMAIN perf = 1..N /\ N <= MaxMarks /\ Balanced(N, s)
        /\ data = s.boxes \cup Running(s.stack)
    BY OrderlyChart
  <2>2. MaxMarks \in Nat
    BY StackAssumption
  <2> HIDE DEF N, s
  <2>3. \A b : b \in s.boxes <=> \E c1, c2 \in 1..N : Returns(c1, c2) /\ b = Kept(c1, c2)
    BY <2>1 DEF Balanced
  <2>4. ASSUME NEW b \in Running(s.stack)
        PROVE  b.to = CurrentPerf
    <3>1. PICK k \in (Len(s.stack) \div 2 + 1)..Len(s.stack) :
             b = Box(s.stack[k].name, k - 1, s.stack[k].t, CurrentPerf)
      BY DEF Running
    <3> QED
      BY <3>1 DEF Box
  <2>5. \A c1, c2 \in 1..N : Kept(c1, c2).to = c2 /\ c2 \in 1..MaxMarks
    BY <2>1, <2>2 DEF Kept, Box
  <2>6. Old = s.boxes
    BY <2>1, <2>3, <2>4, <2>5
  <2>7. \A c1, c2 \in 1..N :
           Box(perf[c1].name, Starts(1, c1) - 1 - Ends(1, c1), c1, c2) = Kept(c1, c2)
    <3> SUFFICES ASSUME NEW c1 \in 1..N, NEW c2 \in 1..N
                 PROVE  Starts(1, c1) - 1 - Ends(1, c1) = Depth(c1) - 1
      BY DEF Kept
    <3>1. c1 \in Nat
      OBVIOUS
    <3>2. Starts(1, c1) \in Nat /\ Ends(1, c1) \in Nat
      BY <3>1, Depths
    <3> QED
      BY <3>2 DEF Depth
  <2>8. ASSUME NEW b \in Wanted
        PROVE  b \in s.boxes
    <3>1. PICK c \in Calls : b = Box(perf[c[1]].name, Starts(1, c[1]) - 1 - Ends(1, c[1]), c[1], c[2])
      OBVIOUS
    <3>2. c[1] \in 1..N /\ c[2] \in 1..N /\ Returns(c[1], c[2])
      BY <2>1
    <3> QED
      BY <2>3, <2>7, <3>1, <3>2
  <2>9. ASSUME NEW b \in s.boxes
        PROVE  b \in Wanted
    <3>1. PICK c1 \in 1..N, c2 \in 1..N : Returns(c1, c2) /\ b = Kept(c1, c2)
      BY <2>3
    <3>2. <<c1, c2>> \in Calls /\ <<c1, c2>>[1] = c1 /\ <<c1, c2>>[2] = c2
      BY <2>1, <3>1
    <3>3. b = Box(perf[c1].name, Starts(1, c1) - 1 - Ends(1, c1), c1, c2)
      BY <2>7, <3>1
    <3> HIDE DEF Calls
    <3> QED
      BY <3>2, <3>3
  <2> HIDE DEF Old, Wanted
  <2> QED
    BY <2>6, <2>8, <2>9
<1> QED
  BY <1>1, ChartAlways, PTL

(* In an orderly trace the innermost half of the calls still running, and  *)
(* no other, has a box (the same hypothesis).                              *)
THEOREM RunningAlwaysBoxes ==
    ASSUME CurrentPerf \notin 1..MaxMarks
    PROVE  Spec => []RunningAreBoxes
<1>1. ChartInv => RunningAreBoxes
  <2> DEFINE Going == {i \in DOMAIN perf : perf[i].type = "start"
                                           /\ ~ \E j \in DOMAIN perf : Returns(i, j)}
  <2> DEFINE Shown == {b \in data : b.to = CurrentPerf}
  <2> SUFFICES ASSUME ChartInv, Orderly
               PROVE  /\ Cardinality(Shown) = (Cardinality(Going) + 1) \div 2
                      /\ \A b \in Shown : b.from \in Going /\ \A i \in Going :
                           i > b.from => \E c \in Shown : c.from = i
    BY DEF RunningAreBoxes
  <2> DEFINE N == Len(perf)
  <2> DEFINE s == Steps(perf)[N]
  <2> DEFINE m == Len(s.stack)
  <2> DEFINE h == m \div 2
  <2>1. /\ IsTrace(perf) /\ N \in Nat /\ DOMAIN perf = 1..N /\ N <= MaxMarks /\ Balanced(N, s)
        /\ Nested(perf, N, s) /\ m \in Nat
        /\ data = s.boxes \cup Running(s.stack)
    BY OrderlyChart
  <2>2. MaxMarks \in Nat
    BY StackAssumption
  <2>3. \A i \in 1..N : perf[i].type = "start" => (Open(i, N) <=> ~ \E j \in 1..N : Returns(i, j))
    BY <2>1, OpenNeverReturns
  <2>4. h \in Nat /\ m - h = (m + 1) \div 2 /\ h <= m
    <3> HIDE DEF m
    <3> QED
      BY <2>1, Halves
  <2> DEFINE Half == {Box(s.stack[k].name, k - 1, s.stack[k].t, CurrentPerf) : k \in (h + 1)..m}
  <2>5. Running(s.stack) = Half
    BY DEF Running
  <2> HIDE DEF N, s, h
  <2>6. /\ \A k \in 1..m : Open(s.stack[k].t, N) /\ Depth(s.stack[k].t) = k
        /\ \A i \in 1..N : Open(i, N) => Depth(i) \in 1..m /\ s.stack[Depth(i)].t = i
        /\ \A b : b \in s.boxes <=> \E c1, c2 \in 1..N : Returns(c1, c2) /\ b = Kept(c1, c2)
    BY <2>1 DEF Balanced
  <2>7. \A j, k \in 1..m : j < k => s.stack[j].t < s.stack[k].t
    BY <2>1 DEF Nested
  <2> HIDE DEF m
  <2>8. Going = {i \in 1..N : Open(i, N)}
    BY <2>1, <2>3 DEF Open
  <2>9. Shown = Half
    <3>1. \A c1, c2 \in 1..N : Kept(c1, c2).to = c2 /\ c2 \in 1..MaxMarks
      BY <2>1, <2>2 DEF Kept, Box
    <3>2. \A b \in s.boxes : b.to # CurrentPerf
      BY <2>6, <3>1
    <3>3. \A b \in Half : b.to = CurrentPerf
      BY DEF Box
    <3> HIDE DEF Half
    <3> QED
      BY <2>1, <2>5, <3>2, <3>3
  <2> HIDE DEF Going, Shown
  <2>10. \A k \in 1..m : s.stack[k].t \in Going
    BY <2>6, <2>8 DEF Open
  <2>11. \A i \in Going : Depth(i) \in 1..m /\ s.stack[Depth(i)].t = i /\ i \in 1..N
    BY <2>6, <2>8
  <2>12. Cardinality(Going) = m
    <3> DEFINE f == [k \in 1..m |-> s.stack[k].t]
    <3>1. f \in [1..m -> Going]
      BY <2>10
    <3>2. \A j, k \in 1..m : f[j] = f[k] => j = k
      <4> SUFFICES ASSUME NEW j \in 1..m, NEW k \in 1..m, s.stack[j].t = s.stack[k].t
                   PROVE  j = k
        OBVIOUS
      <4>1. Depth(s.stack[j].t) = j /\ Depth(s.stack[k].t) = k
        BY <2>6
      <4> QED
        BY <4>1
    <3>3. \A i \in Going : \E k \in 1..m : f[k] = i
      BY <2>11
    <3>4. 1 \in Int /\ m \in Int /\ 1 <= m + 1 /\ m - 1 + 1 = m
      BY <2>1
    <3> HIDE DEF f
    <3> QED
      BY <3>1, <3>2, <3>3, <3>4, Listed
  <2>13. Cardinality(Shown) = m - h
    <3> DEFINE g == [k \in (h + 1)..m |-> Box(s.stack[k].name, k - 1, s.stack[k].t, CurrentPerf)]
    <3>1. g \in [(h + 1)..m -> Shown]
      BY <2>9
    <3>2. \A j, k \in (h + 1)..m : g[j] = g[k] => j = k
      <4> SUFFICES ASSUME NEW j \in (h + 1)..m, NEW k \in (h + 1)..m, g[j] = g[k]
                   PROVE  j = k
        OBVIOUS
      <4>1. g[j].level = j - 1 /\ g[k].level = k - 1
        BY DEF Box
      <4>2. j \in Int /\ k \in Int
        BY <2>1, <2>4
      <4> HIDE DEF g
      <4> QED
        BY <4>1, <4>2
    <3>3. \A b \in Shown : \E k \in (h + 1)..m : g[k] = b
      BY <2>9
    <3>4. h + 1 \in Int /\ m \in Int /\ h + 1 <= m + 1 /\ m - (h + 1) + 1 = m - h
      BY <2>1, <2>4
    <3> HIDE DEF g
    <3> QED
      BY <3>1, <3>2, <3>3, <3>4, Listed
  <2>14. Cardinality(Shown) = (Cardinality(Going) + 1) \div 2
    BY <2>4, <2>12, <2>13
  <2>15. ASSUME NEW b \in Shown
         PROVE  b.from \in Going /\ \A i \in Going : i > b.from => \E c \in Shown : c.from = i
    <3>1. PICK k \in (h + 1)..m : b = Box(s.stack[k].name, k - 1, s.stack[k].t, CurrentPerf)
      BY <2>9
    <3>2. k \in 1..m /\ b.from = s.stack[k].t
      BY <2>1, <2>4, <3>1 DEF Box
    <3>3. b.from \in Going /\ b.from \in 1..N
      BY <2>10, <2>11, <3>2
    <3>4. ASSUME NEW i \in Going, i > b.from
          PROVE  \E c \in Shown : c.from = i
      <4> DEFINE j == Depth(i)
      <4>1. j \in 1..m /\ s.stack[j].t = i /\ i \in 1..N
        BY <2>11
      <4> HIDE DEF j
      <4>2. ~(j < k)
        <5>1. j < k => i < b.from
          BY <2>7, <3>2, <4>1
        <5> QED
          BY <2>1, <3>3, <3>4, <4>1, <5>1
      <4>3. j \in (h + 1)..m
        BY <2>1, <2>4, <3>1, <4>1, <4>2
      <4>4. Box(s.stack[j].name, j - 1, s.stack[j].t, CurrentPerf) \in Shown
        BY <2>9, <4>3
      <4> QED
        BY <4>1, <4>4 DEF Box
    <3> QED
      BY <3>3, <3>4
  <2> QED
    BY <2>14, <2>15
<1> QED
  BY <1>1, ChartAlways, PTL
=============================================================================
