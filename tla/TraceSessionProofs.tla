------------------------- MODULE TraceSessionProofs -------------------------
(***************************************************************************)
(* Proofs about TraceSession with one thread that runs programs and one    *)
(* that reads, for every listing, every size of the tracer, any number of  *)
(* threads that load the overlay, of runs, of reads and of marks a run,    *)
(* as long as the ring has room for the marks of one run.                  *)
(***************************************************************************)
EXTENDS TraceSession, TLAPS, WellFoundedInduction, NaturalsInduction, FunctionTheorems,
        FiniteSetTheorems, SequenceTheorems

-----------------------------------------------------------------------------
(* Induction over the naturals.                                            *)

LEMMA NatMin ==
    ASSUME NEW S, S \subseteq Nat, S # {}
    PROVE  \E m \in S : \A k \in S : m <= k
<1> DEFINE R == OpToRel(<, Nat)
<1>1. IsWellFoundedOn(R, Nat)
  BY NatLessThanWellFounded
<1>2. \E m \in S : \A k \in S : <<k, m>> \notin R
  <2> HIDE DEF R
  <2> QED
    BY <1>1, WFMin
<1>3. \A k, m \in Nat : k < m => <<k, m>> \in R
  BY DEF OpToRel
<1>4. \A k, m \in S : <<k, m>> \notin R => m <= k
  <2> HIDE DEF R
  <2> QED
    BY <1>3
<1> QED
  BY <1>2, <1>4

LEMMA NatStep ==
    ASSUME NEW S, 0 \in S, \A n \in Nat : n \in S => n + 1 \in S
    PROVE  \A n \in Nat : n \in S
<1> DEFINE B == Nat \ S
<1> SUFFICES ASSUME B # {} PROVE FALSE
  OBVIOUS
<1>1. PICK m \in B : \A k \in B : m <= k
  BY NatMin
<1>2. m # 0 /\ m - 1 \in Nat
  BY <1>1
<1>3. m - 1 \in S
  BY <1>1, <1>2
<1>4. m - 1 + 1 \in S
  BY <1>2, <1>3
<1> QED
  BY <1>1, <1>4
-----------------------------------------------------------------------------
(* The inductive invariant, for the runner w and the reader r.             *)

Time == [run: Nat, n: Nat, pc: Nat]
Got == [id: Nat, t: Time]
Hit == [perf: Time, symbol: Nat]
Units == [table: Seq(Addresses), running: {0, 1}, flight: Seq(Hit), perfs: Seq(Time),
          symbols: Seq(Nat)]
Names == {Meaning(pc).name : pc \in Addresses}
Cores == [held: BOOLEAN, run: Nat, n: 0..MaxCalls, stack: Seq(Names)]

\* The part of the list that has been written, cut at the size of the table, and
\* what is left of it.
Wrote(table, left, k) ==
    /\ k \in 0..Len(mark.input)
    /\ Len(table) = IF k < Size THEN k ELSE Size
    /\ \A i \in 1..Len(table) : table[i] = mark.input[i]
    /\ Len(left) = Len(mark.input) - k
    /\ \A i \in 1..Len(left) : left[i] = mark.input[k + i]
Complete(table) ==
    /\ Len(table) = IF Len(mark.input) < Size THEN Len(mark.input) ELSE Size
    /\ \A i \in 1..Len(table) : table[i] = mark.input[i]

One(p) == IF p THEN 1 ELSE 0
Past(t) == t.run <= core.run

\* The id of a mark of a run is that of the address that was seen.
Good(id, t, run) ==
    /\ id \in 0..(Size - 1) /\ id + 1 \in 1..Len(mark.input) /\ mark.input[id + 1] = t.pc
    /\ t \in Stamps /\ t.run = run

UnitTyped ==
    /\ unit \in Units /\ rdata \in Time
    /\ Len(unit.table) <= Size /\ Len(unit.perfs) < Depth /\ Len(unit.symbols) < Depth
CoreTyped == core \in Cores /\ Len(core.stack) <= core.n
ThreadsTyped ==
    /\ at \in [Threads -> Places] /\ todo \in [Threads -> Seq(Addresses)]
    /\ seen \in [Threads -> Time] /\ got \in [Threads -> Seq(Got)]
RequestsTyped == runs \in 0..MaxRuns /\ reads \in 0..MaxReads /\ inits \in 0..MaxInits
PageTyped ==
    /\ page \in [lut: {<< >>, mark.response}, run: Nat, perf: Seq(Got)]
    /\ dropped \in Seq(Got)
HistoryTyped == fresh \in BOOLEAN /\ clean \in BOOLEAN
Typed == /\ UnitTyped /\ CoreTyped /\ ThreadsTyped /\ RequestsTyped /\ PageTyped
         /\ HistoryTyped

\* Every run was asked for, at most MaxRuns of them behind each load.
Loading == {t \in Starters : at[t] = "overlay"}
Counted(w) ==
    \E loads \in Nat :
        /\ IsFiniteSet(Loading) /\ loads + Cardinality(Loading) = inits
        /\ core.run + One(at[w] \in {"hold", "symbols", "release"}) <= MaxRuns * loads + runs

\* Nothing bears a time of a run to come.
PastUnit ==
    /\ Past(rdata)
    /\ \A i \in 1..Len(unit.perfs) : Past(unit.perfs[i])
    /\ \A i \in 1..Len(unit.flight) : Past(unit.flight[i].perf)
PastThreads == \A t \in Threads : Past(seen[t]) /\ \A i \in 1..Len(got[t]) : Past(got[t][i].t)
PastPage == page.run <= core.run /\ \A i \in 1..Len(page.perf) : Past(page.perf[i].t)
Pasts == PastUnit /\ PastThreads /\ PastPage

\* Beside a reader that is idle nothing is carried to the page.
IdleInv(w, r) ==
    /\ at[r] \in {"idle", "avail", "perf", "symbol", "read"}
    /\ at[w] \in {"idle", "hold", "symbols", "release", "ran"}
    /\ at[r] = "idle" => got[r] = << >>
    /\ at[w] \in {"symbols", "release"} => core.held = TRUE
    /\ page.run # 0 => page.lut = mark.response

FreshInv(w, r) ==
    fresh =>
        /\ core.held = TRUE /\ core.n = 0
        /\ unit.flight = << >> /\ unit.perfs = << >> /\ unit.symbols = << >>
        /\ got[r] = << >> /\ at[r] \in {"idle", "avail", "read"}
        /\ at[w] \in {"idle", "hold", "symbols", "release"}
        /\ at[w] = "idle" => unit.table = << >>
        /\ at[w] # "idle" => \E k \in 0..Len(mark.input) : Wrote(unit.table, todo[w], k)
        /\ at[w] = "hold" => unit.table = << >> /\ todo[w] = mark.input
        /\ at[w] = "release" => todo[w] = << >> /\ unit.running = 1

\* What is under way belongs to the latest run, times and ids in step.
Half(r) == One(at[r] = "symbol")
Paired(ids, times, ahead, run) ==
    /\ Len(ids) = Len(times) + ahead
    /\ \A i \in 1..Len(times) : Good(ids[i + ahead], times[i], run)
InStep(r) ==
    /\ Paired(unit.symbols, unit.perfs, Half(r), core.run)
    /\ at[r] = "symbol" => Good(unit.symbols[1], seen[r], core.run)
    /\ \A i \in 1..Len(unit.flight) : Good(unit.flight[i].symbol, unit.flight[i].perf, core.run)
    /\ \A i \in 1..Len(got[r]) : Good(got[r][i].id, got[r][i].t, core.run)
PageGood ==
    \A i \in 1..Len(page.perf) :
      page.perf[i].t.run = core.run => Good(page.perf[i].id, page.perf[i].t, core.run)
Under(r) == Len(unit.flight) + Len(unit.perfs) + Half(r) + Len(got[r])
CleanInv(r) ==
    clean =>
        /\ core.run >= 1
        /\ fresh \/ unit.running = 1
        /\ core.held = TRUE \/ Complete(unit.table)
        /\ at[r] = "perf" => unit.perfs # << >>
        /\ fresh \/ Under(r) <= core.n
        /\ InStep(r) /\ PageGood

\* The marks of the run are numbered without a gap, from the page to the pipeline.
Is(t, i, run) == t.run = run /\ t.n = i
Delivered == dropped \o page.perf
Numbered(r, old, base, g, h, p, f) ==
    /\ Len(Delivered) = old + base /\ Len(got[r]) = g /\ Half(r) = h
    /\ Len(unit.perfs) = p /\ Len(unit.flight) = f /\ core.n = base + g + h + p + f
    /\ \A i \in 1..old : Delivered[i].t.run # core.run
    /\ \A i \in 1..base : Is(Delivered[old + i].t, i, core.run)
    /\ \A i \in 1..g : Is(got[r][i].t, base + i, core.run)
    /\ at[r] = "symbol" => Is(seen[r], base + g + 1, core.run)
    /\ \A i \in 1..p : Is(unit.perfs[i], base + g + h + i, core.run)
    /\ \A i \in 1..f : Is(unit.flight[i].perf, base + g + h + p + i, core.run)
Ordered(r) ==
    clean /\ ~fresh => \E old, base, g, h, p, f \in Nat : Numbered(r, old, base, g, h, p, f)

Inv(w, r) ==
    /\ Typed /\ Counted(w) /\ Pasts /\ IdleInv(w, r) /\ FreshInv(w, r) /\ CleanInv(r)
-----------------------------------------------------------------------------
(* The lists of mark(), line by line.                                      *)

\* f is what the loop has made of the first k lines, for every k up to N.
LinesTo(f, N) ==
    f = [k \in 0..N |-> IF k = 0 THEN NoLine ELSE MarkLine(f[k - 1], Listing[k])]
Marking == CHOOSE f : LinesTo(f, Len(Listing))

LEMMA MarkIs == mark = Marking[Len(Listing)]
BY DEF mark, Marking, LinesTo

LEMMA LinesExist ==
    ASSUME NEW N \in Nat
    PROVE  \E f : LinesTo(f, N)
<1> DEFINE S == {n \in Nat : \E f : LinesTo(f, n)}
<1>1. 0 \in S
  <2>1. LinesTo([n \in 0..0 |-> NoLine], 0)
    BY DEF LinesTo
  <2> QED
    BY <2>1
<1>2. ASSUME NEW n \in Nat, n \in S
      PROVE  n + 1 \in S
  <2>1. PICK f : LinesTo(f, n)
    BY <1>2
  <2> DEFINE g == [k \in 0..(n + 1) |-> IF k = n + 1 THEN MarkLine(f[n], Listing[n + 1]) ELSE f[k]]
  <2>2. \A k \in 0..n : f[k] = IF k = 0 THEN NoLine ELSE MarkLine(f[k - 1], Listing[k])
    BY <2>1 DEF LinesTo
  <2>3. \A k \in 0..(n + 1) : g[k] = IF k = 0 THEN NoLine ELSE MarkLine(g[k - 1], Listing[k])
    <3>1. ASSUME NEW k \in 1..n
          PROVE  g[k] = MarkLine(g[k - 1], Listing[k])
      <4>1. g[k] = f[k] /\ g[k - 1] = f[k - 1]
        OBVIOUS
      <4> QED
        BY <2>2, <4>1
    <3>2. g[0] = NoLine
      BY <2>2
    <3>3. g[n + 1] = MarkLine(g[n], Listing[n + 1]) /\ n + 1 - 1 = n
      OBVIOUS
    <3> HIDE DEF g
    <3> QED
      BY <3>1, <3>2, <3>3
  <2>4. LinesTo(g, n + 1)
    <3>1. g = [k \in 0..(n + 1) |-> g[k]]
      OBVIOUS
    <3> HIDE DEF g
    <3> QED
      BY <2>3, <3>1 DEF LinesTo
  <2> QED
    BY <2>4
<1>3. \A n \in Nat : n \in S
  <2> HIDE DEF S
  <2> QED
    BY <1>1, <1>2, NatStep
<1> QED
  BY <1>3

LEMMA MarkingIs ==
    /\ Marking[0] = NoLine
    /\ \A k \in 1..Len(Listing) : Marking[k] = MarkLine(Marking[k - 1], Listing[k])
<1>1. Len(Listing) \in Nat
  BY SessionAssumption
<1>2. LinesTo(Marking, Len(Listing))
  BY <1>1, LinesExist, Zenon DEF Marking
<1> DEFINE f == Marking
<1>3. \A k \in 0..Len(Listing) : f[k] = IF k = 0 THEN NoLine ELSE MarkLine(f[k - 1], Listing[k])
  <2> HIDE DEF f
  <2> QED
    BY <1>2 DEF LinesTo, f
<1> QED
  BY <1>1, <1>3

\* f is the label of the function that line l is in.
LabelOf(f, l) == Listing[f].kind = "label" /\ \A j \in (f + 1)..l : Listing[j].kind = "ret"
Funcs == {Listing[i].func : i \in DOMAIN Listing} \cup {""}
Symbol == [name: Funcs, type: {"start", "end"}]
Named(f, l) == [name |-> Listing[f].func, type |-> IF f = l THEN "start" ELSE "end"]

\* Every entry of the lists is of one line, and named by the label before it.
Marked(m, k) ==
    /\ m \in [input: Seq(Nat), response: Seq(Symbol), func: Funcs, start: Nat]
    /\ Len(m.response) = Len(m.input)
    /\ k # 0 => \E f \in 1..k : /\ LabelOf(f, k)
                                /\ m.func = Listing[f].func /\ m.start = Listing[f].addr
    /\ \A i \in 1..Len(m.input) :
         \E l \in 1..k : \E f \in 1..l :
           m.input[i] = Listing[l].addr /\ LabelOf(f, l) /\ m.response[i] = Named(f, l)

LEMMA TwoMore ==
    ASSUME NEW S, NEW s \in Seq(S), NEW a \in S, NEW b \in S
    PROVE  /\ s \o <<a, b>> \in Seq(S) /\ Len(s \o <<a, b>>) = Len(s) + 2
           /\ \A i \in 1..Len(s) : (s \o <<a, b>>)[i] = s[i]
           /\ (s \o <<a, b>>)[Len(s) + 1] = a /\ (s \o <<a, b>>)[Len(s) + 2] = b
<1>1. <<a, b>> \in Seq(S) /\ Len(<<a, b>>) = 2 /\ <<a, b>>[1] = a /\ <<a, b>>[2] = b
  OBVIOUS
<1> DEFINE u == <<a, b>>
<1> DEFINE t == s \o u
<1> HIDE DEF u
<1>2. /\ t \in Seq(S) /\ Len(t) = Len(s) + Len(u)
      /\ \A i \in 1..(Len(s) + Len(u)) : t[i] = IF i <= Len(s) THEN s[i] ELSE u[i - Len(s)]
  BY <1>1, ConcatProperties DEF u
<1>3. Len(u) = 2 /\ u[1] = a /\ u[2] = b /\ Len(s) \in Nat
  BY <1>1 DEF u
<1> HIDE DEF t
<1>4. /\ t \in Seq(S) /\ Len(t) = Len(s) + 2
      /\ \A i \in 1..Len(s) : t[i] = s[i]
      /\ t[Len(s) + 1] = a /\ t[Len(s) + 2] = b
  BY <1>2, <1>3
<1> QED
  BY <1>4 DEF t, u

LEMMA MarkedLine ==
    ASSUME NEW k \in Nat, k + 1 <= Len(Listing), NEW m, Marked(m, k),
           NEW r, r = MarkLine(m, Listing[k + 1])
    PROVE  Marked(r, k + 1)
<1> DEFINE line == Listing[k + 1]
<1>1. k + 1 \in 1..Len(Listing) /\ line \in Lines /\ Len(Listing) \in Nat
  BY SessionAssumption
<1>2. /\ line.kind \in {"label", "ret"} /\ line.addr \in Nat /\ line.func \in Funcs
      /\ k = 0 => line.kind = "label"
  <2>1. line.kind \in {"label", "ret"} /\ line.addr \in Nat /\ line.func \in Funcs
    <3>1. line.kind \in {"label", "ret"} /\ line.addr \in Nat
      BY <1>1 DEF Lines
    <3>2. k + 1 \in DOMAIN Listing
      BY <1>1, SessionAssumption
    <3>3. line.func \in Funcs
      BY <3>2 DEF Funcs
    <3> QED
      BY <3>1, <3>3
  <2>2. k = 0 => line.kind = "label"
    <3>1. Listing # << >>
      BY <1>1, SessionAssumption
    <3> QED
      BY <3>1, SessionAssumption
  <2> QED
    BY <2>1, <2>2
<1> DEFINE In == m.input
<1> DEFINE Out == m.response
<1>3. /\ m = [input |-> In, response |-> Out, func |-> m.func, start |-> m.start]
      /\ In \in Seq(Nat) /\ Out \in Seq(Symbol) /\ m.func \in Funcs /\ m.start \in Nat
      /\ Len(In) \in Nat /\ Len(Out) = Len(In)
  BY DEF Marked
<1>4. \A i \in 1..Len(In) :
        \E l \in 1..k : \E f \in 1..l :
          In[i] = Listing[l].addr /\ LabelOf(f, l) /\ Out[i] = Named(f, l)
  BY DEF Marked
<1>5. \A l \in 1..k : l \in 1..(k + 1)
  OBVIOUS
<1>6. CASE line.kind = "label"
  <2>1. r = [m EXCEPT !.func = line.func, !.start = line.addr]
    BY <1>6 DEF MarkLine
  <2>2. r = [input |-> In, response |-> Out, func |-> line.func, start |-> line.addr]
    BY <1>3, <2>1
  <2>3. k + 1 \in 1..(k + 1) /\ LabelOf(k + 1, k + 1)
    BY <1>6 DEF LabelOf
  <2>4. /\ r \in [input: Seq(Nat), response: Seq(Symbol), func: Funcs, start: Nat]
        /\ r.input = In /\ r.response = Out /\ r.func = line.func /\ r.start = line.addr
    BY <1>2, <1>3, <2>2
  <2> HIDE DEF In, Out
  <2> QED
    BY <1>3, <1>4, <1>5, <2>3, <2>4 DEF Marked
<1>7. CASE line.kind = "ret"
  <2>1. PICK f \in 1..k : /\ LabelOf(f, k)
                          /\ m.func = Listing[f].func /\ m.start = Listing[f].addr
    BY <1>2, <1>7 DEF Marked
  <2> DEFINE a == [name |-> m.func, type |-> "start"]
  <2> DEFINE b == [name |-> m.func, type |-> "end"]
  <2> DEFINE In2 == In \o <<m.start, line.addr>>
  <2> DEFINE Out2 == Out \o <<a, b>>
  <2>2. r = [m EXCEPT !.input = In2, !.response = Out2]
    BY <1>7 DEF MarkLine
  <2>3. r = [input |-> In2, response |-> Out2, func |-> m.func, start |-> m.start]
    BY <1>3, <2>2
  <2>4. a \in Symbol /\ b \in Symbol
    BY <1>3 DEF Symbol
  <2>5. /\ a = Named(f, f) /\ b = Named(f, k + 1)
    BY <2>1 DEF Named
  <2>6. /\ LabelOf(f, f) /\ LabelOf(f, k + 1)
    <3>1. \A j \in (f + 1)..(k + 1) : j \in (f + 1)..k \/ j = k + 1
      OBVIOUS
    <3>2. LabelOf(f, k + 1)
      BY <1>7, <2>1, <3>1 DEF LabelOf
    <3>3. LabelOf(f, f)
      BY <2>1 DEF LabelOf
    <3> QED
      BY <3>2, <3>3
  <2> HIDE DEF a, b, In, Out
  <2>7. /\ In2 \in Seq(Nat) /\ Len(In2) = Len(In) + 2
        /\ \A i \in 1..Len(In) : In2[i] = In[i]
        /\ In2[Len(In) + 1] = m.start /\ In2[Len(In) + 2] = line.addr
    <3> HIDE DEF line
    <3> QED
      BY <1>2, <1>3, TwoMore
  <2>8. /\ Out2 \in Seq(Symbol) /\ Len(Out2) = Len(In) + 2
        /\ \A i \in 1..Len(In) : Out2[i] = Out[i]
        /\ Out2[Len(In) + 1] = a /\ Out2[Len(In) + 2] = b
    <3>1. /\ Out2 \in Seq(Symbol) /\ Len(Out2) = Len(Out) + 2
          /\ \A i \in 1..Len(Out) : Out2[i] = Out[i]
          /\ Out2[Len(Out) + 1] = a /\ Out2[Len(Out) + 2] = b
      <4> DEFINE Sy == Symbol
      <4>1. Out \in Seq(Sy) /\ a \in Sy /\ b \in Sy
        BY <1>3, <2>4
      <4> HIDE DEF Sy
      <4>2. /\ Out2 \in Seq(Sy) /\ Len(Out2) = Len(Out) + 2
            /\ \A i \in 1..Len(Out) : Out2[i] = Out[i]
            /\ Out2[Len(Out) + 1] = a /\ Out2[Len(Out) + 2] = b
        BY <4>1, TwoMore
      <4> QED
        BY <4>2 DEF Sy
    <3> QED
      BY <1>3, <3>1
  <2> HIDE DEF In2, Out2
  <2>9. ASSUME NEW i \in 1..Len(In2)
        PROVE  \E l \in 1..(k + 1) : \E g \in 1..l :
                 In2[i] = Listing[l].addr /\ LabelOf(g, l) /\ Out2[i] = Named(g, l)
    <3>1. i \in 1..Len(In) \/ i = Len(In) + 1 \/ i = Len(In) + 2
      BY <1>3, <2>7
    <3>2. CASE i \in 1..Len(In)
      BY <1>4, <1>5, <2>7, <2>8, <3>2
    <3>3. CASE i = Len(In) + 1
      <4>1. f \in 1..(k + 1) /\ f \in 1..f
        OBVIOUS
      <4> QED
        BY <2>1, <2>5, <2>6, <2>7, <2>8, <3>3, <4>1
    <3>4. CASE i = Len(In) + 2
      <4>1. k + 1 \in 1..(k + 1) /\ f \in 1..(k + 1)
        OBVIOUS
      <4> QED
        BY <2>5, <2>6, <2>7, <2>8, <3>4, <4>1
    <3> QED
      BY <3>1, <3>2, <3>3, <3>4
  <2>10. /\ r \in [input: Seq(Nat), response: Seq(Symbol), func: Funcs, start: Nat]
         /\ r.input = In2 /\ r.response = Out2 /\ r.func = m.func /\ r.start = m.start
    BY <1>3, <2>3, <2>7, <2>8
  <2>11. f \in 1..(k + 1)
    OBVIOUS
  <2> QED
    BY <2>1, <2>6, <2>7, <2>8, <2>9, <2>10, <2>11 DEF Marked
<1> QED
  BY <1>2, <1>6, <1>7

LEMMA MarkMarked == Marked(mark, Len(Listing))
<1> DEFINE S == {k \in Nat : k <= Len(Listing) => Marked(Marking[k], k)}
<1>1. Len(Listing) \in Nat
  BY SessionAssumption
<1>2. 0 \in S
  <2>1. Marked(NoLine, 0)
    <3>1. /\ NoLine.input = << >> /\ NoLine.response = << >> /\ Len(<< >>) = 0
          /\ << >> \in Seq(Nat) /\ << >> \in Seq(Symbol) /\ 0 \in Nat /\ "" \in Funcs
      <4>1. NoLine.input = << >> /\ NoLine.response = << >>
        BY DEF NoLine
      <4>2. Len(<< >>) = 0 /\ << >> \in Seq(Nat) /\ << >> \in Seq(Symbol)
        BY EmptySeq
      <4>3. 0 \in Nat /\ "" \in Funcs
        BY DEF Funcs
      <4> QED
        BY <4>1, <4>2, <4>3, Zenon
    <3>2. NoLine \in [input: Seq(Nat), response: Seq(Symbol), func: Funcs, start: Nat]
      BY <3>1 DEF NoLine
    <3>3. Len(NoLine.input) = 0 /\ Len(NoLine.response) = 0
      BY <3>1
    <3>4. \A i \in 1..Len(NoLine.input) : FALSE
      BY <3>3
    <3> QED
      BY <3>2, <3>3, <3>4, Zenon DEF Marked
  <2> QED
    BY <2>1, MarkingIs
<1>3. ASSUME NEW k \in Nat, k \in S
      PROVE  k + 1 \in S
  <2> SUFFICES ASSUME k + 1 <= Len(Listing)
               PROVE  Marked(Marking[k + 1], k + 1)
    OBVIOUS
  <2>1. Marked(Marking[k], k) /\ k + 1 \in 1..Len(Listing) /\ k + 1 - 1 = k
    BY <1>1, <1>3
  <2>2. Marking[k + 1] = MarkLine(Marking[k], Listing[k + 1])
    BY <2>1, MarkingIs
  <2> QED
    BY <2>1, <2>2, MarkedLine
<1>4. \A k \in Nat : k \in S
  <2> HIDE DEF S
  <2> QED
    BY <1>2, <1>3, NatStep
<1> QED
  BY <1>1, <1>4, MarkIs

\* The name of an entry is what its address means.
LEMMA ListsAgree ==
    /\ mark.input \in Seq(Nat) /\ Len(mark.input) \in Nat
    /\ DOMAIN mark.response = 1..Len(mark.input)
    /\ Addresses \subseteq Nat /\ mark.input \in Seq(Addresses)
    /\ \A pc \in Addresses : \E i \in 1..Len(mark.input) : mark.input[i] = pc
    /\ \A i \in 1..Len(mark.input) : mark.response[i] = Meaning(mark.input[i])
<1> DEFINE In == mark.input
<1> DEFINE Out == mark.response
<1>1. /\ In \in Seq(Nat) /\ Len(In) \in Nat /\ Out \in Seq(Symbol) /\ Len(Out) = Len(In)
      /\ \A i \in 1..Len(In) :
           \E l \in 1..Len(Listing) : \E f \in 1..l :
             In[i] = Listing[l].addr /\ LabelOf(f, l) /\ Out[i] = Named(f, l)
  BY MarkMarked DEF Marked
<1>2. Addresses = {In[i] : i \in 1..Len(In)}
  BY <1>1 DEF Addresses, Range
<1> HIDE DEF In, Out
<1>3. In \in Seq(Addresses)
  <2>1. In \in [1..Len(In) -> Addresses]
    BY <1>1, <1>2
  <2> QED
    BY <1>1, <2>1
<1>4. ASSUME NEW i \in 1..Len(In)
      PROVE  Out[i] = Meaning(In[i])
  <2>1. PICK l \in 1..Len(Listing) : \E f \in 1..l :
                In[i] = Listing[l].addr /\ LabelOf(f, l) /\ Out[i] = Named(f, l)
    BY <1>1
  <2>2. PICK f \in 1..l : In[i] = Listing[l].addr /\ LabelOf(f, l) /\ Out[i] = Named(f, l)
    BY <2>1
  <2> DEFINE pc == In[i]
  <2> DEFINE l2 == CHOOSE j \in DOMAIN Listing : Listing[j].addr = pc
  <2>3. DOMAIN Listing = 1..Len(Listing) /\ Len(Listing) \in Nat
    BY SessionAssumption
  <2>4. l2 \in 1..Len(Listing) /\ Listing[l2].addr = pc
    BY <2>2, <2>3
  <2>5. l2 = l
    <3>1. ASSUME NEW j \in 1..Len(Listing)
          PROVE  Listing[j].addr \in Nat
      <4>1. Listing[j] \in Lines
        BY <2>3, SessionAssumption
      <4> QED
        BY <4>1 DEF Lines
    <3>2. \A j, k \in 1..Len(Listing) : j < k => Listing[j].addr < Listing[k].addr
      BY <2>3, SessionAssumption
    <3> HIDE DEF l2
    <3> QED
      BY <2>2, <2>3, <2>4, <3>1, <3>2
  <2> DEFINE P(g) == /\ Listing[g].kind = "label"
                     /\ \A k \in (g + 1)..l : Listing[k].kind = "ret"
  <2> DEFINE f2 == CHOOSE g \in 1..l : P(g)
  <2>6. f2 \in 1..l /\ P(f2)
    BY <2>2 DEF LabelOf
  <2>7. f2 = f
    <3>1. LabelOf(f2, l)
      BY <2>6 DEF LabelOf
    <3> HIDE DEF f2
    <3>2. ASSUME NEW g \in 1..l, NEW h \in 1..l, LabelOf(g, l), LabelOf(h, l), g < h
          PROVE  FALSE
      <4> DEFINE L == l
      <4>1. g \in 1..L /\ h \in 1..L /\ L \in Int
        BY <2>3
      <4> HIDE DEF L
      <4>2. h \in (g + 1)..L
        BY <3>2, <4>1
      <4> QED
        BY <3>2, <4>2 DEF LabelOf, L
    <3>3. ~(f2 < f) /\ ~(f < f2)
      BY <2>2, <2>6, <3>1, <3>2
    <3> QED
      BY <2>6, <3>3
  <2>8. Meaning(pc) = [name |-> Listing[f2].func, type |-> IF f2 = l THEN "start" ELSE "end"]
    <3>1. Meaning(pc) = LET g == CHOOSE g \in 1..l2 : /\ Listing[g].kind = "label"
                                                      /\ \A k \in (g + 1)..l2 : Listing[k].kind = "ret"
                        IN  [name |-> Listing[g].func, type |-> IF g = l2 THEN "start" ELSE "end"]
      BY DEF Meaning
    <3> HIDE DEF l2
    <3> QED
      BY <2>5, <3>1
  <2> QED
    BY <2>2, <2>7, <2>8 DEF Named
<1>5. Addresses \subseteq Nat /\ \A pc \in Addresses : \E i \in 1..Len(In) : In[i] = pc
  BY <1>1, <1>2
<1>6. DOMAIN Out = 1..Len(In)
  BY <1>1
<1> QED
  BY <1>1, <1>3, <1>4, <1>5, <1>6 DEF In, Out

-----------------------------------------------------------------------------
(* The tracer.                                                             *)

LEMMA Quotient ==
    ASSUME NEW n \in Nat, NEW b \in Nat \ {0}
    PROVE  n \div b \in 0..n
<1> DEFINE q == n \div b
<1>1. q \in Int /\ b * q <= n /\ n < b * q + b
  OBVIOUS
<1> HIDE DEF q
<1>2. q >= 0
  <2> SUFFICES ASSUME q < 0 PROVE FALSE
    BY <1>1
  <2>1. b * (q + 1) <= 0
    BY <1>1
  <2>2. b * (q + 1) = b * q + b
    BY <1>1
  <2> QED
    BY <1>1, <2>1, <2>2
<1>3. q <= b * q
  BY <1>1, <1>2
<1>4. q \in 0..n
  BY <1>1, <1>2, <1>3
<1> QED
  BY <1>4 DEF q

\* A symbol that is in the table is found, at a place that holds it.
LEMMA LookupFinds ==
    ASSUME NEW table, Len(table) \in Nat, DOMAIN table = 1..Len(table),
           NEW pc, U!Known(table, pc)
    PROVE  /\ U!Lookup(table, pc) \in 0..(Len(table) - 1)
           /\ table[U!Lookup(table, pc) + 1] = pc
<1> DEFINE N == Len(table)
<1> DEFINE B(k) == U!BankOf(k)
<1> DEFINE Match == {k \in 1..N : table[k] = pc}
<1>1. N \in Nat /\ Match # {} /\ Match \subseteq 1..N
  BY DEF U!Known
<1>2. \A k \in 1..N : B(k) \in Nat /\ B(k) <= N
  <2> SUFFICES ASSUME NEW k \in 1..N PROVE B(k) \in Nat /\ B(k) <= N
    OBVIOUS
  <2>1. k - 1 \in Nat /\ BankSize \in Nat \ {0} /\ k - 1 <= N
    BY <1>1, SessionAssumption
  <2>2. (k - 1) \div BankSize \in 0..(k - 1)
    BY <2>1, Quotient
  <2>3. B(k) = (k - 1) \div BankSize
    BY DEF U!BankOf, U!Index
  <2> HIDE DEF B, N
  <2> QED
    BY <1>1, <2>1, <2>2, <2>3
<1> HIDE DEF B, N
<1> DEFINE Z == {N - B(k) : k \in Match}
<1>3. Z \subseteq Nat /\ Z # {}
  BY <1>1, <1>2
<1>4. PICK z \in Z : \A y \in Z : z <= y
  <2> HIDE DEF Z
  <2> QED
    BY <1>3, NatMin
<1>5. PICK k0 \in Match : z = N - B(k0)
  OBVIOUS
<1>6. \A k \in Match : N - B(k) \in Z
  OBVIOUS
<1>7. \A k \in Match : B(k) <= B(k0) /\ B(k) \in Nat /\ B(k0) \in Nat
  <2> HIDE DEF Z
  <2> QED
    BY <1>1, <1>2, <1>4, <1>5, <1>6
<1> DEFINE Top == {k \in Match : B(k) = B(k0)}
<1>8. Top \subseteq Nat /\ Top # {}
  BY <1>1, <1>5
<1>9. PICK i \in Top : \A k \in Top : i <= k
  <2> HIDE DEF Top
  <2> QED
    BY <1>8, NatMin
<1> DEFINE Best(j) == /\ table[j] = pc
                      /\ \A k \in DOMAIN table :
                           table[k] = pc => \/ B(k) < B(j)
                                            \/ B(k) = B(j) /\ j <= k
<1>10. i \in DOMAIN table /\ Best(i)
  <2>1. i \in 1..N /\ table[i] = pc /\ B(i) = B(k0)
    BY <1>1, <1>9
  <2>2. ASSUME NEW k \in 1..N, table[k] = pc
        PROVE  B(k) < B(i) \/ (B(k) = B(i) /\ i <= k)
    <3>1. k \in Match /\ (B(k) = B(k0) => k \in Top)
      BY <2>2
    <3> HIDE DEF Match, Top
    <3> QED
      BY <1>7, <1>9, <2>1, <3>1
  <2> QED
    BY <2>1, <2>2 DEF N
<1> DEFINE c == CHOOSE j \in DOMAIN table : Best(j)
<1>11. c \in DOMAIN table /\ Best(c)
  BY <1>10
<1>12. U!Lookup(table, pc) = c - 1
  BY DEF U!Lookup, U!Index, B
<1>13. c \in 1..N /\ table[c] = pc
  BY <1>11 DEF N
<1> HIDE DEF c
<1> QED
  BY <1>1, <1>12, <1>13 DEF N

Grown(s, t, x) == /\ Len(t) = Len(s) + 1 /\ t[Len(t)] = x
                  /\ \A i \in 1..Len(s) : t[i] = s[i]
Shrunk(s, t) == /\ Len(s) >= 1 /\ Len(t) = Len(s) - 1
                /\ \A i \in 1..Len(t) : t[i] = s[i + 1]

LEMMA Grows ==
    ASSUME NEW S, NEW s \in Seq(S), NEW x \in S
    PROVE  Append(s, x) \in Seq(S) /\ Grown(s, Append(s, x), x) /\ Len(s) \in Nat
BY AppendProperties DEF Grown

LEMMA Shrinks ==
    ASSUME NEW S, NEW s \in Seq(S), s # << >>
    PROVE  /\ Tail(s) \in Seq(S) /\ Shrunk(s, Tail(s)) /\ Len(s) \in Nat \ {0}
           /\ Head(s) = s[1] /\ s[1] \in S
<1>1. Len(s) \in Nat \ {0}
  BY EmptySeq
<1>2. Head(s) = s[1] /\ s[1] \in S
  BY <1>1
<1>3. /\ Tail(s) \in Seq(S) /\ Len(Tail(s)) = Len(s) - 1
      /\ \A i \in 1..Len(Tail(s)) : Tail(s)[i] = s[i + 1]
  BY HeadTailProperties
<1> QED
  BY <1>1, <1>2, <1>3 DEF Shrunk

LEMMA ShrunkIs ==
    ASSUME NEW s, NEW t, Len(s) \in Nat, Shrunk(s, t)
    PROVE  /\ 1 \in 1..Len(s) /\ Len(t) = Len(s) - 1 /\ Len(t) \in Nat
           /\ \A i \in 1..Len(t) : i + 1 \in 1..Len(s) /\ t[i] = s[i + 1]
BY DEF Shrunk

Joined(a, b, s) ==
    /\ Len(a) \in Nat /\ Len(b) \in Nat /\ Len(s) = Len(a) + Len(b)
    /\ \A i \in 1..Len(a) : s[i] = a[i]
    /\ \A i \in 1..Len(b) : s[Len(a) + i] = b[i]
    /\ \A i \in 1..Len(s) : i \in 1..Len(a) \/ \E j \in 1..Len(b) : i = Len(a) + j

LEMMA ConcatIs ==
    ASSUME NEW S, NEW a \in Seq(S), NEW b \in Seq(S)
    PROVE  a \o b \in Seq(S) /\ Joined(a, b, a \o b)
<1> DEFINE s == a \o b
<1>1. Len(a) \in Nat /\ Len(b) \in Nat
  OBVIOUS
<1>2. /\ s \in Seq(S) /\ Len(s) = Len(a) + Len(b)
      /\ \A i \in 1..(Len(a) + Len(b)) : s[i] = IF i <= Len(a) THEN a[i] ELSE b[i - Len(a)]
  BY ConcatProperties
<1> HIDE DEF s
<1>3. \A i \in 1..Len(a) : s[i] = a[i]
  BY <1>1, <1>2
<1>4. ASSUME NEW i \in 1..Len(b)
      PROVE  s[Len(a) + i] = b[i]
  <2> DEFINE k == Len(a) + i
  <2>1. k \in 1..(Len(a) + Len(b)) /\ ~(k <= Len(a)) /\ k - Len(a) = i
    BY <1>1
  <2> QED
    BY <1>2, <2>1
<1>5. ASSUME NEW i \in 1..Len(s)
      PROVE  i \in 1..Len(a) \/ \E j \in 1..Len(b) : i = Len(a) + j
  <2>1. CASE i <= Len(a)
    BY <1>1, <2>1
  <2>2. CASE ~(i <= Len(a))
    <3> DEFINE j == i - Len(a)
    <3>1. j \in 1..Len(b) /\ i = Len(a) + j
      BY <1>1, <1>2, <2>2
    <3> QED
      BY <3>1
  <2> QED
    BY <2>1, <2>2
<1>6. s \in Seq(S) /\ Joined(a, b, s)
  BY <1>1, <1>2, <1>3, <1>4, <1>5 DEF Joined
<1> QED
  BY <1>6 DEF s

LEMMA EmptyIs == \A S : << >> \in Seq(S) /\ Len(<< >>) = 0
BY EmptySeq

\* The fields of a unit.
LEMMA UnitIs ==
    ASSUME NEW u \in Units
    PROVE  /\ u = [table |-> u.table, running |-> u.running, flight |-> u.flight,
                   perfs |-> u.perfs, symbols |-> u.symbols]
           /\ u.table \in Seq(Addresses) /\ u.running \in {0, 1} /\ u.flight \in Seq(Hit)
           /\ u.perfs \in Seq(Time) /\ u.symbols \in Seq(Nat)
           /\ Len(u.table) \in Nat /\ Len(u.flight) \in Nat
           /\ Len(u.perfs) \in Nat /\ Len(u.symbols) \in Nat
BY DEF Units

LEMMA EmptyUnit ==
    /\ U!Empty \in Units /\ U!Empty.table = << >> /\ U!Empty.running = 0
    /\ U!Empty.flight = << >> /\ U!Empty.perfs = << >> /\ U!Empty.symbols = << >>
BY EmptyIs DEF U!Empty, Units

LEMMA AddSymbolIs ==
    ASSUME NEW u \in Units, NEW a \in Addresses, NEW v, v = U!AddSymbol(u, a)
    PROVE  /\ v \in Units /\ v.running = u.running /\ v.flight = u.flight
           /\ v.perfs = u.perfs /\ v.symbols = u.symbols
           /\ IF Len(u.table) < Size THEN Grown(u.table, v.table, a) ELSE v.table = u.table
<1>1. CASE Len(u.table) < Size
  <2>1. v = [u EXCEPT !.table = Append(@, a)]
    BY <1>1 DEF U!AddSymbol
  <2> DEFINE T == Append(u.table, a)
  <2>2. v = [table |-> T, running |-> u.running, flight |-> u.flight,
             perfs |-> u.perfs, symbols |-> u.symbols]
    BY <2>1, UnitIs
  <2>3. T \in Seq(Addresses) /\ Grown(u.table, T, a)
    BY UnitIs, Grows
  <2> HIDE DEF T
  <2> QED
    BY <1>1, <2>2, <2>3, UnitIs DEF Units
<1>2. CASE ~(Len(u.table) < Size)
  BY <1>2 DEF U!AddSymbol
<1> QED
  BY <1>1, <1>2

LEMMA SetRunningIs ==
    ASSUME NEW u \in Units, NEW v, v = U!SetRunning(u)
    PROVE  /\ v \in Units /\ v.running = 1 /\ v.table = u.table /\ v.flight = u.flight
           /\ v.perfs = u.perfs /\ v.symbols = u.symbols
<1>1. v = [table |-> u.table, running |-> 1, flight |-> u.flight,
           perfs |-> u.perfs, symbols |-> u.symbols]
  BY UnitIs DEF U!SetRunning
<1> QED
  BY <1>1, UnitIs DEF Units

HitOf(time, id) == [perf |-> time, symbol |-> id]
LEMMA HitIs ==
    \A time \in Time, id \in Nat : /\ HitOf(time, id) \in Hit /\ HitOf(time, id).perf = time
                                  /\ HitOf(time, id).symbol = id
BY DEF HitOf, Hit

LEMMA SeeIs ==
    ASSUME NEW u \in Units, NEW pc \in Addresses, NEW t \in Time, NEW v, v = U!See(u, pc, t)
    PROVE  /\ v \in Units /\ v.running = u.running /\ v.table = u.table
           /\ v.perfs = u.perfs /\ v.symbols = u.symbols
           /\ U!Known(u.table, pc) =>
                Grown(u.flight, v.flight, HitOf(t, U!Lookup(u.table, pc)))
           /\ ~U!Known(u.table, pc) => v.flight = u.flight
<1>1. CASE U!Known(u.table, pc)
  <2> DEFINE h == HitOf(t, U!Lookup(u.table, pc))
  <2> DEFINE F == Append(u.flight, h)
  <2>1. v = [u EXCEPT !.flight = Append(@, h)]
    BY <1>1 DEF U!See, HitOf
  <2>2. v = [table |-> u.table, running |-> u.running, flight |-> F,
             perfs |-> u.perfs, symbols |-> u.symbols]
    BY <2>1, UnitIs
  <2>3. DOMAIN u.table = 1..Len(u.table) /\ Len(u.table) \in Nat
    BY UnitIs
  <2>4. U!Lookup(u.table, pc) \in Nat
    BY <1>1, <2>3, LookupFinds
  <2>5. h \in Hit
    BY <2>4, HitIs
  <2> HIDE DEF h
  <2>6. F \in Seq(Hit) /\ Grown(u.flight, F, h)
    BY <2>5, UnitIs, Grows
  <2> HIDE DEF F
  <2>7. v \in Units
    BY <2>2, <2>6, UnitIs DEF Units
  <2>8. Grown(u.flight, v.flight, h)
    BY <2>2, <2>6
  <2> QED
    BY <1>1, <2>2, <2>7, <2>8 DEF h
<1>2. CASE ~U!Known(u.table, pc)
  BY <1>2 DEF U!See
<1> QED
  BY <1>1, <1>2

\* Nothing else comes into a column.
Brings(s, t, x) == \A i \in 1..Len(t) : t[i] = x \/ \E j \in 1..Len(s) : t[i] = s[j]

LEMMA PushIs ==
    ASSUME NEW S, NEW s \in Seq(S), NEW x \in S, NEW t, t = U!Push(s, x)
    PROVE  /\ t \in Seq(S) /\ Len(t) < Depth
           /\ Len(s) + 1 < Depth => Grown(s, t, x)
           /\ Brings(s, t, x)
<1>1. Depth \in Nat \ {0} /\ Len(s) \in Nat
  BY SessionAssumption
<1>2. CASE Len(s) + 1 < Depth
  <2>1. t = Append(s, x)
    BY <1>2 DEF U!Push
  <2>2. t \in Seq(S) /\ Grown(s, t, x)
    BY <2>1, Grows
  <2>3. Len(t) = Len(s) + 1 /\ t[Len(s) + 1] = x /\ \A i \in 1..Len(s) : t[i] = s[i]
    BY <2>2 DEF Grown
  <2>4. \A i \in 1..Len(t) : i \in 1..Len(s) \/ i = Len(s) + 1
    BY <1>1, <2>3
  <2> QED
    BY <1>1, <1>2, <2>2, <2>3, <2>4 DEF Brings
<1>3. CASE ~(Len(s) + 1 < Depth)
  <2>1. t = << >>
    BY <1>3 DEF U!Push
  <2>2. t \in Seq(S) /\ Len(t) = 0
    BY <2>1, EmptyIs
  <2> QED
    BY <1>1, <1>3, <2>2 DEF Brings
<1> QED
  BY <1>2, <1>3

LEMMA RecordIs ==
    ASSUME NEW u \in Units, u.flight # << >>, NEW v, v = U!Record(u)
    PROVE  /\ v \in Units /\ v.running = u.running /\ v.table = u.table
           /\ Shrunk(u.flight, v.flight) /\ u.flight[1] \in Hit
           /\ IF u.running = 1
              THEN /\ v.perfs = U!Push(u.perfs, u.flight[1].perf)
                   /\ v.symbols = U!Push(u.symbols, u.flight[1].symbol)
              ELSE v.perfs = u.perfs /\ v.symbols = u.symbols
<1> DEFINE m == Head(u.flight)
<1> DEFINE F == Tail(u.flight)
<1> DEFINE P == IF u.running = 1 THEN U!Push(u.perfs, m.perf) ELSE u.perfs
<1> DEFINE Q == IF u.running = 1 THEN U!Push(u.symbols, m.symbol) ELSE u.symbols
<1>1. v = [u EXCEPT !.flight = F, !.perfs = P, !.symbols = Q]
  BY UnitIs DEF U!Record
<1>2. v = [table |-> u.table, running |-> u.running, flight |-> F, perfs |-> P, symbols |-> Q]
  BY <1>1, UnitIs
<1>3. F \in Seq(Hit) /\ Shrunk(u.flight, F) /\ m = u.flight[1] /\ m \in Hit
  BY UnitIs, Shrinks
<1>4. m.perf \in Time /\ m.symbol \in Nat
  BY <1>3 DEF Hit
<1> HIDE DEF F, m
<1>5. P \in Seq(Time) /\ Q \in Seq(Nat)
  BY <1>4, UnitIs, PushIs
<1>6. v \in Units
  <2> HIDE DEF P, Q
  <2> QED
    BY <1>2, <1>3, <1>5, UnitIs DEF Units
<1> QED
  BY <1>2, <1>3, <1>6

LEMMA PopPerfIs ==
    ASSUME NEW u \in Units, NEW v, v = U!PopPerf(u), NEW old \in Time
    PROVE  /\ v \in Units /\ v.running = u.running /\ v.table = u.table
           /\ v.flight = u.flight /\ v.symbols = u.symbols
           /\ U!HeadOr(u.perfs, old) \in Time
           /\ IF u.perfs = << >> THEN v.perfs = u.perfs /\ U!HeadOr(u.perfs, old) = old
              ELSE Shrunk(u.perfs, v.perfs) /\ U!HeadOr(u.perfs, old) = u.perfs[1]
<1> DEFINE P == IF u.perfs = << >> THEN u.perfs ELSE Tail(u.perfs)
<1>0. v = [u EXCEPT !.perfs = P]
  BY DEF U!PopPerf
<1>1. v = [table |-> u.table, running |-> u.running, flight |-> u.flight, perfs |-> P,
           symbols |-> u.symbols]
  <2> HIDE DEF P
  <2> QED
    BY <1>0, UnitIs
<1>2. /\ P \in Seq(Time)
      /\ u.perfs # << >> => Shrunk(u.perfs, P) /\ Head(u.perfs) = u.perfs[1] /\ u.perfs[1] \in Time
  BY UnitIs, Shrinks
<1>3. u.perfs = << >> => P = u.perfs
  OBVIOUS
<1> HIDE DEF P
<1>4. v \in Units
  BY <1>1, <1>2, UnitIs DEF Units
<1> QED
  BY <1>1, <1>2, <1>3, <1>4 DEF U!HeadOr

LEMMA PopSymbolIs ==
    ASSUME NEW u \in Units, NEW v, v = U!PopSymbol(u)
    PROVE  /\ v \in Units /\ v.running = u.running /\ v.table = u.table
           /\ v.flight = u.flight /\ v.perfs = u.perfs
           /\ IF u.symbols = << >> THEN v.symbols = u.symbols
              ELSE /\ Shrunk(u.symbols, v.symbols)
                   /\ Head(u.symbols) = u.symbols[1] /\ u.symbols[1] \in Nat
<1> DEFINE P == IF u.symbols = << >> THEN u.symbols ELSE Tail(u.symbols)
<1>0. v = [u EXCEPT !.symbols = P]
  BY DEF U!PopSymbol
<1>1. v = [table |-> u.table, running |-> u.running, flight |-> u.flight, perfs |-> u.perfs,
           symbols |-> P]
  <2> HIDE DEF P
  <2> QED
    BY <1>0, UnitIs
<1>2. /\ P \in Seq(Nat)
      /\ u.symbols # << >> => /\ Shrunk(u.symbols, P)
                              /\ Head(u.symbols) = u.symbols[1] /\ u.symbols[1] \in Nat
  BY UnitIs, Shrinks
<1>3. u.symbols = << >> => P = u.symbols
  OBVIOUS
<1> HIDE DEF P
<1>4. v \in Units
  BY <1>1, <1>2, UnitIs DEF Units
<1> QED
  BY <1>1, <1>2, <1>3, <1>4

-----------------------------------------------------------------------------
(* Types.                                                                  *)

LEMMA FrontIs ==
    ASSUME NEW S, NEW s \in Seq(S), s # << >>
    PROVE  Front(s) \in Seq(S) /\ Len(Front(s)) = Len(s) - 1
<1>1. Len(s) \in Nat \ {0}
  BY EmptySeq
<1> DEFINE n == Len(s) - 1
<1>2. n \in Nat /\ 1 <= n + 1 /\ n <= Len(s)
  BY <1>1
<1>3. SubSeq(s, 1, n) \in Seq(S) /\ Len(SubSeq(s, 1, n)) = IF 1 <= n THEN n - 1 + 1 ELSE 0
  <2> HIDE DEF n
  <2> QED
    BY <1>2, SubSeqProperties
<1>4. Front(s) = SubSeq(s, 1, n) /\ n = Len(s) - 1
  BY DEF Front
<1> HIDE DEF n
<1>5. Len(SubSeq(s, 1, n)) = n
  BY <1>2, <1>3
<1> QED
  BY <1>3, <1>4, <1>5

LEMMA Constants ==
    /\ Size \in Nat \ {0} /\ Depth \in Nat \ {0} /\ Latency \in Nat \ {0}
    /\ MaxRuns \in Nat /\ MaxReads \in Nat /\ MaxInits \in Nat /\ MaxCalls \in Nat
    /\ Addresses \subseteq Nat /\ mark.input \in Seq(Addresses)
BY SessionAssumption, ListsAgree

\* What is not a stamp.
LEMMA NoStampsAre ==
    /\ NoStamp \in Time /\ NoStamp.run = 0
    /\ \A id \in Nat : IdData(id) \in Time /\ IdData(id).run = 0 /\ IdData(id).n = id
BY DEF NoStamp, IdData, Time

LEMMA InitTyped == Init => Typed
<1> SUFFICES ASSUME Init PROVE Typed
  OBVIOUS
<1>1. UnitTyped
  BY EmptyUnit, EmptyIs, Constants, NoStampsAre DEF Init, UnitTyped
<1>2. CoreTyped
  <2>1. << >> \in Seq(Names) /\ Len(<< >>) = 0
    BY EmptyIs
  <2> QED
    BY <2>1, Constants DEF Init, CoreTyped, Cores
<1>3. ThreadsTyped
  <2>1. << >> \in Seq(Addresses) /\ << >> \in Seq(Got)
    BY EmptyIs
  <2>2. at \in [Threads -> Places]
    BY DEF Init, Places
  <2>3. todo \in [Threads -> Seq(Addresses)] /\ got \in [Threads -> Seq(Got)]
    BY <2>1 DEF Init
  <2>4. seen \in [Threads -> Time]
    BY NoStampsAre DEF Init
  <2> QED
    BY <2>2, <2>3, <2>4 DEF ThreadsTyped
<1>4. RequestsTyped
  BY Constants DEF Init, RequestsTyped
<1>6. HistoryTyped
  BY DEF Init, HistoryTyped
<1>5. PageTyped
  <2>1. << >> \in Seq(Got)
    BY EmptyIs
  <2> QED
    BY <2>1 DEF Init, PageTyped
<1> QED
  BY <1>1, <1>2, <1>3, <1>4, <1>5, <1>6 DEF Typed

\* A step of a thread from one place to another.
LEMMA Goes ==
    ASSUME at \in [Threads -> Places], NEW t \in Threads, NEW from, NEW to \in Places,
           Go(t, from, to)
    PROVE  /\ at' \in [Threads -> Places] /\ at[t] = from /\ at'[t] = to
           /\ \A x \in Threads : x # t => at'[x] = at[x]
BY DEF Go

\* What the core does when it enters or leaves a function at pc, and what the
\* tracer sees of it.
Stamp(pc) == [run |-> core.run, n |-> core.n + 1, pc |-> pc]
LEMMA CallDoes ==
    ASSUME Typed, Call
    PROVE  /\ core.held = FALSE /\ core.n < MaxCalls /\ core' \in Cores
           /\ core'.held = FALSE /\ core'.run = core.run /\ core'.n = core.n + 1
           /\ Len(core'.stack) <= core'.n
           /\ \E pc \in Addresses : /\ unit' = U!See(unit, pc, Stamp(pc)) /\ Stamp(pc) \in Time
                                    /\ Stamp(pc).run = core.run /\ Stamp(pc).n = core.n + 1
                                    /\ Stamp(pc).pc = pc
<1>1. PICK pc \in Addresses :
        /\ \/ core' = [core EXCEPT !.n = @ + 1, !.stack = Append(@, Meaning(pc).name)]
           \/ core.stack # << >> /\ core' = [core EXCEPT !.n = @ + 1, !.stack = Front(@)]
        /\ unit' = U!See(unit, pc, Stamp(pc))
  BY DEF Call, Stamp
<1>2. /\ core.held \in BOOLEAN /\ core.run \in Nat /\ core.n \in 0..MaxCalls
      /\ core.stack \in Seq(Names) /\ Len(core.stack) <= core.n
      /\ Len(core.stack) \in Nat
  BY DEF Typed, CoreTyped, Cores
<1>3. core.held = FALSE /\ core.n < MaxCalls /\ core.n + 1 \in 0..MaxCalls
  <2>1. core.held = FALSE /\ core.n < MaxCalls
    BY DEF Call
  <2>2. core.n \in 0..MaxCalls /\ MaxCalls \in Nat
    BY <1>2, Constants
  <2> QED
    BY <2>1, <2>2
<1>8. core = [held |-> core.held, run |-> core.run, n |-> core.n, stack |-> core.stack]
  BY DEF Typed, CoreTyped, Cores
<1>4. PICK s : /\ core' = [held |-> core.held, run |-> core.run, n |-> core.n + 1, stack |-> s]
               /\ s \in Seq(Names) /\ Len(s) <= core.n + 1
  <2>1. CASE core' = [core EXCEPT !.n = @ + 1, !.stack = Append(@, Meaning(pc).name)]
    <3>1. Meaning(pc).name \in Names
      BY <1>1 DEF Names
    <3> DEFINE s == Append(core.stack, Meaning(pc).name)
    <3>2. s \in Seq(Names) /\ Len(s) = Len(core.stack) + 1
      BY <1>2, <3>1, Grows DEF Grown
    <3>3. core' = [held |-> core.held, run |-> core.run, n |-> core.n + 1, stack |-> s]
      BY <1>8, <2>1
    <3> HIDE DEF s
    <3> QED
      BY <1>2, <3>2, <3>3
  <2>2. CASE core.stack # << >> /\ core' = [core EXCEPT !.n = @ + 1, !.stack = Front(@)]
    <3> DEFINE s == Front(core.stack)
    <3>1. s \in Seq(Names) /\ Len(s) = Len(core.stack) - 1
      BY <1>2, <2>2, FrontIs
    <3>2. core' = [held |-> core.held, run |-> core.run, n |-> core.n + 1, stack |-> s]
      BY <1>8, <2>2
    <3> HIDE DEF s
    <3> QED
      BY <1>2, <3>1, <3>2
  <2> QED
    BY <1>1, <2>1, <2>2
<1>5. core' = [held |-> core.held, run |-> core.run, n |-> core.n + 1, stack |-> s]
  BY <1>4
<1>6. core' \in Cores
  BY <1>2, <1>3, <1>4, <1>5 DEF Cores
<1>7. Stamp(pc) \in Time /\ Stamp(pc).run = core.run /\ Stamp(pc).n = core.n + 1
      /\ Stamp(pc).pc = pc
  BY <1>2, Constants DEF Stamp, Time
<1> QED
  BY <1>1, <1>3, <1>4, <1>5, <1>6, <1>7

\* What a step leaves alone keeps its type.
LEMMA Kept ==
    ASSUME Typed
    PROVE  /\ UNCHANGED tracer => UnitTyped'
           /\ UNCHANGED core => CoreTyped'
           /\ UNCHANGED threads => ThreadsTyped'
           /\ UNCHANGED requests => RequestsTyped'
           /\ UNCHANGED <<page, dropped>> => PageTyped'
           /\ UNCHANGED <<fresh, clean>> => HistoryTyped'
<1>1. UnitTyped /\ CoreTyped /\ ThreadsTyped /\ RequestsTyped /\ PageTyped /\ HistoryTyped
  BY DEF Typed
<1>2. UNCHANGED tracer => UnitTyped'
  BY <1>1 DEF UnitTyped, tracer
<1>3. UNCHANGED core => CoreTyped'
  BY <1>1 DEF CoreTyped
<1>4. UNCHANGED threads => ThreadsTyped'
  BY <1>1 DEF ThreadsTyped, threads
<1>5. UNCHANGED requests => RequestsTyped'
  BY <1>1 DEF RequestsTyped, requests
<1>6. UNCHANGED <<page, dropped>> => PageTyped'
  BY <1>1 DEF PageTyped
<1>7. UNCHANGED <<fresh, clean>> => HistoryTyped'
  BY <1>1 DEF HistoryTyped
<1> QED
  BY <1>2, <1>3, <1>4, <1>5, <1>6, <1>7

\* The board by itself.
LEMMA BoardTyped ==
    ASSUME Typed, Call \/ Record
    PROVE  Typed'
<1>1. CASE Call
  <2>1. CoreTyped'
    BY <1>1, CallDoes DEF CoreTyped
  <2>2. UnitTyped'
    <3>1. PICK pc \in Addresses, s \in Time : unit' = U!See(unit, pc, s)
      BY <1>1, CallDoes
    <3>4. unit \in Units
      BY DEF Typed, UnitTyped
    <3>2. /\ unit' \in Units /\ unit'.table = unit.table /\ unit'.perfs = unit.perfs
          /\ unit'.symbols = unit.symbols
      BY <3>1, <3>4, SeeIs
    <3>3. rdata' = rdata
      BY <1>1 DEF Call
    <3> QED
      BY <3>2, <3>3 DEF Typed, UnitTyped
  <2>3. UNCHANGED <<threads, requests, page, dropped, fresh, clean>>
    BY <1>1 DEF Call, history
  <2> QED
    BY <2>1, <2>2, <2>3, Kept DEF Typed
<1>2. CASE Record
  <2>1. UnitTyped'
    <3>1. /\ unit \in Units /\ unit.flight # << >> /\ unit' = U!Record(unit) /\ rdata' = rdata
      BY <1>2 DEF Record, Typed, UnitTyped
    <3>2. /\ unit' \in Units /\ unit'.table = unit.table
          /\ unit.flight[1].perf \in Time /\ unit.flight[1].symbol \in Nat
          /\ IF unit.running = 1
             THEN /\ unit'.perfs = U!Push(unit.perfs, unit.flight[1].perf)
                  /\ unit'.symbols = U!Push(unit.symbols, unit.flight[1].symbol)
             ELSE unit'.perfs = unit.perfs /\ unit'.symbols = unit.symbols
      BY <3>1, RecordIs DEF Hit
    <3>3. Len(unit'.perfs) < Depth /\ Len(unit'.symbols) < Depth
      <4>1. CASE unit.running = 1
        <5>1. unit.perfs \in Seq(Time) /\ unit.symbols \in Seq(Nat)
          BY <3>1, UnitIs
        <5> QED
          BY <4>1, <3>2, <5>1, PushIs
      <4>2. CASE unit.running # 1
        BY <4>2, <3>2 DEF Typed, UnitTyped
      <4> QED
        BY <4>1, <4>2
    <3> QED
      BY <3>1, <3>2, <3>3 DEF Typed, UnitTyped
  <2>2. UNCHANGED <<core, threads, requests, page, dropped, fresh, clean>>
    BY <1>2 DEF Record, history
  <2> QED
    BY <2>1, <2>2, Kept DEF Typed
<1> QED
  BY <1>1, <1>2

\* tools.run.
LEMMA RunTyped ==
    ASSUME Typed, NEW t \in Threads, Running(t)
    PROVE  Typed'
<1>0. /\ ThreadsTyped /\ CoreTyped /\ UnitTyped /\ RequestsTyped /\ PageTyped
      /\ {"idle", "hold", "symbols", "release", "ran"} \subseteq Places
  BY DEF Typed, Places
<1>1. CASE AskRun(t)
  <2>1. ThreadsTyped'
    <3>1. at' \in [Threads -> Places]
      BY <1>0, <1>1, Goes DEF AskRun, ThreadsTyped
    <3>2. todo' \in [Threads -> Seq(Addresses)] /\ UNCHANGED <<seen, got>>
      BY <1>0, <1>1, Constants DEF AskRun, ThreadsTyped
    <3> QED
      BY <1>0, <3>1, <3>2 DEF ThreadsTyped
  <2>2. RequestsTyped'
    BY <1>0, <1>1, Constants DEF AskRun, RequestsTyped
  <2>3. UNCHANGED <<tracer, core, page, dropped, fresh, clean>>
    BY <1>1 DEF AskRun, history
  <2> QED
    BY <2>1, <2>2, <2>3, Kept DEF Typed
<1>2. CASE HoldCore(t)
  <2>1. ThreadsTyped'
    <3>1. at' \in [Threads -> Places]
      BY <1>0, <1>2, Goes DEF HoldCore, ThreadsTyped
    <3> QED
      BY <1>0, <1>2, <3>1 DEF HoldCore, ThreadsTyped
  <2>2. CoreTyped'
    BY <1>0, <1>2 DEF HoldCore, CoreTyped, Cores
  <2>3. UNCHANGED <<tracer, requests, page, dropped, fresh, clean>>
    BY <1>2 DEF HoldCore, history
  <2> QED
    BY <2>1, <2>2, <2>3, Kept DEF Typed
<1>3. CASE WriteSymbol(t)
  <2>1. /\ todo[t] \in Seq(Addresses) /\ todo[t] # << >>
        /\ unit' = U!AddSymbol(unit, Head(todo[t])) /\ todo' = [todo EXCEPT ![t] = Tail(@)]
    BY <1>0, <1>3 DEF WriteSymbol, ThreadsTyped
  <2>2. Head(todo[t]) \in Addresses /\ Tail(todo[t]) \in Seq(Addresses)
    BY <2>1, Shrinks
  <2>3. UnitTyped'
    <3>1. unit \in Units /\ rdata' = rdata
      BY <1>0, <1>3 DEF UnitTyped, WriteSymbol
    <3>2. /\ unit' \in Units /\ unit'.perfs = unit.perfs /\ unit'.symbols = unit.symbols
          /\ IF Len(unit.table) < Size THEN Len(unit'.table) = Len(unit.table) + 1
             ELSE unit'.table = unit.table
      BY <2>1, <2>2, <3>1, AddSymbolIs DEF Grown
    <3>3. Len(unit.table) \in Nat /\ Size \in Nat
      BY <3>1, UnitIs, Constants
    <3> QED
      BY <1>0, <3>1, <3>2, <3>3 DEF UnitTyped
  <2>4. ThreadsTyped'
    BY <1>0, <1>3, <2>1, <2>2 DEF WriteSymbol, ThreadsTyped
  <2>5. UNCHANGED <<core, requests, page, dropped, fresh, clean>>
    BY <1>3 DEF WriteSymbol, history
  <2> QED
    BY <2>3, <2>4, <2>5, Kept DEF Typed
<1>4. CASE StartUnit(t)
  <2>1. ThreadsTyped'
    <3>1. at' \in [Threads -> Places]
      BY <1>0, <1>4, Goes DEF StartUnit, ThreadsTyped
    <3> QED
      BY <1>0, <1>4, <3>1 DEF StartUnit, ThreadsTyped
  <2>2. UnitTyped'
    <3>1. unit' = U!SetRunning(unit) /\ unit \in Units /\ rdata' = rdata
      BY <1>0, <1>4 DEF StartUnit, UnitTyped
    <3> QED
      BY <1>0, <3>1, SetRunningIs DEF UnitTyped
  <2>3. UNCHANGED <<core, requests, page, dropped, fresh, clean>>
    BY <1>4 DEF StartUnit, history
  <2> QED
    BY <2>1, <2>2, <2>3, Kept DEF Typed
<1>5. CASE ReleaseCore(t)
  <2>1. ThreadsTyped'
    <3>1. at' \in [Threads -> Places]
      BY <1>0, <1>5, Goes DEF ReleaseCore, ThreadsTyped
    <3> QED
      BY <1>0, <1>5, <3>1 DEF ReleaseCore, ThreadsTyped
  <2>2. CoreTyped'
    <3>1. core' = [held |-> FALSE, run |-> core.run + 1, n |-> 0, stack |-> << >>]
      BY <1>0, <1>5 DEF ReleaseCore, CoreTyped, Cores
    <3> DEFINE e == << >>
    <3>2. e \in Seq(Names) /\ Len(e) = 0 /\ core.run \in Nat
      BY <1>0, EmptyIs DEF CoreTyped, Cores
    <3>3. core' = [held |-> FALSE, run |-> core.run + 1, n |-> 0, stack |-> e]
      BY <3>1
    <3> HIDE DEF e
    <3> QED
      BY <3>2, <3>3, Constants DEF CoreTyped, Cores
  <2>3. PageTyped'
    <3>1. dropped' = << >> /\ page' = page
      BY <1>5 DEF ReleaseCore
    <3> QED
      BY <1>0, <3>1, EmptyIs DEF PageTyped
  <2>4. HistoryTyped'
    BY <1>5 DEF ReleaseCore, Typed, HistoryTyped
  <2>5. UNCHANGED <<tracer, requests>>
    BY <1>5 DEF ReleaseCore
  <2> QED
    BY <2>1, <2>2, <2>3, <2>4, <2>5, Kept DEF Typed
<1>6. CASE RunReply(t)
  <2>1. ThreadsTyped'
    <3>1. at' \in [Threads -> Places]
      BY <1>0, <1>6, Goes DEF RunReply, ThreadsTyped
    <3> QED
      BY <1>0, <1>6, <3>1 DEF RunReply, ThreadsTyped
  <2>2. PageTyped'
    <3>1. core.run \in Nat /\ page.perf \in Seq(Got) /\ dropped \in Seq(Got)
      BY <1>0 DEF CoreTyped, Cores, PageTyped
    <3>2. dropped \o page.perf \in Seq(Got)
      BY <3>1, ConcatProperties
    <3> DEFINE e == << >>
    <3>3. e \in Seq(Got)
      BY EmptyIs
    <3>4. /\ page' = [lut |-> mark.response, run |-> core.run, perf |-> e]
          /\ dropped' = dropped \o page.perf
      BY <1>6 DEF RunReply
    <3> HIDE DEF e
    <3> QED
      BY <3>1, <3>2, <3>3, <3>4 DEF PageTyped
  <2>3. UNCHANGED <<tracer, core, requests, fresh, clean>>
    BY <1>6 DEF RunReply
  <2> QED
    BY <2>1, <2>2, <2>3, Kept DEF Typed
<1> QED
  BY <1>1, <1>2, <1>3, <1>4, <1>5, <1>6 DEF Running

\* tools.read_trace.
LEMMA ReadTyped ==
    ASSUME Typed, NEW t \in Threads, Reading(t)
    PROVE  Typed'
<1>0. /\ ThreadsTyped /\ UnitTyped /\ RequestsTyped /\ PageTyped
      /\ {"idle", "avail", "perf", "symbol", "read"} \subseteq Places
  BY DEF Typed, Places
<1>1. CASE AskPerf(t)
  <2>1. ThreadsTyped'
    <3>1. at' \in [Threads -> Places]
      BY <1>0, <1>1, Goes DEF AskPerf, ThreadsTyped
    <3> QED
      BY <1>0, <1>1, <3>1 DEF AskPerf, ThreadsTyped
  <2>2. RequestsTyped'
    BY <1>0, <1>1, Constants DEF AskPerf, RequestsTyped
  <2>3. UNCHANGED <<tracer, core, page, dropped, fresh, clean>>
    BY <1>1 DEF AskPerf, history
  <2> QED
    BY <2>1, <2>2, <2>3, Kept DEF Typed
<1>2. CASE ReadAvail(t)
  <2>1. ThreadsTyped'
    BY <1>0, <1>2 DEF ReadAvail, ThreadsTyped
  <2>2. UnitTyped'
    <3>1. Len(unit.perfs) \in Nat
      BY <1>0, UnitIs DEF UnitTyped
    <3>2. rdata' \in Time /\ unit' = unit
      BY <1>2, <3>1, NoStampsAre DEF ReadAvail
    <3> QED
      BY <1>0, <3>2 DEF UnitTyped
  <2>3. UNCHANGED <<core, requests, page, dropped, fresh, clean>>
    BY <1>2 DEF ReadAvail, history
  <2> QED
    BY <2>1, <2>2, <2>3, Kept DEF Typed
<1>3. CASE ReadPerf(t)
  <2>1. unit \in Units /\ rdata \in Time /\ unit' = U!PopPerf(unit)
        /\ rdata' = U!HeadOr(unit.perfs, rdata)
    BY <1>0, <1>3 DEF ReadPerf, UnitTyped
  <2>2. /\ unit' \in Units /\ unit'.table = unit.table /\ unit'.symbols = unit.symbols
        /\ rdata' \in Time
        /\ unit'.perfs = unit.perfs \/ Shrunk(unit.perfs, unit'.perfs)
    BY <2>1, PopPerfIs
  <2>3. UnitTyped'
    BY <1>0, <2>2, UnitIs, Constants DEF UnitTyped, Shrunk
  <2>4. ThreadsTyped'
    <3>1. at' \in [Threads -> Places]
      BY <1>0, <1>3, Goes DEF ReadPerf, ThreadsTyped
    <3> QED
      BY <1>0, <1>3, <2>2, <3>1 DEF ReadPerf, ThreadsTyped
  <2>5. UNCHANGED <<core, requests, page, dropped, fresh, clean>>
    BY <1>3 DEF ReadPerf, history
  <2> QED
    BY <2>3, <2>4, <2>5, Kept DEF Typed
<1>4. CASE ReadSymbol(t)
  <2>1. /\ unit \in Units /\ rdata \in Time /\ unit' = U!PopSymbol(unit)
        /\ unit.symbols \in Seq(Nat)
    BY <1>0, <1>4, UnitIs DEF ReadSymbol, UnitTyped
  <2>2. /\ unit' \in Units /\ unit'.table = unit.table /\ unit'.perfs = unit.perfs
        /\ unit'.symbols = unit.symbols \/ Shrunk(unit.symbols, unit'.symbols)
        /\ unit.symbols # << >> => Head(unit.symbols) \in Nat
    BY <2>1, PopSymbolIs
  <2>3. rdata' \in Time /\ rdata'.n \in Nat
    <3>1. rdata' = IF unit.symbols = << >> THEN rdata ELSE IdData(Head(unit.symbols))
      BY <1>4 DEF ReadSymbol
    <3>2. rdata' \in Time
      BY <3>1, <2>1, <2>2, NoStampsAre
    <3> QED
      BY <3>2 DEF Time
  <2>4. UnitTyped'
    <3>1. Len(unit.symbols) \in Nat /\ Len(unit.symbols) < Depth /\ Depth \in Nat
      BY <1>0, <2>1, UnitIs, Constants DEF UnitTyped
    <3>2. Len(unit'.symbols) < Depth
      BY <2>2, <3>1 DEF Shrunk
    <3> QED
      BY <1>0, <2>2, <2>3, <3>2 DEF UnitTyped
  <2>5. ThreadsTyped'
    <3>1. at' \in [Threads -> Places]
      BY <1>0, <1>4, Goes DEF ReadSymbol, ThreadsTyped
    <3>2. seen' \in [Threads -> Time] /\ todo' = todo
      BY <1>0, <1>4, NoStampsAre DEF ReadSymbol, ThreadsTyped
    <3>3. got' \in [Threads -> Seq(Got)]
      <4> DEFINE x == [id |-> rdata'.n, t |-> seen[t]]
      <4>1. x \in Got /\ got[t] \in Seq(Got)
        BY <1>0, <2>3 DEF Got, ThreadsTyped
      <4>2. got' = [got EXCEPT ![t] = Append(got[t], x)]
        BY <1>4 DEF ReadSymbol
      <4> HIDE DEF x
      <4>3. Append(got[t], x) \in Seq(Got)
        BY <4>1, Grows
      <4> QED
        BY <1>0, <4>2, <4>3 DEF ThreadsTyped
    <3> QED
      BY <1>0, <3>1, <3>2, <3>3 DEF ThreadsTyped
  <2>6. UNCHANGED <<core, requests, page, dropped, fresh, clean>>
    BY <1>4 DEF ReadSymbol, history
  <2> QED
    BY <2>4, <2>5, <2>6, Kept DEF Typed
<1>5. CASE PerfReply(t)
  <2>1. ThreadsTyped'
    <3>1. at' \in [Threads -> Places]
      BY <1>0, <1>5, Goes DEF PerfReply, ThreadsTyped
    <3>2. got' \in [Threads -> Seq(Got)] /\ UNCHANGED <<todo, seen>>
      BY <1>0, <1>5, EmptyIs DEF PerfReply, ThreadsTyped
    <3> QED
      BY <1>0, <3>1, <3>2 DEF ThreadsTyped
  <2>2. PageTyped'
    <3>1. page.perf \in Seq(Got) /\ got[t] \in Seq(Got)
      BY <1>0 DEF PageTyped, ThreadsTyped
    <3> DEFINE s == page.perf \o got[t]
    <3>2. s \in Seq(Got)
      BY <3>1, ConcatProperties
    <3>3. page' = [page EXCEPT !.perf = s] /\ dropped' = dropped
      BY <1>5 DEF PerfReply, history
    <3> HIDE DEF s
    <3> QED
      BY <1>0, <3>2, <3>3 DEF PageTyped
  <2>3. UNCHANGED <<tracer, core, requests, fresh, clean>>
    BY <1>5 DEF PerfReply, history
  <2> QED
    BY <2>1, <2>2, <2>3, Kept DEF Typed
<1> QED
  BY <1>1, <1>2, <1>3, <1>4, <1>5 DEF Reading

\* tools.init.
LEMMA StartTyped ==
    ASSUME Typed, NEW t \in Threads, Starting(t)
    PROVE  Typed'
<1>0. ThreadsTyped /\ CoreTyped /\ RequestsTyped /\ {"idle", "overlay"} \subseteq Places
  BY DEF Typed, Places
<1>1. CASE AskInit(t)
  <2>1. ThreadsTyped'
    <3>1. at' \in [Threads -> Places]
      BY <1>0, <1>1, Goes DEF AskInit, ThreadsTyped
    <3> QED
      BY <1>0, <1>1, <3>1 DEF AskInit, ThreadsTyped
  <2>2. RequestsTyped'
    BY <1>0, <1>1, Constants DEF AskInit, RequestsTyped
  <2>3. UNCHANGED <<tracer, core, page, dropped, fresh, clean>>
    BY <1>1 DEF AskInit, history
  <2> QED
    BY <2>1, <2>2, <2>3, Kept DEF Typed
<1>2. CASE LoadOverlay(t)
  <2>1. ThreadsTyped'
    <3>1. at' \in [Threads -> Places]
      BY <1>0, <1>2, Goes DEF LoadOverlay, ThreadsTyped
    <3> QED
      BY <1>0, <1>2, <3>1 DEF LoadOverlay, ThreadsTyped
  <2>2. UnitTyped'
    BY <1>2, EmptyUnit, EmptyIs, Constants, NoStampsAre DEF LoadOverlay, UnitTyped
  <2>3. CoreTyped'
    <3> DEFINE e == << >>
    <3>1. e \in Seq(Names) /\ Len(e) = 0 /\ core.run \in Nat
      BY <1>0, EmptyIs DEF CoreTyped, Cores
    <3>2. core' = [held |-> TRUE, run |-> core.run, n |-> 0, stack |-> e]
      BY <1>0, <1>2 DEF LoadOverlay, CoreTyped, Cores
    <3> HIDE DEF e
    <3> QED
      BY <3>1, <3>2, Constants DEF CoreTyped, Cores
  <2>4. RequestsTyped'
    BY <1>0, <1>2, Constants DEF LoadOverlay, RequestsTyped
  <2>5. HistoryTyped'
    <3>1. Quiet \in BOOLEAN /\ (clean /\ Quiet) \in BOOLEAN
      BY DEF Quiet
    <3> QED
      BY <1>2, <3>1, Zenon DEF LoadOverlay, HistoryTyped
  <2>6. UNCHANGED <<page, dropped>>
    BY <1>2 DEF LoadOverlay
  <2> QED
    BY <2>1, <2>2, <2>3, <2>4, <2>5, <2>6, Kept DEF Typed
<1> QED
  BY <1>1, <1>2 DEF Starting

LEMMA StepTyped ==
    ASSUME Typed, [Next]_vars
    PROVE  Typed'
<1>1. CASE UNCHANGED vars
  <2>1. UNCHANGED <<tracer, core, threads, requests, page, dropped, fresh, clean>>
    BY <1>1 DEF vars, history
  <2> QED
    BY <2>1, Kept DEF Typed
<1>2. CASE Next
  <2>1. Runners \subseteq Threads /\ Readers \subseteq Threads /\ Starters \subseteq Threads
    BY DEF Threads
  <2> QED
    BY <1>2, <2>1, BoardTyped, RunTyped, ReadTyped, StartTyped DEF Next
<1> QED
  BY <1>1, <1>2

-----------------------------------------------------------------------------
(* Runs are counted, and nothing comes from a run that is yet to be.       *)

LEMMA Apart ==
    ASSUME NEW w, NEW r, Runners = {w}, Readers = {r}
    PROVE  /\ w \in Threads /\ r \in Threads /\ w # r /\ w \notin Starters /\ r \notin Starters
           /\ Starters \subseteq Threads
BY SessionAssumption DEF Threads

\* A thread takes no part in the steps of another.
LEMMA Others ==
    ASSUME Typed, NEW t \in Threads, Running(t) \/ Reading(t) \/ Starting(t)
    PROVE  \A x \in Threads : x # t => /\ at'[x] = at[x] /\ todo'[x] = todo[x]
                                       /\ seen'[x] = seen[x] /\ got'[x] = got[x]
<1>0. ThreadsTyped
  BY DEF Typed
<1>1. CASE Running(t)
  BY <1>0, <1>1 DEF Running, AskRun, HoldCore, WriteSymbol, StartUnit, ReleaseCore, RunReply, Go,
                    ThreadsTyped
<1>2. CASE Reading(t)
  BY <1>0, <1>2 DEF Reading, AskPerf, ReadAvail, ReadPerf, ReadSymbol, PerfReply, Go, ThreadsTyped
<1>3. CASE Starting(t)
  BY <1>0, <1>3 DEF Starting, AskInit, LoadOverlay, Go, ThreadsTyped
<1> QED
  BY <1>1, <1>2, <1>3

\* What the lists are made of.
LEMMA Elements ==
    ASSUME Typed
    PROVE  /\ \A i \in 1..Len(unit.perfs) : unit.perfs[i] \in Time
           /\ \A i \in 1..Len(unit.flight) : /\ unit.flight[i].perf \in Time
                                             /\ unit.flight[i].symbol \in Nat
           /\ \A t \in Threads : \A i \in 1..Len(got[t]) : /\ got[t][i].t \in Time
                                                           /\ got[t][i].id \in Nat
           /\ \A i \in 1..Len(page.perf) : page.perf[i].t \in Time /\ page.perf[i].id \in Nat
<1>1. unit.perfs \in Seq(Time) /\ unit.flight \in Seq(Hit)
  BY UnitIs DEF Typed, UnitTyped
<1>2. \A i \in 1..Len(unit.perfs) : unit.perfs[i] \in Time
  BY <1>1
<1>3. \A i \in 1..Len(unit.flight) : unit.flight[i] \in Hit
  BY <1>1
<1>4. \A h \in Hit : h.perf \in Time /\ h.symbol \in Nat
  BY DEF Hit
<1>5. \A g \in Got : g.t \in Time /\ g.id \in Nat
  BY DEF Got
<1>6. \A t \in Threads : got[t] \in Seq(Got)
  BY DEF Typed, ThreadsTyped
<1>7. \A t \in Threads : \A i \in 1..Len(got[t]) : got[t][i] \in Got
  BY <1>6
<1>8. page.perf \in Seq(Got)
  BY DEF Typed, PageTyped
<1>9. \A i \in 1..Len(page.perf) : page.perf[i] \in Got
  BY <1>8
<1> QED
  BY <1>2, <1>3, <1>4, <1>5, <1>7, <1>9

LEMMA RunIs == Typed => core \in Cores /\ core.run \in Nat
BY DEF Typed, CoreTyped, Cores

\* The core is touched by few.
LEMMA CoreStays ==
    ASSUME NEW t, AskRun(t) \/ RunReply(t) \/ WriteSymbol(t) \/ StartUnit(t) \/ Reading(t)
                  \/ AskInit(t) \/ Record
    PROVE  core' = core
BY DEF AskRun, RunReply, WriteSymbol, StartUnit, Reading, AskPerf, ReadAvail, ReadPerf,
       ReadSymbol, PerfReply, AskInit, Record

LEMMA HoldDoes ==
    ASSUME Typed, NEW t, HoldCore(t)
    PROVE  core'.run = core.run /\ core'.held = TRUE /\ core'.n = core.n
BY RunIs DEF HoldCore, Cores

LEMMA LoadDoes ==
    ASSUME Typed, NEW t, LoadOverlay(t)
    PROVE  core'.run = core.run /\ core'.held = TRUE /\ core'.n = 0
BY RunIs DEF LoadOverlay, Cores

LEMMA ReleaseDoes ==
    ASSUME Typed, NEW t, ReleaseCore(t)
    PROVE  core'.run = core.run + 1 /\ core'.held = FALSE /\ core'.n = 0
BY RunIs DEF ReleaseCore, Cores

LEMMA RunGrows ==
    ASSUME Typed, [Next]_vars
    PROVE  core'.run \in Nat /\ core.run \in Nat /\ core'.run >= core.run
<1>0. core.run \in Nat
  BY RunIs
<1> SUFFICES core'.run = core.run \/ core'.run = core.run + 1
  BY <1>0
<1>1. CASE UNCHANGED vars
  BY <1>1 DEF vars
<1>2. CASE Call
  BY <1>2, CallDoes
<1>3. CASE Record
  BY <1>3, CoreStays
<1>4. ASSUME NEW t \in Runners, Running(t)
      PROVE  core'.run = core.run \/ core'.run = core.run + 1
  BY <1>4, CoreStays, HoldDoes, ReleaseDoes DEF Running
<1>5. ASSUME NEW t \in Readers, Reading(t)
      PROVE  core'.run = core.run
  BY <1>5, CoreStays
<1>6. ASSUME NEW t \in Starters, Starting(t)
      PROVE  core'.run = core.run
  BY <1>6, CoreStays, LoadDoes DEF Starting
<1> QED
  BY <1>1, <1>2, <1>3, <1>4, <1>5, <1>6 DEF Next

LEMMA Multiples ==
    ASSUME NEW a \in Nat, NEW b \in Nat, NEW c \in Nat, b <= c
    PROVE  a * b \in Nat /\ a * b <= a * c /\ a * (b + 1) = a * b + a
<1> DEFINE d == c - b
<1>1. d \in Nat /\ c = b + d
  OBVIOUS
<1>2. a * d \in Nat /\ a * b \in Nat
  OBVIOUS
<1>3. a * c = a * b + a * d
  <2> HIDE DEF d
  <2> QED
    BY <1>1
<1> QED
  BY <1>2, <1>3

LEMMA CountedBound ==
    ASSUME Typed, NEW w, Counted(w)
    PROVE  /\ core.run \in 0..LastRun
           /\ at[w] \in {"hold", "symbols", "release"} => core.run + 1 <= LastRun
<1>1. PICK loads \in Nat :
        /\ IsFiniteSet(Loading) /\ loads + Cardinality(Loading) = inits
        /\ core.run + One(at[w] \in {"hold", "symbols", "release"}) <= MaxRuns * loads + runs
  BY DEF Counted
<1>2. Cardinality(Loading) \in Nat /\ inits \in 0..MaxInits /\ runs \in 0..MaxRuns
  BY <1>1, FS_CardinalityType DEF Typed, RequestsTyped
<1>3. loads <= MaxInits
  BY <1>1, <1>2, Constants
<1>4. MaxRuns * loads \in Nat /\ MaxRuns * loads <= MaxRuns * MaxInits
      /\ MaxRuns * (MaxInits + 1) = MaxRuns * MaxInits + MaxRuns /\ MaxRuns * MaxInits \in Nat
  BY <1>3, Constants, Multiples
<1>5. LastRun = MaxRuns * MaxInits + MaxRuns
  BY <1>4 DEF LastRun
<1>6. core.run \in Nat
  BY RunIs
<1> DEFINE p == MaxRuns * loads
           q == MaxRuns * MaxInits
<1>7. p \in Nat /\ q \in Nat /\ p <= q /\ LastRun = q + MaxRuns
  BY <1>4, <1>5
<1>8. core.run + One(at[w] \in {"hold", "symbols", "release"}) <= p + runs
  BY <1>1
<1>9. MaxRuns \in Nat /\ runs \in Nat /\ runs <= MaxRuns
  BY <1>2, Constants
<1> HIDE DEF p, q
<1>10. core.run + One(at[w] \in {"hold", "symbols", "release"}) <= LastRun
  BY <1>6, <1>7, <1>8, <1>9 DEF One
<1> QED
  BY <1>6, <1>7, <1>9, <1>10 DEF One

Begun == {"hold", "symbols", "release"}

\* The same number of loads has brought the run that is begun.
LEMMA CountedOn ==
    ASSUME NEW w, NEW loads \in Nat, Loading' = Loading, IsFiniteSet(Loading), inits' = inits,
           loads + Cardinality(Loading) = inits,
           core'.run + One(at'[w] \in Begun) <= MaxRuns * loads + runs'
    PROVE  Counted(w)'
BY DEF Counted, Begun

LEMMA CountedInit ==
    ASSUME NEW w, NEW r, Runners = {w}, Readers = {r}, Init
    PROVE  Counted(w)
<1>1. Loading = {} /\ w \in Threads /\ Starters \subseteq Threads
  BY Apart DEF Init, Loading
<1>2. IsFiniteSet(Loading) /\ Cardinality(Loading) = 0
  BY <1>1, FS_EmptySet
<1>3. core.run = 0 /\ runs = 0 /\ inits = 0 /\ at[w] = "idle"
  BY <1>1 DEF Init
<1>4. MaxRuns * 0 = 0
  BY Constants
<1>5. 0 \in Nat /\ 0 + Cardinality(Loading) = inits
      /\ core.run + One(at[w] \in {"hold", "symbols", "release"}) <= MaxRuns * 0 + runs
  BY <1>2, <1>3, <1>4 DEF One
<1> QED
  BY <1>2, <1>5 DEF Counted

LEMMA CountedStep ==
    ASSUME NEW w, NEW r, Runners = {w}, Readers = {r}, Typed, Counted(w), [Next]_vars
    PROVE  Counted(w)'
<1>1. PICK loads \in Nat :
        /\ IsFiniteSet(Loading) /\ loads + Cardinality(Loading) = inits
        /\ core.run + One(at[w] \in Begun) <= MaxRuns * loads + runs
  BY DEF Counted, Begun
<1> DEFINE base == MaxRuns * loads
<1>2. /\ w \in Threads /\ r \in Threads /\ w # r /\ w \notin Starters /\ r \notin Starters
      /\ Starters \subseteq Threads
  BY Apart
<1>3. /\ core.run \in Nat /\ runs \in 0..MaxRuns /\ inits \in Nat /\ base \in Nat
      /\ MaxRuns \in Nat
  BY <1>1, RunIs, Constants, Multiples DEF Typed, RequestsTyped
<1>4. ASSUME Loading' = Loading, inits' = inits,
             core'.run + One(at'[w] \in Begun) <= base + runs'
      PROVE  Counted(w)'
  BY <1>1, <1>4, CountedOn
<1>5. CASE UNCHANGED vars
  <2>1. Loading' = Loading
    BY <1>5 DEF vars, threads, Loading
  <2> QED
    BY <1>1, <1>4, <1>5, <2>1 DEF vars, threads, requests
<1>6. CASE Call \/ Record
  <2>1. at' = at /\ runs' = runs /\ inits' = inits
    BY <1>6 DEF Call, Record, threads, requests
  <2>2. Loading' = Loading
    BY <2>1 DEF Loading
  <2>3. core'.run = core.run
    BY <1>6, CallDoes, CoreStays
  <2> QED
    BY <1>1, <1>4, <2>1, <2>2, <2>3
<1>7. CASE Running(w)
  <2>1. \A x \in Threads : x # w => at'[x] = at[x]
    BY <1>2, <1>7, Others
  <2>2. Loading' = Loading
    BY <1>2, <2>1 DEF Loading
  <2>3. inits' = inits
    BY <1>7 DEF Running, AskRun, HoldCore, WriteSymbol, StartUnit, ReleaseCore, RunReply, requests
  <2>4. at \in [Threads -> Places]
    BY DEF Typed, ThreadsTyped
  <2>5. core'.run + One(at'[w] \in Begun) <= base + runs'
    <3>1. CASE AskRun(w)
      <4>1. at[w] = "idle" /\ runs' = runs + 1
        BY <3>1 DEF AskRun, Go
      <4>2. core'.run = core.run
        BY <3>1, CoreStays
      <4> HIDE DEF base
      <4> QED
        BY <1>1, <1>3, <4>1, <4>2 DEF One, Begun, base
    <3>2. CASE HoldCore(w) \/ WriteSymbol(w) \/ StartUnit(w)
      <4>1. at[w] \in Begun /\ runs' = runs
        BY <3>2 DEF HoldCore, WriteSymbol, StartUnit, Go, requests, Begun
      <4>2. core'.run = core.run
        BY <3>2, HoldDoes, CoreStays
      <4> QED
        BY <1>1, <1>3, <4>1, <4>2 DEF One
    <3>3. CASE ReleaseCore(w)
      <4>1. at[w] \in Begun /\ at'[w] \notin Begun /\ runs' = runs
        BY <1>2, <2>4, <3>3 DEF ReleaseCore, Go, requests, Begun
      <4>2. core'.run = core.run + 1
        BY <3>3, ReleaseDoes
      <4> QED
        BY <1>1, <1>3, <4>1, <4>2 DEF One
    <3>4. CASE RunReply(w)
      <4>1. at'[w] \notin Begun /\ runs' = runs
        BY <1>2, <2>4, <3>4 DEF RunReply, Go, requests, Begun
      <4>2. core'.run = core.run
        BY <3>4, CoreStays
      <4> QED
        BY <1>1, <1>3, <4>1, <4>2 DEF One
    <3> QED
      BY <1>7, <3>1, <3>2, <3>3, <3>4 DEF Running
  <2> QED
    BY <1>4, <2>2, <2>3, <2>5
<1>8. CASE Reading(r)
  <2>1. \A x \in Threads : x # r => at'[x] = at[x]
    BY <1>2, <1>8, Others
  <2>2. Loading' = Loading
    BY <1>2, <2>1 DEF Loading
  <2>3. inits' = inits /\ runs' = runs
    BY <1>8 DEF Reading, AskPerf, ReadAvail, ReadPerf, ReadSymbol, PerfReply, requests
  <2>4. core'.run = core.run /\ at'[w] = at[w]
    BY <1>2, <1>8, <2>1, CoreStays
  <2> QED
    BY <1>1, <1>4, <2>2, <2>3, <2>4
<1>9. ASSUME NEW t \in Starters, AskInit(t)
      PROVE  Counted(w)'
  <2>1. \A x \in Threads : x # t => at'[x] = at[x]
    BY <1>2, <1>9, Others DEF Starting
  <2>2. at[t] = "idle" /\ at'[t] = "overlay" /\ inits' = inits + 1 /\ runs' = runs
    BY <1>2, <1>9, Goes DEF AskInit, Typed, ThreadsTyped, Places
  <2>3. Loading' = Loading \cup {t} /\ t \notin Loading
    BY <1>2, <1>9, <2>1, <2>2 DEF Loading
  <2>4. IsFiniteSet(Loading') /\ Cardinality(Loading') = Cardinality(Loading) + 1
    BY <1>1, <2>3, FS_AddElement
  <2>5. Cardinality(Loading) \in Nat
    BY <1>1, FS_CardinalityType
  <2>6. core'.run = core.run /\ at'[w] = at[w]
    BY <1>2, <1>9, <2>1, CoreStays
  <2>7. loads + Cardinality(Loading') = inits'
    BY <1>1, <2>2, <2>4, <2>5
  <2>8. core'.run + One(at'[w] \in {"hold", "symbols", "release"}) <= MaxRuns * loads + runs'
    BY <1>1, <2>2, <2>6 DEF Begun
  <2> QED
    BY <1>1, <2>4, <2>7, <2>8 DEF Counted
<1>10. ASSUME NEW t \in Starters, LoadOverlay(t)
       PROVE  Counted(w)'
  <2>1. \A x \in Threads : x # t => at'[x] = at[x]
    BY <1>2, <1>10, Others DEF Starting
  <2>2. at[t] = "overlay" /\ at'[t] = "idle" /\ inits' = inits /\ runs' = 0
    BY <1>2, <1>10, Goes DEF LoadOverlay, Typed, ThreadsTyped, Places
  <2>3. Loading' = Loading \ {t} /\ t \in Loading
    BY <1>2, <1>10, <2>1, <2>2 DEF Loading
  <2>4. IsFiniteSet(Loading') /\ Cardinality(Loading') = Cardinality(Loading) - 1
    BY <1>1, <2>3, FS_RemoveElement
  <2>5. Cardinality(Loading) \in Nat
    BY <1>1, FS_CardinalityType
  <2>6. core'.run = core.run /\ at'[w] = at[w]
    BY <1>2, <1>10, <2>1, LoadDoes
  <2>7. loads + 1 \in Nat /\ loads + 1 + Cardinality(Loading') = inits'
    BY <1>1, <2>2, <2>4, <2>5
  <2>8. MaxRuns * (loads + 1) = base + MaxRuns
    BY <1>1, Constants, Multiples
  <2>9. core'.run + One(at'[w] \in {"hold", "symbols", "release"})
          <= MaxRuns * (loads + 1) + runs'
    <3>1. core'.run + One(at'[w] \in {"hold", "symbols", "release"}) <= base + MaxRuns
      <4> HIDE DEF base
      <4> QED
        BY <1>1, <1>3, <2>6 DEF Begun, One, base
    <3> QED
      BY <2>2, <2>8, <3>1, <1>3
  <2> QED
    BY <2>4, <2>7, <2>9 DEF Counted
<1> QED
  BY <1>5, <1>6, <1>7, <1>8, <1>9, <1>10 DEF Next, Starting

\* What a step leaves alone stays in the past.
LEMMA PastKept ==
    ASSUME Typed, Pasts, core'.run \in Nat, core'.run >= core.run
    PROVE  /\ UNCHANGED tracer => PastUnit'
           /\ UNCHANGED <<seen, got>> => PastThreads'
           /\ UNCHANGED page => PastPage'
           /\ \A x \in Time : Past(x) => x.run <= core'.run
<1>0. core.run \in Nat /\ \A x \in Time : x.run \in Nat
  BY RunIs DEF Time
<1>1. \A x \in Time : Past(x) => x.run <= core'.run
  BY <1>0 DEF Past
<1>2. UNCHANGED tracer => PastUnit'
  <2> SUFFICES ASSUME UNCHANGED tracer PROVE PastUnit'
    OBVIOUS
  <2>1. unit' = unit /\ rdata' = rdata
    BY DEF tracer
  <2>2. rdata \in Time /\ unit \in Units
    BY DEF Typed, UnitTyped
  <2>3. /\ \A i \in 1..Len(unit.perfs) : unit.perfs[i] \in Time
        /\ \A i \in 1..Len(unit.flight) : unit.flight[i].perf \in Time
    BY Elements
  <2> QED
    BY <1>1, <2>1, <2>2, <2>3 DEF Pasts, PastUnit, Past
<1>3. UNCHANGED <<seen, got>> => PastThreads'
  <2> SUFFICES ASSUME UNCHANGED <<seen, got>> PROVE PastThreads'
    OBVIOUS
  <2>1. \A t \in Threads : seen[t] \in Time /\ \A i \in 1..Len(got[t]) : got[t][i].t \in Time
    BY Elements DEF Typed, ThreadsTyped
  <2> QED
    BY <1>1, <2>1 DEF Pasts, PastThreads, Past
<1>4. UNCHANGED page => PastPage'
  <2> SUFFICES ASSUME UNCHANGED page PROVE PastPage'
    OBVIOUS
  <2>1. page.run \in Nat /\ \A i \in 1..Len(page.perf) : page.perf[i].t \in Time
    BY Elements DEF Typed, PageTyped
  <2> QED
    BY <1>0, <1>1, <2>1 DEF Pasts, PastPage, Past
<1> QED
  BY <1>1, <1>2, <1>3, <1>4

LEMMA PastInit == Init => Pasts
<1> SUFFICES ASSUME Init PROVE Pasts
  OBVIOUS
<1>1. PastUnit
  BY EmptyUnit, EmptyIs, NoStampsAre DEF Init, PastUnit, Past
<1>2. PastThreads
  <2>1. \A t \in Threads : seen[t] = NoStamp /\ Len(got[t]) = 0
    BY EmptyIs DEF Init
  <2> QED
    BY <2>1, NoStampsAre DEF Init, PastThreads, Past
<1>3. PastPage
  BY EmptyIs DEF Init, PastPage
<1> QED
  BY <1>1, <1>2, <1>3 DEF Pasts

LEMMA PastStep ==
    ASSUME Typed, Pasts, [Next]_vars
    PROVE  Pasts'
<1>0. core'.run \in Nat /\ core.run \in Nat /\ core'.run >= core.run
  BY RunGrows
<1>1. /\ UNCHANGED tracer => PastUnit'
      /\ UNCHANGED <<seen, got>> => PastThreads'
      /\ UNCHANGED page => PastPage'
      /\ \A x \in Time : Past(x) => x.run <= core'.run
  BY <1>0, PastKept
<1>2. /\ unit \in Units /\ rdata \in Time /\ unit.perfs \in Seq(Time) /\ unit.flight \in Seq(Hit)
      /\ seen \in [Threads -> Time] /\ got \in [Threads -> Seq(Got)] /\ page.perf \in Seq(Got)
      /\ Runners \subseteq Threads /\ Readers \subseteq Threads /\ Starters \subseteq Threads
      /\ unit.symbols \in Seq(Nat)
  BY UnitIs DEF Typed, UnitTyped, ThreadsTyped, PageTyped, Threads
<1>3. CASE UNCHANGED vars
  BY <1>1, <1>3 DEF vars, threads, Pasts
<1>4. CASE Call
  <2>1. PICK pc \in Addresses, s \in Time :
          unit' = U!See(unit, pc, s) /\ s.run = core.run
    BY <1>4, CallDoes
  <2>2. core'.run = core.run /\ UNCHANGED <<rdata, seen, got, page>>
    BY <1>4, CallDoes DEF Call, threads
  <2>3. unit'.perfs = unit.perfs
    BY <1>2, <2>1, SeeIs
  <2>4. \A i \in 1..Len(unit'.flight) : unit'.flight[i].perf.run <= core.run
    <3>1. CASE unit'.flight = unit.flight
      BY <3>1 DEF Pasts, PastUnit, Past
    <3>2. CASE U!Known(unit.table, pc)
      <4> DEFINE h == HitOf(s, U!Lookup(unit.table, pc))
      <4>1. h.perf = s
        BY DEF HitOf
      <4>2. Grown(unit.flight, unit'.flight, h)
        BY <1>2, <2>1, <3>2, SeeIs
      <4> HIDE DEF h
      <4>3. Len(unit.flight) \in Nat /\ \A i \in 1..Len(unit.flight) : Past(unit.flight[i].perf)
        BY <1>2 DEF Pasts, PastUnit
      <4>4. \A i \in 1..Len(unit'.flight) : i \in 1..Len(unit.flight) \/ i = Len(unit'.flight)
        BY <4>2, <4>3 DEF Grown
      <4>5. unit'.flight[Len(unit'.flight)].perf.run <= core.run
        BY <1>0, <2>1, <4>1, <4>2 DEF Grown
      <4>6. \A i \in 1..Len(unit.flight) : unit'.flight[i].perf.run <= core.run
        BY <4>2, <4>3 DEF Grown, Past
      <4> QED
        BY <4>4, <4>5, <4>6
    <3> QED
      BY <1>2, <2>1, <3>1, <3>2, SeeIs
  <2> QED
    BY <1>1, <2>2, <2>3, <2>4 DEF Pasts, PastUnit, Past
<1>5. CASE Record
  <2>1. UNCHANGED <<rdata, core, seen, got, page>> /\ unit.flight # << >> /\ unit' = U!Record(unit)
    BY <1>5 DEF Record, threads
  <2>2. /\ Shrunk(unit.flight, unit'.flight) /\ unit.flight[1].perf \in Time
        /\ unit'.perfs = U!Push(unit.perfs, unit.flight[1].perf) \/ unit'.perfs = unit.perfs
    BY <1>2, <2>1, RecordIs DEF Hit
  <2>3. Len(unit.flight) \in Nat /\ Len(unit.flight) >= 1
    BY <1>2, <2>2 DEF Shrunk
  <2>4. Past(unit.flight[1].perf)
    BY <2>3 DEF Pasts, PastUnit
  <2>5. \A i \in 1..Len(unit'.flight) : unit'.flight[i].perf.run <= core.run
    BY <2>2, <2>3 DEF Pasts, PastUnit, Shrunk, Past
  <2>6. \A i \in 1..Len(unit'.perfs) : unit'.perfs[i].run <= core.run
    <3>1. \A i \in 1..Len(unit.perfs) : unit.perfs[i].run <= core.run
      BY DEF Pasts, PastUnit, Past
    <3>2. CASE unit'.perfs = unit.perfs
      BY <3>1, <3>2
    <3>3. CASE unit'.perfs = U!Push(unit.perfs, unit.flight[1].perf)
      <4> SUFFICES ASSUME NEW i \in 1..Len(unit'.perfs)
                   PROVE  unit'.perfs[i].run <= core.run
        OBVIOUS
      <4>1. \/ unit'.perfs[i] = unit.flight[1].perf
            \/ \E j \in 1..Len(unit.perfs) : unit'.perfs[i] = unit.perfs[j]
        <5> DEFINE x == unit.flight[1].perf
        <5>1. x \in Time /\ unit'.perfs = U!Push(unit.perfs, x)
          BY <2>2, <3>3
        <5> HIDE DEF x
        <5>2. Brings(unit.perfs, unit'.perfs, x)
          BY <1>2, <5>1, PushIs
        <5> QED
          BY <5>2 DEF Brings, x
      <4> QED
        BY <2>4, <3>1, <4>1 DEF Past
    <3> QED
      BY <2>2, <3>2, <3>3
  <2> QED
    BY <1>1, <2>1, <2>5, <2>6 DEF Pasts, PastUnit, Past
<1>6. ASSUME NEW t \in Runners, Running(t)
      PROVE  Pasts'
  <2>1. UNCHANGED <<seen, got>>
    BY <1>6 DEF Running, AskRun, HoldCore, WriteSymbol, StartUnit, ReleaseCore, RunReply, threads
  <2>2. PastPage'
    <3>1. CASE RunReply(t)
      <4>1. core'.run = core.run
        BY <3>1, CoreStays
      <4>2. page'.run = core.run /\ page'.perf = << >>
        BY <3>1 DEF RunReply
      <4> QED
        BY <1>0, <4>1, <4>2, EmptyIs DEF PastPage
    <3>2. CASE ~RunReply(t)
      BY <1>1, <1>6, <3>2 DEF Running, AskRun, HoldCore, WriteSymbol, StartUnit, ReleaseCore
    <3> QED
      BY <3>1, <3>2
  <2>3. PastUnit'
    <3>1. CASE WriteSymbol(t)
      <4>1. /\ todo[t] \in Seq(Addresses) /\ todo[t] # << >>
            /\ unit' = U!AddSymbol(unit, Head(todo[t])) /\ UNCHANGED <<rdata, core>>
        BY <1>2, <1>6, <3>1 DEF WriteSymbol, Typed, ThreadsTyped
      <4>2. Head(todo[t]) \in Addresses
        BY <4>1, Shrinks
      <4>3. unit'.perfs = unit.perfs /\ unit'.flight = unit.flight
        BY <1>2, <4>1, <4>2, AddSymbolIs
      <4> QED
        BY <4>1, <4>3 DEF Pasts, PastUnit, Past
    <3>2. CASE StartUnit(t)
      <4>1. unit' = U!SetRunning(unit) /\ UNCHANGED <<rdata, core>>
        BY <3>2 DEF StartUnit
      <4>2. unit'.perfs = unit.perfs /\ unit'.flight = unit.flight
        BY <1>2, <4>1, SetRunningIs
      <4> QED
        BY <4>1, <4>2 DEF Pasts, PastUnit, Past
    <3>3. CASE ~WriteSymbol(t) /\ ~StartUnit(t)
      BY <1>1, <1>6, <3>3 DEF Running, AskRun, HoldCore, ReleaseCore, RunReply
    <3> QED
      BY <3>1, <3>2, <3>3
  <2> QED
    BY <1>1, <2>1, <2>2, <2>3 DEF Pasts
<1>7. ASSUME NEW t \in Readers, Reading(t)
      PROVE  Pasts'
  <2>0. core' = core /\ t \in Threads
    BY <1>2, <1>7, CoreStays
  <2>1. CASE AskPerf(t)
    BY <1>1, <2>1 DEF AskPerf, Pasts
  <2>2. CASE ReadAvail(t)
    <3>2. Len(unit.perfs) \in Nat
      BY <1>2
    <3>1. rdata'.run = 0 /\ UNCHANGED <<unit, seen, got, page>>
      BY <2>2, <3>2, NoStampsAre DEF ReadAvail
    <3> QED
      BY <1>0, <1>1, <2>0, <3>1 DEF Pasts, PastUnit, Past
  <2>3. CASE ReadPerf(t)
    <3>1. /\ unit' = U!PopPerf(unit) /\ rdata' = U!HeadOr(unit.perfs, rdata)
          /\ seen' = [seen EXCEPT ![t] = rdata'] /\ UNCHANGED <<got, page>>
      BY <2>3 DEF ReadPerf
    <3>2. /\ unit'.flight = unit.flight
          /\ IF unit.perfs = << >> THEN unit'.perfs = unit.perfs /\ rdata' = rdata
             ELSE Shrunk(unit.perfs, unit'.perfs) /\ rdata' = unit.perfs[1]
      BY <1>2, <3>1, PopPerfIs
    <3>3. /\ rdata'.run <= core.run
          /\ \A i \in 1..Len(unit'.perfs) : unit'.perfs[i].run <= core.run
      <4>1. Len(unit.perfs) \in Nat /\ rdata.run <= core.run
            /\ \A i \in 1..Len(unit.perfs) : unit.perfs[i].run <= core.run
        BY <1>2 DEF Pasts, PastUnit, Past
      <4>2. CASE unit.perfs = << >>
        BY <3>2, <4>1, <4>2
      <4>3. CASE unit.perfs # << >>
        <5>1. Shrunk(unit.perfs, unit'.perfs) /\ rdata' = unit.perfs[1]
          BY <3>2, <4>3
        <5>2. /\ 1 \in 1..Len(unit.perfs)
              /\ \A i \in 1..Len(unit'.perfs) : /\ i + 1 \in 1..Len(unit.perfs)
                                              /\ unit'.perfs[i] = unit.perfs[i + 1]
          BY <4>1, <5>1, ShrunkIs
        <5> QED
          BY <4>1, <5>1, <5>2
      <4> QED
        BY <4>2, <4>3
    <3>4. PastThreads'
      BY <1>2, <2>0, <3>1, <3>3 DEF Pasts, PastThreads, Past
    <3> QED
      BY <1>1, <2>0, <3>1, <3>2, <3>3, <3>4 DEF Pasts, PastUnit, Past
  <2>4. CASE ReadSymbol(t)
    <3>1. /\ unit' = U!PopSymbol(unit) /\ UNCHANGED page
          /\ rdata' = IF unit.symbols = << >> THEN rdata ELSE IdData(Head(unit.symbols))
          /\ got' = [got EXCEPT ![t] = Append(got[t], [id |-> rdata'.n, t |-> seen[t]])]
          /\ seen' = [seen EXCEPT ![t] = NoStamp]
      BY <2>4 DEF ReadSymbol
    <3>2. /\ unit'.flight = unit.flight /\ unit'.perfs = unit.perfs
          /\ unit.symbols # << >> => Head(unit.symbols) \in Nat
      BY <1>2, <3>1, PopSymbolIs
    <3>3. rdata'.run <= core.run
      BY <1>0, <3>1, <3>2, NoStampsAre DEF Pasts, PastUnit, Past
    <3>4. PastUnit'
      BY <2>0, <3>2, <3>3 DEF Pasts, PastUnit, Past
    <3>5. PastThreads'
      <4>1. rdata' \in Time
        BY <1>2, <3>1, <3>2, NoStampsAre
      <4> DEFINE x == [id |-> rdata'.n, t |-> seen[t]]
      <4>2. x \in Got /\ x.t = seen[t]
        BY <1>2, <2>0, <4>1 DEF Got, Time
      <4>3. got' = [got EXCEPT ![t] = Append(got[t], x)]
        BY <3>1
      <4> HIDE DEF x
      <4>4. Grown(got[t], Append(got[t], x), x) /\ Len(got[t]) \in Nat
        BY <1>2, <2>0, <4>2, Grows
      <4>5. \A i \in 1..Len(got'[t]) : got'[t][i].t.run <= core.run
        <5>1. got'[t] = Append(got[t], x)
          BY <1>2, <2>0, <4>3
        <5> QED
          BY <2>0, <4>2, <4>4, <5>1 DEF Pasts, PastThreads, Past, Grown
      <4>6. \A u \in Threads : u # t => seen'[u] = seen[u] /\ got'[u] = got[u]
        BY <1>2, <3>1, <4>3
      <4>7. seen'[t].run = 0
        BY <1>2, <2>0, <3>1, NoStampsAre
      <4> QED
        BY <1>0, <2>0, <4>5, <4>6, <4>7 DEF Pasts, PastThreads, Past
    <3> QED
      BY <1>1, <3>1, <3>4, <3>5 DEF Pasts
  <2>5. CASE PerfReply(t)
    <3> DEFINE s == page.perf \o got[t]
    <3>1. /\ got' = [got EXCEPT ![t] = << >>] /\ UNCHANGED <<tracer, seen>>
          /\ page' = [page EXCEPT !.perf = s]
      BY <2>5 DEF PerfReply
    <3>7. page.perf \in Seq(Got) /\ got[t] \in Seq(Got)
      BY <1>2, <2>0
    <3>2. Joined(page.perf, got[t], s)
      BY <3>7, ConcatIs
    <3> HIDE DEF s
    <3>3. page'.perf = s /\ page'.run = page.run
      BY <3>1 DEF Typed, PageTyped
    <3>4. /\ \A i \in 1..Len(page.perf) : page.perf[i].t.run <= core.run
          /\ \A i \in 1..Len(got[t]) : got[t][i].t.run <= core.run
      BY <2>0 DEF Pasts, PastPage, PastThreads, Past
    <3>5. \A i \in 1..Len(s) : s[i].t.run <= core.run
      BY <3>2, <3>4 DEF Joined
    <3>6. PastThreads'
      <4>1. Len(got'[t]) = 0 /\ \A u \in Threads : u # t => got'[u] = got[u]
        BY <1>2, <2>0, <3>1, EmptyIs
      <4> QED
        BY <2>0, <3>1, <4>1 DEF Pasts, PastThreads, Past
    <3> QED
      BY <1>1, <2>0, <3>1, <3>3, <3>5, <3>6 DEF Pasts, PastPage, Past
  <2> QED
    BY <1>7, <2>1, <2>2, <2>3, <2>4, <2>5 DEF Reading
<1>8. ASSUME NEW t \in Starters, Starting(t)
      PROVE  Pasts'
  <2>1. UNCHANGED <<seen, got, page>>
    BY <1>8 DEF Starting, AskInit, LoadOverlay
  <2>2. CASE AskInit(t)
    BY <1>1, <2>1, <2>2 DEF AskInit, Pasts
  <2>3. CASE LoadOverlay(t)
    <3>1. PastUnit'
      BY <1>0, <2>3, EmptyUnit, EmptyIs, NoStampsAre DEF LoadOverlay, PastUnit, Past
    <3> QED
      BY <1>1, <2>1, <3>1 DEF Pasts
  <2> QED
    BY <1>8, <2>2, <2>3 DEF Starting
<1> QED
  BY <1>3, <1>4, <1>5, <1>6, <1>7, <1>8 DEF Next

-----------------------------------------------------------------------------
(* Where the threads are, and what a freshly loaded board holds.           *)

LEMMA IdleInit ==
    ASSUME NEW w, NEW r, Runners = {w}, Readers = {r}, Init
    PROVE  IdleInv(w, r) /\ FreshInv(w, r) /\ CleanInv(r) /\ Ordered(r)
<1>1. at[w] = "idle" /\ at[r] = "idle" /\ got[r] = << >>
  BY Apart DEF Init
<1>2. IdleInv(w, r)
  BY <1>1 DEF Init, IdleInv
<1>3. FreshInv(w, r)
  BY <1>1, EmptyUnit DEF Init, FreshInv
<1>4. CleanInv(r) /\ Ordered(r)
  BY DEF Init, CleanInv, Ordered
<1> QED
  BY <1>2, <1>3, <1>4

LEMMA IdleStep ==
    ASSUME NEW w, NEW r, Runners = {w}, Readers = {r}, Typed, IdleInv(w, r), [Next]_vars
    PROVE  IdleInv(w, r)'
<1>1. /\ w \in Threads /\ r \in Threads /\ w # r /\ w \notin Starters /\ r \notin Starters
      /\ Starters \subseteq Threads
  BY Apart
<1>2. /\ at \in [Threads -> Places] /\ got \in [Threads -> Seq(Got)]
      /\ page \in [lut: {<< >>, mark.response}, run: Nat, perf: Seq(Got)]
  BY DEF Typed, ThreadsTyped, PageTyped
<1>3. CASE UNCHANGED vars
  BY <1>3 DEF vars, threads, IdleInv
<1>4. CASE Call \/ Record
  <2>1. UNCHANGED <<at, got, page>> /\ (core' = core \/ core.held = FALSE)
    BY <1>4, CallDoes, CoreStays DEF Call, Record, threads
  <2> QED
    BY <2>1 DEF IdleInv
<1>5. CASE Running(w)
  <2>1. at'[r] = at[r] /\ got'[r] = got[r]
    BY <1>1, <1>5, Others
  <2>2. CASE AskRun(w)
    <3>1. at'[w] = "hold" /\ UNCHANGED page
      BY <1>1, <1>2, <2>2 DEF AskRun, Go
    <3> QED
      BY <2>1, <3>1 DEF IdleInv
  <2>3. CASE HoldCore(w)
    <3>1. at'[w] = "symbols" /\ UNCHANGED page /\ core'.held = TRUE
      BY <1>1, <1>2, <2>3, HoldDoes DEF HoldCore, Go
    <3> QED
      BY <2>1, <3>1 DEF IdleInv
  <2>4. CASE WriteSymbol(w)
    <3>1. UNCHANGED <<at, page, core>>
      BY <2>4 DEF WriteSymbol
    <3> QED
      BY <2>1, <3>1 DEF IdleInv
  <2>5. CASE StartUnit(w)
    <3>1. at[w] = "symbols" /\ at'[w] = "release" /\ UNCHANGED <<page, core>>
      BY <1>1, <1>2, <2>5 DEF StartUnit, Go
    <3> QED
      BY <2>1, <3>1 DEF IdleInv
  <2>6. CASE ReleaseCore(w)
    <3>1. at'[w] = "ran" /\ UNCHANGED page
      BY <1>1, <1>2, <2>6 DEF ReleaseCore, Go
    <3> QED
      BY <2>1, <3>1 DEF IdleInv
  <2>7. CASE RunReply(w)
    <3>1. at'[w] = "idle" /\ page'.lut = mark.response
      BY <1>1, <1>2, <2>7 DEF RunReply, Go
    <3> QED
      BY <2>1, <3>1 DEF IdleInv
  <2> QED
    BY <1>5, <2>2, <2>3, <2>4, <2>5, <2>6, <2>7 DEF Running
<1>6. CASE Reading(r)
  <2>1. at'[w] = at[w] /\ core' = core
    BY <1>1, <1>6, Others, CoreStays
  <2>2. at'[r] \in {"avail", "perf", "symbol", "read"} \/ PerfReply(r)
    BY <1>1, <1>2, <1>6 DEF Reading, AskPerf, ReadAvail, ReadPerf, ReadSymbol, Go
  <2>3. CASE PerfReply(r)
    <3>1. at'[r] = "idle" /\ got'[r] = << >> /\ page'.lut = page.lut /\ page'.run = page.run
      BY <1>1, <1>2, <2>3 DEF PerfReply, Go
    <3> QED
      BY <2>1, <3>1 DEF IdleInv
  <2>4. CASE ~PerfReply(r)
    <3>1. UNCHANGED page
      BY <1>6, <2>4 DEF Reading, AskPerf, ReadAvail, ReadPerf, ReadSymbol
    <3> QED
      BY <2>1, <2>2, <2>4, <3>1 DEF IdleInv
  <2> QED
    BY <2>3, <2>4
<1>7. ASSUME NEW t \in Starters, Starting(t)
      PROVE  IdleInv(w, r)'
  <2>1. at'[w] = at[w] /\ at'[r] = at[r] /\ got'[r] = got[r]
    BY <1>1, <1>7, Others
  <2>2. UNCHANGED page
    BY <1>7 DEF Starting, AskInit, LoadOverlay
  <2>3. core' = core \/ core'.held = TRUE
    BY <1>7, CoreStays, LoadDoes DEF Starting
  <2> QED
    BY <2>1, <2>2, <2>3 DEF IdleInv
<1> QED
  BY <1>3, <1>4, <1>5, <1>6, <1>7 DEF Next

\* The first addresses of the list are in the table, the others are left.
LEMMA WroteNone == Wrote(<< >>, mark.input, 0)
BY Constants, EmptyIs DEF Wrote

LEMMA WroteAll ==
    ASSUME NEW table, NEW k, Wrote(table, << >>, k)
    PROVE  Complete(table)
<1>1. Len(mark.input) \in Nat /\ k = Len(mark.input)
  BY Constants, EmptyIs DEF Wrote
<1> QED
  BY <1>1, Constants DEF Wrote, Complete

LEMMA WroteMore ==
    ASSUME NEW table \in Seq(Addresses), NEW left \in Seq(Addresses), left # << >>,
           NEW k, Wrote(table, left, k), NEW more,
           IF Len(table) < Size THEN Grown(table, more, Head(left)) ELSE more = table
    PROVE  Wrote(more, Tail(left), k + 1)
<1> DEFINE In == mark.input
<1> DEFINE rest == Tail(left)
<1>1. /\ Shrunk(left, rest) /\ Len(left) \in Nat \ {0} /\ Head(left) = left[1]
  BY Shrinks
<1>2. Len(In) \in Nat /\ Len(table) \in Nat /\ Size \in Nat \ {0}
  BY Constants
<1>3. /\ k \in 0..Len(In) /\ Len(table) = IF k < Size THEN k ELSE Size
      /\ \A i \in 1..Len(table) : table[i] = In[i]
      /\ Len(left) = Len(In) - k
      /\ \A i \in 1..Len(left) : left[i] = In[k + i]
  BY DEF Wrote
<1> HIDE DEF In, rest
<1>4. k + 1 \in 0..Len(In) /\ Len(rest) = Len(In) - (k + 1) /\ left[1] = In[k + 1]
  <2>1. 1 \in 1..Len(left) /\ Len(rest) = Len(left) - 1
    BY <1>1, ShrunkIs
  <2>2. left[1] = In[k + 1]
    BY <1>3, <2>1
  <2> QED
    BY <1>2, <1>3, <2>1, <2>2
<1>5. \A i \in 1..Len(rest) : rest[i] = In[k + 1 + i]
  <2> SUFFICES ASSUME NEW i \in 1..Len(rest)
               PROVE  rest[i] = In[k + 1 + i]
    OBVIOUS
  <2>1. i + 1 \in 1..Len(left) /\ rest[i] = left[i + 1]
    BY <1>1, ShrunkIs
  <2>2. left[i + 1] = In[k + (i + 1)]
    BY <1>3, <2>1
  <2>3. k + (i + 1) = k + 1 + i
    BY <1>3, <1>4
  <2> QED
    BY <2>1, <2>2, <2>3
<1>6. CASE Len(table) < Size
  <2>1. Grown(table, more, left[1]) /\ Len(table) = k
    BY <1>1, <1>2, <1>3, <1>6
  <2>2. Len(more) = k + 1 /\ more[k + 1] = In[k + 1] /\ \A i \in 1..k : more[i] = In[i]
    BY <1>2, <1>3, <1>4, <2>1 DEF Grown
  <2>3. \A i \in 1..Len(more) : more[i] = In[i]
    BY <1>2, <2>1, <2>2
  <2> QED
    BY <1>2, <1>4, <1>5, <1>6, <2>1, <2>2, <2>3 DEF Wrote, In, rest
<1>7. CASE ~(Len(table) < Size)
  <2>1. more = table /\ Len(table) = Size /\ ~(k < Size)
    BY <1>2, <1>3, <1>7
  <2> QED
    BY <1>2, <1>3, <1>4, <1>5, <2>1 DEF Wrote, In, rest
<1> QED
  BY <1>6, <1>7

LEMMA FreshStep ==
    ASSUME NEW w, NEW r, Runners = {w}, Readers = {r},
           Typed, IdleInv(w, r), FreshInv(w, r), [Next]_vars
    PROVE  FreshInv(w, r)'
<1>1. /\ w \in Threads /\ r \in Threads /\ w # r /\ w \notin Starters /\ r \notin Starters
      /\ Starters \subseteq Threads
  BY Apart
<1>2. /\ at \in [Threads -> Places] /\ got \in [Threads -> Seq(Got)]
      /\ todo \in [Threads -> Seq(Addresses)] /\ unit \in Units
  BY DEF Typed, ThreadsTyped, UnitTyped
<1>3. CASE UNCHANGED vars
  BY <1>3 DEF vars, tracer, threads, history, FreshInv
<1>4. CASE Call \/ Record
  <2>1. fresh' = fresh
    BY <1>4 DEF Call, Record, history
  <2>2. ~fresh
    BY <1>4 DEF Call, Record, FreshInv
  <2> QED
    BY <2>1, <2>2 DEF FreshInv
<1>5. CASE Running(w)
  <2>0. at'[r] = at[r] /\ got'[r] = got[r]
    BY <1>1, <1>5, Others
  <2> SUFFICES ASSUME fresh' PROVE FreshInv(w, r)'
    BY DEF FreshInv
  <2>1. CASE AskRun(w)
    <3>1. /\ at[w] = "idle" /\ at'[w] = "hold" /\ todo'[w] = mark.input
          /\ UNCHANGED <<unit, core, fresh>>
      BY <1>1, <1>2, <2>1 DEF AskRun, Go, tracer, history
    <3>2. unit'.table = << >> /\ Wrote(unit'.table, todo'[w], 0)
      BY <3>1, WroteNone DEF FreshInv
    <3>3. 0 \in 0..Len(mark.input)
      BY Constants
    <3> QED
      BY <2>0, <3>1, <3>2, <3>3 DEF FreshInv
  <2>2. CASE HoldCore(w)
    <3>1. /\ at[w] = "hold" /\ at'[w] = "symbols" /\ todo'[w] = todo[w]
          /\ UNCHANGED <<unit, fresh>> /\ core'.held = TRUE /\ core'.n = core.n
      BY <1>1, <1>2, <2>2, HoldDoes DEF HoldCore, Go, tracer, history
    <3> QED
      BY <2>0, <3>1 DEF FreshInv
  <2>3. CASE WriteSymbol(w)
    <3>1. /\ at[w] = "symbols" /\ at' = at /\ todo[w] # << >> /\ todo[w] \in Seq(Addresses)
          /\ todo'[w] = Tail(todo[w]) /\ unit' = U!AddSymbol(unit, Head(todo[w]))
          /\ UNCHANGED <<core, fresh>>
      BY <1>1, <1>2, <2>3 DEF WriteSymbol, history
    <3>2. Head(todo[w]) \in Addresses
      BY <3>1, Shrinks
    <3>3. /\ unit'.flight = unit.flight /\ unit'.perfs = unit.perfs
          /\ unit'.symbols = unit.symbols
          /\ IF Len(unit.table) < Size THEN Grown(unit.table, unit'.table, Head(todo[w]))
             ELSE unit'.table = unit.table
      BY <1>2, <3>1, <3>2, AddSymbolIs
    <3>4. PICK k \in 0..Len(mark.input) : Wrote(unit.table, todo[w], k)
      BY <3>1 DEF FreshInv
    <3>5. unit.table \in Seq(Addresses)
      BY <1>2, UnitIs
    <3>6. Wrote(unit'.table, todo'[w], k + 1)
      BY <3>1, <3>3, <3>4, <3>5, WroteMore
    <3>7. k + 1 \in 0..Len(mark.input)
      BY <3>6 DEF Wrote
    <3> QED
      BY <2>0, <3>1, <3>3, <3>6, <3>7 DEF FreshInv
  <2>4. CASE StartUnit(w)
    <3>1. /\ at[w] = "symbols" /\ at'[w] = "release" /\ todo[w] = << >> /\ todo'[w] = todo[w]
          /\ unit' = U!SetRunning(unit) /\ UNCHANGED <<core, fresh>>
      BY <1>1, <1>2, <2>4 DEF StartUnit, Go, history
    <3>2. /\ unit'.flight = unit.flight /\ unit'.perfs = unit.perfs /\ unit'.running = 1
          /\ unit'.symbols = unit.symbols /\ unit'.table = unit.table
      BY <1>2, <3>1, SetRunningIs
    <3> QED
      BY <2>0, <3>1, <3>2 DEF FreshInv
  <2>5. CASE ReleaseCore(w)
    BY <2>5 DEF ReleaseCore
  <2>6. CASE RunReply(w)
    <3>1. at[w] = "ran" /\ fresh' = fresh
      BY <2>6 DEF RunReply, Go
    <3> QED
      BY <3>1 DEF FreshInv
  <2> QED
    BY <1>5, <2>1, <2>2, <2>3, <2>4, <2>5, <2>6 DEF Running
<1>6. CASE Reading(r)
  <2>0. at'[w] = at[w] /\ todo'[w] = todo[w] /\ core' = core
    BY <1>1, <1>6, Others, CoreStays
  <2>1. fresh' = fresh
    BY <1>6 DEF Reading, AskPerf, ReadAvail, ReadPerf, ReadSymbol, PerfReply, history
  <2> SUFFICES ASSUME fresh PROVE FreshInv(w, r)'
    BY <2>1 DEF FreshInv
  <2>2. CASE AskPerf(r)
    <3>1. at'[r] = "avail" /\ UNCHANGED <<unit, got>>
      BY <1>1, <1>2, <2>2 DEF AskPerf, Go, tracer
    <3> QED
      BY <2>0, <3>1 DEF FreshInv
  <2>3. CASE ReadAvail(r)
    <3>1. at'[r] = "read" /\ UNCHANGED <<unit, got>>
      BY <1>1, <1>2, <2>3 DEF ReadAvail, FreshInv
    <3> QED
      BY <2>0, <3>1 DEF FreshInv
  <2>4. CASE ReadPerf(r) \/ ReadSymbol(r)
    BY <2>4 DEF ReadPerf, ReadSymbol, Go, FreshInv
  <2>5. CASE PerfReply(r)
    <3>1. at'[r] = "idle" /\ got'[r] = << >> /\ UNCHANGED unit
      BY <1>1, <1>2, <2>5 DEF PerfReply, Go, tracer
    <3> QED
      BY <2>0, <3>1 DEF FreshInv
  <2> QED
    BY <1>6, <2>2, <2>3, <2>4, <2>5 DEF Reading
<1>7. ASSUME NEW t \in Starters, Starting(t)
      PROVE  FreshInv(w, r)'
  <2>1. at'[w] = at[w] /\ at'[r] = at[r] /\ got'[r] = got[r] /\ todo'[w] = todo[w]
    BY <1>1, <1>7, Others
  <2>2. CASE AskInit(t)
    <3>1. UNCHANGED <<unit, core, fresh>>
      BY <2>2 DEF AskInit, tracer, history
    <3> QED
      BY <2>1, <3>1 DEF FreshInv
  <2>3. CASE LoadOverlay(t)
    <3> SUFFICES ASSUME fresh' PROVE FreshInv(w, r)'
      BY DEF FreshInv
    <3>1. at[w] = "idle" /\ at[r] = "idle"
      BY <2>3 DEF LoadOverlay, Quiet
    <3>2. got[r] = << >>
      BY <3>1 DEF IdleInv
    <3>3. unit' = U!Empty /\ core'.held = TRUE /\ core'.n = 0
      BY <2>3, LoadDoes DEF LoadOverlay
    <3>4. /\ unit'.table = << >> /\ unit'.flight = << >> /\ unit'.perfs = << >>
          /\ unit'.symbols = << >>
      BY <3>3, EmptyUnit
    <3> QED
      BY <2>1, <3>1, <3>2, <3>3, <3>4 DEF FreshInv
  <2> QED
    BY <1>7, <2>2, <2>3 DEF Starting
<1> QED
  BY <1>3, <1>4, <1>5, <1>6, <1>7 DEF Next

-----------------------------------------------------------------------------
(* Times and ids stay in step.                                             *)

LEMMA Kinds ==
    ASSUME Typed
    PROVE  /\ unit \in Units /\ unit.table \in Seq(Addresses) /\ unit.running \in {0, 1}
           /\ unit.flight \in Seq(Hit) /\ unit.perfs \in Seq(Time) /\ unit.symbols \in Seq(Nat)
           /\ Len(unit.flight) \in Nat /\ Len(unit.perfs) \in Nat /\ Len(unit.symbols) \in Nat
           /\ rdata \in Time /\ core.run \in Nat /\ core.n \in 0..MaxCalls
           /\ core.n \in Nat /\ core.n <= MaxCalls
           /\ \A t \in Threads : got[t] \in Seq(Got) /\ seen[t] \in Time /\ Len(got[t]) \in Nat
           /\ page.perf \in Seq(Got) /\ dropped \in Seq(Got)
<1>1. unit \in Units
  BY DEF Typed, UnitTyped
<1>2. rdata \in Time
  BY DEF Typed, UnitTyped
<1>3. core.run \in Nat /\ core.n \in 0..MaxCalls
  BY DEF Typed, CoreTyped, Cores
<1>4. core.n \in Nat /\ core.n <= MaxCalls
  BY <1>3, Constants
<1>5. \A t \in Threads : got[t] \in Seq(Got) /\ seen[t] \in Time
  BY DEF Typed, ThreadsTyped
<1>6. \A t \in Threads : Len(got[t]) \in Nat
  BY <1>5
<1>7. page.perf \in Seq(Got) /\ dropped \in Seq(Got)
  BY DEF Typed, PageTyped
<1>8. /\ unit.table \in Seq(Addresses) /\ unit.running \in {0, 1}
      /\ unit.flight \in Seq(Hit) /\ unit.perfs \in Seq(Time) /\ unit.symbols \in Seq(Nat)
      /\ Len(unit.flight) \in Nat /\ Len(unit.perfs) \in Nat /\ Len(unit.symbols) \in Nat
  BY <1>1, UnitIs
<1> QED
  BY <1>1, <1>2, <1>3, <1>4, <1>5, <1>6, <1>7, <1>8

LEMMA HalfIs ==
    ASSUME NEW r
    PROVE  /\ Half(r) \in Nat /\ Half(r) <= 1 /\ (at[r] = "symbol" => Half(r) = 1)
           /\ (at[r] # "symbol" => Half(r) = 0)
BY DEF Half, One

LEMMA InStepKept ==
    ASSUME NEW r, InStep(r), unit'.perfs = unit.perfs, unit'.symbols = unit.symbols,
           unit'.flight = unit.flight, got'[r] = got[r], seen'[r] = seen[r],
           core'.run = core.run, at'[r] = "symbol" <=> at[r] = "symbol"
    PROVE  InStep(r)' /\ Under(r)' = Under(r)
<1>1. Half(r)' = Half(r)
  BY DEF Half, One
<1>2. InStep(r)'
  BY <1>1 DEF InStep
<1>3. Under(r)' = Under(r)
  BY <1>1 DEF Under
<1> QED
  BY <1>2, <1>3

LEMMA PageKept ==
    ASSUME PageGood, page'.perf = page.perf \/ page'.perf = << >>, core'.run = core.run
    PROVE  PageGood'
BY EmptyIs DEF PageGood

\* How much there is, in numbers.
LEMMA Sizes ==
    ASSUME NEW r, r \in Threads, Typed
    PROVE  \E f, p, s, h, g, n \in Nat :
             /\ f = Len(unit.flight) /\ p = Len(unit.perfs) /\ s = Len(unit.symbols)
             /\ h = Half(r) /\ h <= 1 /\ g = Len(got[r]) /\ n = core.n /\ n <= MaxCalls
             /\ Under(r) = f + p + h + g
             /\ unit.flight # << >> => f >= 1
<1>1. /\ Len(unit.flight) \in Nat /\ Len(unit.perfs) \in Nat /\ Len(unit.symbols) \in Nat
      /\ Len(got[r]) \in Nat /\ core.n \in Nat /\ core.n <= MaxCalls
  BY Kinds
<1>2. Half(r) \in Nat /\ Half(r) <= 1
  BY HalfIs
<1>3. Under(r) = Len(unit.flight) + Len(unit.perfs) + Half(r) + Len(got[r])
  BY DEF Under
<1>4. unit.flight # << >> => Len(unit.flight) >= 1
  BY Kinds, EmptySeq
<1> QED
  BY <1>1, <1>2, <1>3, <1>4

\* The column has room for the mark under way.
LEMMA Fits ==
    ASSUME NEW r, r \in Threads, MaxCalls < Depth, Typed, InStep(r), Under(r) <= core.n,
           unit.flight # << >>
    PROVE  Len(unit.perfs) + 1 < Depth /\ Len(unit.symbols) + 1 < Depth
<1>1. PICK f, p, s, h, g, n \in Nat :
        /\ f = Len(unit.flight) /\ p = Len(unit.perfs) /\ s = Len(unit.symbols)
        /\ h = Half(r) /\ h <= 1 /\ g = Len(got[r]) /\ n = core.n /\ n <= MaxCalls
        /\ Under(r) = f + p + h + g
        /\ unit.flight # << >> => f >= 1
  BY Sizes
<1>2. s = p + h
  BY <1>1 DEF InStep, Paired
<1>3. f >= 1 /\ f + p + h + g <= n
  BY <1>1
<1>4. Depth \in Nat /\ MaxCalls \in Nat
  BY Constants
<1>6. h <= 1 /\ n <= MaxCalls
  BY <1>1
<1>5. p + 1 < Depth /\ s + 1 < Depth
  BY <1>2, <1>3, <1>4, <1>6
<1> QED
  BY <1>1, <1>5

LEMMA UnderIs ==
    ASSUME NEW r, r \in Threads, Typed
    PROVE  Under(r) \in Nat
<1>1. PICK f, p, h, g \in Nat : Under(r) = f + p + h + g
  BY Sizes
<1> QED
  BY <1>1

\* The core enters or leaves a listed function.
LEMMA CleanCall ==
    ASSUME NEW w, NEW r, Runners = {w}, Readers = {r}, Typed, Counted(w), FreshInv(w, r),
           CleanInv(r), clean, Call
    PROVE  CleanInv(r)'
<1>1. /\ core.held = FALSE /\ core'.held = FALSE /\ core'.run = core.run /\ core'.n = core.n + 1
      /\ core.n < MaxCalls /\ UNCHANGED <<at, seen, got, page, fresh, clean>>
  BY CallDoes DEF Call, threads, history
<1>2. /\ ~fresh /\ core.run >= 1 /\ unit.running = 1 /\ Complete(unit.table)
      /\ at[r] = "perf" => unit.perfs # << >>
      /\ Under(r) <= core.n /\ InStep(r) /\ PageGood
  BY <1>1 DEF FreshInv, CleanInv
<1>3. PICK pc \in Addresses, s \in Time :
        unit' = U!See(unit, pc, s) /\ s.run = core.run /\ s.n = core.n + 1 /\ s.pc = pc
  BY CallDoes
<1>4. /\ unit'.running = unit.running /\ unit'.table = unit.table
      /\ unit'.perfs = unit.perfs /\ unit'.symbols = unit.symbols
  BY <1>3, Kinds, SeeIs
<1>5. Half(r)' = Half(r) /\ Half(r) \in Nat /\ r \in Threads
  BY <1>1, HalfIs DEF Half, Threads
<1>6. PageGood'
  BY <1>1, <1>2, PageKept
<1>7. CASE U!Known(unit.table, pc)
  <2> DEFINE id == U!Lookup(unit.table, pc)
  <2> DEFINE x == HitOf(s, id)
  <2>1. Grown(unit.flight, unit'.flight, x)
    BY <1>3, <1>7, Kinds, SeeIs
  <2>2. id \in 0..(Len(unit.table) - 1) /\ unit.table[id + 1] = pc
    <3>1. Len(unit.table) \in Nat /\ DOMAIN unit.table = 1..Len(unit.table)
      BY Kinds
    <3> QED
      BY <1>7, <3>1, LookupFinds
  <2> HIDE DEF id
  <2>3. Good(id, s, core.run)
    <3>1. /\ Len(unit.table) = IF Len(mark.input) < Size THEN Len(mark.input) ELSE Size
          /\ \A i \in 1..Len(unit.table) : unit.table[i] = mark.input[i]
      BY <1>2 DEF Complete
    <3>2. Size \in Nat /\ Len(mark.input) \in Nat
      BY Constants
    <3>3. id \in 0..(Size - 1) /\ id + 1 \in 1..Len(mark.input) /\ id + 1 \in 1..Len(unit.table)
      BY <2>2, <3>1, <3>2
    <3>4. mark.input[id + 1] = s.pc
      BY <1>3, <2>2, <3>1, <3>3
    <3>5. s \in Stamps
      <4>1. core.run \in 1..LastRun
        BY <1>2, CountedBound, Kinds
      <4>2. core.n + 1 \in 1..MaxCalls
        BY <1>1, Kinds, Constants
      <4>3. s = [run |-> s.run, n |-> s.n, pc |-> s.pc]
        BY DEF Time
      <4> QED
        BY <1>3, <4>1, <4>2, <4>3 DEF Stamps
    <3> QED
      BY <1>3, <3>3, <3>4, <3>5 DEF Good
  <2>4. x.perf = s /\ x.symbol = id
    BY DEF HitOf
  <2> HIDE DEF x
  <2>5. \A i \in 1..Len(unit'.flight) :
          Good(unit'.flight[i].symbol, unit'.flight[i].perf, core.run)
    <3>1. /\ Len(unit.flight) \in Nat
          /\ \A i \in 1..Len(unit.flight) :
               Good(unit.flight[i].symbol, unit.flight[i].perf, core.run)
      BY <1>2, Kinds DEF InStep
    <3> QED
      BY <2>1, <2>3, <2>4, <3>1 DEF Grown
  <2>6. InStep(r)'
    BY <1>1, <1>2, <1>4, <1>5, <2>5 DEF InStep
  <2>7. Under(r)' = Under(r) + 1
    <3>1. PICK f, p, s1, h, g, n \in Nat :
            /\ f = Len(unit.flight) /\ p = Len(unit.perfs) /\ s1 = Len(unit.symbols)
            /\ h = Half(r) /\ h <= 1 /\ g = Len(got[r]) /\ n = core.n /\ n <= MaxCalls
            /\ Under(r) = f + p + h + g
            /\ unit.flight # << >> => f >= 1
      BY <1>5, Sizes
    <3>2. Len(unit'.flight) = f + 1
      BY <2>1, <3>1 DEF Grown
    <3>3. Under(r)' = (f + 1) + p + h + g
      BY <1>1, <1>4, <1>5, <3>1, <3>2 DEF Under
    <3>4. Under(r) = f + p + h + g
      BY <3>1
    <3> QED
      BY <3>3, <3>4
  <2>8. Under(r) \in Nat /\ core.n \in Nat
    BY <1>5, UnderIs, Kinds
  <2> QED
    BY <1>1, <1>2, <1>4, <1>6, <2>6, <2>7, <2>8 DEF CleanInv
<1>8. CASE ~U!Known(unit.table, pc)
  <2>1. unit'.flight = unit.flight
    BY <1>3, <1>8, Kinds, SeeIs
  <2>2. InStep(r)' /\ Under(r)' = Under(r)
    BY <1>1, <1>2, <1>4, <2>1, InStepKept
  <2>3. Under(r) \in Nat /\ core.n \in Nat
    BY <1>5, UnderIs, Kinds
  <2> QED
    BY <1>1, <1>2, <1>4, <1>6, <2>2, <2>3 DEF CleanInv
<1> QED
  BY <1>7, <1>8

\* A time and an id join the columns, or leave one of them.
LEMMA BothGrow ==
    ASSUME NEW p0, NEW p1, NEW s0, NEW s1, NEW x, NEW y, NEW run, NEW h \in Nat,
           Len(p0) \in Nat, Paired(s0, p0, h, run), Grown(p0, p1, x), Grown(s0, s1, y),
           Good(y, x, run)
    PROVE  Paired(s1, p1, h, run) /\ (h >= 1 => s1[1] = s0[1])
<1>1. /\ Len(p1) = Len(p0) + 1 /\ p1[Len(p0) + 1] = x /\ \A i \in 1..Len(p0) : p1[i] = p0[i]
      /\ Len(s1) = Len(s0) + 1 /\ s1[Len(s0) + 1] = y /\ \A i \in 1..Len(s0) : s1[i] = s0[i]
  BY DEF Grown
<1>2. Len(s0) = Len(p0) + h /\ \A i \in 1..Len(p0) : Good(s0[i + h], p0[i], run)
  BY DEF Paired
<1>3. ASSUME NEW i \in 1..Len(p1)
      PROVE  Good(s1[i + h], p1[i], run)
  <2>1. CASE i \in 1..Len(p0)
    <3>1. i + h \in 1..Len(s0)
      BY <1>2, <2>1
    <3> QED
      BY <1>1, <1>2, <2>1, <3>1
  <2>2. CASE i = Len(p0) + 1
    <3>1. i + h = Len(s0) + 1
      BY <1>2, <2>2
    <3> QED
      BY <1>1, <2>2, <3>1
  <2> QED
    BY <1>1, <2>1, <2>2
<1>4. Len(s1) = Len(p1) + h
  BY <1>1, <1>2
<1>5. h >= 1 => s1[1] = s0[1]
  BY <1>1, <1>2
<1> QED
  BY <1>3, <1>4, <1>5 DEF Paired

LEMMA TimeLeaves ==
    ASSUME NEW p0, NEW p1, NEW s, NEW run, Len(p0) \in Nat, Paired(s, p0, 0, run),
           Shrunk(p0, p1)
    PROVE  Paired(s, p1, 1, run) /\ Good(s[1], p0[1], run)
BY ShrunkIs DEF Paired

LEMMA IdLeaves ==
    ASSUME NEW p, NEW s0, NEW s1, NEW run, Len(p) \in Nat, Paired(s0, p, 1, run),
           Shrunk(s0, s1)
    PROVE  Paired(s1, p, 0, run)
<1>1. Len(s0) = Len(p) + 1 /\ \A i \in 1..Len(p) : Good(s0[i + 1], p[i], run)
  BY DEF Paired
<1>2. Len(s0) \in Nat
  BY <1>1
<1>3. Len(s1) = Len(p) /\ \A i \in 1..Len(s1) : s1[i] = s0[i + 1]
  BY <1>1, <1>2, ShrunkIs
<1> QED
  BY <1>1, <1>3 DEF Paired

LEMMA CleanRecord ==
    ASSUME NEW w, NEW r, Runners = {w}, Readers = {r}, MaxCalls < Depth, Typed, FreshInv(w, r),
           CleanInv(r), clean, Record
    PROVE  CleanInv(r)'
<1>1. /\ unit.flight # << >> /\ unit' = U!Record(unit)
      /\ UNCHANGED <<core, at, seen, got, page, fresh, clean>>
  BY DEF Record, threads, history
<1>2. /\ ~fresh /\ core.run >= 1 /\ unit.running = 1 /\ r \in Threads
      /\ core.held = TRUE \/ Complete(unit.table)
      /\ Under(r) <= core.n /\ InStep(r) /\ PageGood
  BY <1>1 DEF FreshInv, CleanInv, Threads
<1> DEFINE x == unit.flight[1].perf
<1> DEFINE y == unit.flight[1].symbol
<1>3. /\ unit'.running = unit.running /\ unit'.table = unit.table
      /\ Shrunk(unit.flight, unit'.flight) /\ unit.flight[1] \in Hit
      /\ unit'.perfs = U!Push(unit.perfs, x) /\ unit'.symbols = U!Push(unit.symbols, y)
  BY <1>1, <1>2, Kinds, RecordIs
<1>4. x \in Time /\ y \in Nat
  BY <1>3 DEF Hit
<1>5. Good(y, x, core.run)
  <2>1. 1 \in 1..Len(unit.flight)
    BY <1>3, Kinds, ShrunkIs
  <2> QED
    BY <1>2, <2>1 DEF InStep
<1> HIDE DEF x, y
<1>6. Grown(unit.perfs, unit'.perfs, x) /\ Grown(unit.symbols, unit'.symbols, y)
  <2>1. Len(unit.perfs) + 1 < Depth /\ Len(unit.symbols) + 1 < Depth
    BY <1>1, <1>2, Fits
  <2>2. unit.perfs \in Seq(Time) /\ unit.symbols \in Seq(Nat)
    BY Kinds
  <2>3. Grown(unit.perfs, unit'.perfs, x)
    BY <1>3, <1>4, <2>1, <2>2, PushIs
  <2>4. Grown(unit.symbols, unit'.symbols, y)
    BY <1>3, <1>4, <2>1, <2>2, PushIs
  <2> QED
    BY <2>3, <2>4
<1>7. Half(r)' = Half(r) /\ Half(r) \in Nat /\ (at[r] = "symbol" => Half(r) >= 1)
  BY <1>1, HalfIs DEF Half
<1>8. /\ Paired(unit'.symbols, unit'.perfs, Half(r), core.run)
      /\ Half(r) >= 1 => unit'.symbols[1] = unit.symbols[1]
  <2>1. Paired(unit.symbols, unit.perfs, Half(r), core.run)
    BY <1>2 DEF InStep
  <2>2. Len(unit.perfs) \in Nat
    BY Kinds
  <2> QED
    BY <1>5, <1>6, <1>7, <2>1, <2>2, BothGrow
<1>9. \A i \in 1..Len(unit'.flight) :
        Good(unit'.flight[i].symbol, unit'.flight[i].perf, core.run)
  <2>1. \A i \in 1..Len(unit'.flight) :
          i + 1 \in 1..Len(unit.flight) /\ unit'.flight[i] = unit.flight[i + 1]
    BY <1>3, Kinds, ShrunkIs
  <2> QED
    BY <1>2, <2>1 DEF InStep
<1>10. InStep(r)'
  BY <1>1, <1>2, <1>7, <1>8, <1>9 DEF InStep
<1>11. Under(r)' = Under(r)
  <2>1. PICK f, p, s, h, g, n \in Nat :
          /\ f = Len(unit.flight) /\ p = Len(unit.perfs) /\ s = Len(unit.symbols)
          /\ h = Half(r) /\ h <= 1 /\ g = Len(got[r]) /\ n = core.n /\ n <= MaxCalls
          /\ Under(r) = f + p + h + g
          /\ unit.flight # << >> => f >= 1
    BY <1>2, Sizes
  <2>2. Len(unit'.flight) = f - 1 /\ Len(unit'.perfs) = p + 1
    BY <1>3, <1>6, <2>1 DEF Grown, Shrunk
  <2>3. Under(r)' = (f - 1) + (p + 1) + h + g
    BY <1>1, <1>7, <2>1, <2>2 DEF Under
  <2>4. Under(r) = f + p + h + g
    BY <2>1
  <2> QED
    BY <2>3, <2>4
<1>12. PageGood'
  BY <1>1, <1>2, PageKept
<1>13. unit'.perfs # << >>
  <2>1. Len(unit'.perfs) = Len(unit.perfs) + 1 /\ Len(unit.perfs) \in Nat
    BY <1>6, Kinds DEF Grown
  <2> QED
    BY <2>1, EmptyIs
<1> QED
  BY <1>1, <1>2, <1>3, <1>10, <1>11, <1>12, <1>13 DEF CleanInv

LEMMA CleanRun ==
    ASSUME NEW w, NEW r, Runners = {w}, Readers = {r}, Typed, Pasts, IdleInv(w, r),
           FreshInv(w, r), CleanInv(r), Running(w)
    PROVE  CleanInv(r)'
<1>0. /\ w \in Threads /\ r \in Threads /\ at'[r] = at[r] /\ seen'[r] = seen[r] /\ got'[r] = got[r]
      /\ core.run \in Nat
  BY Apart, Others, RunIs
<1> SUFFICES ASSUME clean' PROVE CleanInv(r)'
  BY DEF CleanInv
<1>1. CASE AskRun(w)
  <2>1. UNCHANGED <<unit, core, page, fresh, clean>>
    BY <1>1 DEF AskRun, tracer, history
  <2>2. InStep(r) /\ PageGood
    BY <2>1 DEF CleanInv
  <2>3. InStep(r)' /\ Under(r)' = Under(r) /\ PageGood'
    BY <1>0, <2>1, <2>2, InStepKept, PageKept
  <2> QED
    BY <1>0, <2>1, <2>3 DEF CleanInv
<1>2. CASE HoldCore(w)
  <2>1. UNCHANGED <<unit, page, fresh, clean>>
    BY <1>2 DEF HoldCore, tracer, history
  <2>2. core'.run = core.run /\ core'.held = TRUE /\ core'.n = core.n
    BY <1>2, HoldDoes
  <2>3. InStep(r) /\ PageGood
    BY <2>1 DEF CleanInv
  <2>4. InStep(r)' /\ Under(r)' = Under(r) /\ PageGood'
    BY <1>0, <2>1, <2>2, <2>3, InStepKept, PageKept
  <2> QED
    BY <1>0, <2>1, <2>2, <2>4 DEF CleanInv
<1>3. CASE WriteSymbol(w)
  <2>1. /\ at[w] = "symbols" /\ todo[w] # << >> /\ unit' = U!AddSymbol(unit, Head(todo[w]))
        /\ UNCHANGED <<core, page, fresh, clean>>
    BY <1>3 DEF WriteSymbol, history
  <2>2. core.held = TRUE
    BY <2>1 DEF IdleInv
  <2>3. todo[w] \in Seq(Addresses)
    BY <1>0 DEF Typed, ThreadsTyped
  <2>4. Head(todo[w]) \in Addresses
    BY <2>1, <2>3, Shrinks
  <2>5. /\ unit'.running = unit.running /\ unit'.flight = unit.flight
        /\ unit'.perfs = unit.perfs /\ unit'.symbols = unit.symbols
    BY <2>1, <2>4, Kinds, AddSymbolIs
  <2>6. InStep(r) /\ PageGood
    BY <2>1 DEF CleanInv
  <2>7. InStep(r)' /\ Under(r)' = Under(r) /\ PageGood'
    BY <1>0, <2>1, <2>5, <2>6, InStepKept, PageKept
  <2> QED
    BY <1>0, <2>1, <2>2, <2>5, <2>7 DEF CleanInv
<1>4. CASE StartUnit(w)
  <2>1. unit' = U!SetRunning(unit) /\ UNCHANGED <<core, page, fresh, clean>>
    BY <1>4 DEF StartUnit, history
  <2>2. /\ unit'.running = 1 /\ unit'.flight = unit.flight /\ unit'.table = unit.table
        /\ unit'.perfs = unit.perfs /\ unit'.symbols = unit.symbols
    BY <2>1, Kinds, SetRunningIs
  <2>3. InStep(r) /\ PageGood
    BY <2>1 DEF CleanInv
  <2>4. InStep(r)' /\ Under(r)' = Under(r) /\ PageGood'
    BY <1>0, <2>1, <2>2, <2>3, InStepKept, PageKept
  <2> QED
    BY <1>0, <2>1, <2>2, <2>4 DEF CleanInv
<1>5. CASE ReleaseCore(w)
  <2>1. at[w] = "release" /\ clean' = fresh /\ UNCHANGED <<unit, page>>
    BY <1>5 DEF ReleaseCore, Go, tracer
  <2>2. core'.run = core.run + 1 /\ core'.n = 0
    BY <1>5, ReleaseDoes
  <2>3. fresh
    BY <2>1
  <2>4. /\ unit.flight = << >> /\ unit.perfs = << >> /\ unit.symbols = << >>
        /\ got[r] = << >> /\ at[r] \in {"idle", "avail", "read"}
        /\ unit.running = 1 /\ todo[w] = << >>
        /\ \E k \in 0..Len(mark.input) : Wrote(unit.table, todo[w], k)
    BY <2>1, <2>3 DEF FreshInv
  <2>5. Complete(unit.table)
    BY <2>4, WroteAll
  <2>6. /\ Len(unit'.flight) = 0 /\ Len(unit'.perfs) = 0 /\ Len(unit'.symbols) = 0
        /\ Len(got'[r]) = 0 /\ Half(r)' = 0
    BY <1>0, <2>1, <2>4, EmptyIs DEF Half, One
  <2>7. InStep(r)'
    BY <1>0, <2>4, <2>6 DEF InStep, Paired
  <2>8. Under(r)' = 0
    BY <2>6 DEF Under
  <2>9. PageGood'
    <3>1. ASSUME NEW i \in 1..Len(page.perf)
          PROVE  page.perf[i].t.run # core.run + 1
      <4>1. page.perf[i].t.run <= core.run
        BY DEF Pasts, PastPage, Past
      <4>2. page.perf[i].t.run \in Nat
        BY Elements DEF Time
      <4> QED
        BY <1>0, <4>1, <4>2
    <3> QED
      BY <2>1, <2>2, <3>1 DEF PageGood
  <2> QED
    BY <1>0, <2>1, <2>2, <2>4, <2>5, <2>7, <2>8, <2>9 DEF CleanInv
<1>6. CASE RunReply(w)
  <2>1. page'.perf = << >> /\ UNCHANGED <<unit, core, fresh, clean>>
    BY <1>6 DEF RunReply, tracer
  <2>2. InStep(r) /\ PageGood
    BY <2>1 DEF CleanInv
  <2>3. InStep(r)' /\ Under(r)' = Under(r) /\ PageGood'
    BY <1>0, <2>1, <2>2, InStepKept, PageKept
  <2> QED
    BY <1>0, <2>1, <2>3 DEF CleanInv
<1> QED
  BY <1>1, <1>2, <1>3, <1>4, <1>5, <1>6 DEF Running

LEMMA CleanRead ==
    ASSUME NEW w, NEW r, Runners = {w}, Readers = {r}, Typed, Pasts, IdleInv(w, r),
           FreshInv(w, r), CleanInv(r), Reading(r)
    PROVE  CleanInv(r)'
<1>0. /\ r \in Threads /\ core' = core
      /\ at \in [Threads -> Places] /\ seen \in [Threads -> Time] /\ got \in [Threads -> Seq(Got)]
  BY Apart, CoreStays DEF Typed, ThreadsTyped
<1>1. fresh' = fresh /\ clean' = clean
  BY DEF Reading, AskPerf, ReadAvail, ReadPerf, ReadSymbol, PerfReply, history
<1> SUFFICES ASSUME clean PROVE CleanInv(r)'
  BY <1>1 DEF CleanInv
<1>2. /\ core.run >= 1 /\ (fresh \/ unit.running = 1)
      /\ core.held = TRUE \/ Complete(unit.table)
      /\ at[r] = "perf" => unit.perfs # << >>
      /\ fresh \/ Under(r) <= core.n
      /\ InStep(r) /\ PageGood
  BY DEF CleanInv
<1>3. CASE AskPerf(r)
  <2>1. at[r] = "idle" /\ at'[r] = "avail" /\ UNCHANGED <<unit, seen, got, page>>
    BY <1>0, <1>3 DEF AskPerf, Go, tracer
  <2>2. InStep(r)' /\ Under(r)' = Under(r) /\ PageGood'
    BY <1>0, <1>2, <2>1, InStepKept, PageKept
  <2> QED
    BY <1>0, <1>1, <1>2, <2>1, <2>2 DEF CleanInv
<1>4. CASE ReadAvail(r)
  <2>1. /\ at[r] = "avail" /\ UNCHANGED <<unit, seen, got, page>>
        /\ at'[r] = IF unit.perfs = << >> THEN "read" ELSE "perf"
    BY <1>0, <1>4 DEF ReadAvail
  <2>2. at'[r] # "symbol" /\ (at'[r] = "perf" => unit.perfs # << >>)
    BY <2>1
  <2>3. InStep(r)' /\ Under(r)' = Under(r) /\ PageGood'
    BY <1>0, <1>2, <2>1, <2>2, InStepKept, PageKept
  <2> QED
    BY <1>0, <1>1, <1>2, <2>1, <2>2, <2>3 DEF CleanInv
<1>5. CASE ReadPerf(r)
  <2>1. /\ at[r] = "perf" /\ at'[r] = "symbol" /\ UNCHANGED <<got, page>>
        /\ unit' = U!PopPerf(unit) /\ rdata' = U!HeadOr(unit.perfs, rdata)
        /\ seen'[r] = rdata'
    BY <1>0, <1>5 DEF ReadPerf, Go
  <2>2. unit.perfs # << >> /\ ~fresh
    BY <1>2, <2>1 DEF FreshInv
  <2>3. /\ unit'.running = unit.running /\ unit'.table = unit.table
        /\ unit'.flight = unit.flight /\ unit'.symbols = unit.symbols
        /\ Shrunk(unit.perfs, unit'.perfs) /\ seen'[r] = unit.perfs[1]
    BY <2>1, <2>2, Kinds, PopPerfIs
  <2>4. Half(r) = 0 /\ Half(r)' = 1
    BY <2>1 DEF Half, One
  <2>5. Paired(unit'.symbols, unit'.perfs, 1, core.run) /\ Good(unit.symbols[1], unit.perfs[1], core.run)
    <3>1. Paired(unit.symbols, unit.perfs, 0, core.run) /\ Len(unit.perfs) \in Nat
      BY <1>2, <2>4, Kinds DEF InStep
    <3> QED
      BY <2>3, <3>1, TimeLeaves
  <2>6. InStep(r)'
    BY <1>0, <1>2, <2>1, <2>3, <2>4, <2>5 DEF InStep
  <2>7. Under(r)' = Under(r)
    <3>1. PICK f, p, s, h, g, n \in Nat :
            /\ f = Len(unit.flight) /\ p = Len(unit.perfs) /\ s = Len(unit.symbols)
            /\ h = Half(r) /\ h <= 1 /\ g = Len(got[r]) /\ n = core.n /\ n <= MaxCalls
            /\ Under(r) = f + p + h + g
            /\ unit.flight # << >> => f >= 1
      BY <1>0, Sizes
    <3>2. Len(unit'.perfs) = p - 1 /\ h = 0
      BY <2>3, <2>4, <3>1 DEF Shrunk
    <3>3. Under(r)' = f + (p - 1) + 1 + g
      BY <2>1, <2>3, <2>4, <3>1, <3>2 DEF Under
    <3>4. Under(r) = f + p + 0 + g
      BY <3>1, <3>2
    <3> QED
      BY <3>3, <3>4
  <2>8. PageGood'
    BY <1>0, <1>2, <2>1, PageKept
  <2> QED
    BY <1>0, <1>1, <1>2, <2>1, <2>3, <2>6, <2>7, <2>8 DEF CleanInv
<1>6. CASE ReadSymbol(r)
  <2>1. /\ at[r] = "symbol" /\ at'[r] = "avail" /\ UNCHANGED page
        /\ unit' = U!PopSymbol(unit)
        /\ rdata' = IF unit.symbols = << >> THEN rdata ELSE IdData(Head(unit.symbols))
        /\ got'[r] = Append(got[r], [id |-> rdata'.n, t |-> seen[r]])
    BY <1>0, <1>6 DEF ReadSymbol, Go
  <2>2. Half(r) = 1 /\ Half(r)' = 0 /\ ~fresh
    BY <2>1 DEF Half, One, FreshInv
  <2>3. Paired(unit.symbols, unit.perfs, 1, core.run) /\ Good(unit.symbols[1], seen[r], core.run)
    BY <1>2, <2>1, <2>2 DEF InStep
  <2>4. unit.symbols # << >>
    <3>1. Len(unit.symbols) = Len(unit.perfs) + 1 /\ Len(unit.perfs) \in Nat
      BY <2>3, Kinds DEF Paired
    <3> QED
      BY <3>1, EmptyIs
  <2>5. /\ unit'.running = unit.running /\ unit'.table = unit.table
        /\ unit'.flight = unit.flight /\ unit'.perfs = unit.perfs
        /\ Shrunk(unit.symbols, unit'.symbols)
        /\ Head(unit.symbols) = unit.symbols[1] /\ unit.symbols[1] \in Nat
    BY <2>1, <2>4, Kinds, PopSymbolIs
  <2> DEFINE x == [id |-> unit.symbols[1], t |-> seen[r]]
  <2>6. got'[r] = Append(got[r], x)
    BY <2>1, <2>4, <2>5, NoStampsAre
  <2>7. x \in Got /\ x.id = unit.symbols[1] /\ x.t = seen[r]
    BY <1>0, <2>5 DEF Got
  <2> HIDE DEF x
  <2>8. Grown(got[r], got'[r], x) /\ Len(got[r]) \in Nat
    BY <1>0, <2>6, <2>7, Grows
  <2>9. \A i \in 1..Len(got'[r]) : Good(got'[r][i].id, got'[r][i].t, core.run)
    <3>1. \A i \in 1..Len(got[r]) : Good(got[r][i].id, got[r][i].t, core.run)
      BY <1>2 DEF InStep
    <3> QED
      BY <2>3, <2>7, <2>8, <3>1 DEF Grown
  <2>10. Paired(unit'.symbols, unit'.perfs, 0, core.run)
    BY <2>3, <2>5, Kinds, IdLeaves
  <2>11. InStep(r)'
    BY <1>0, <1>2, <2>1, <2>2, <2>5, <2>9, <2>10 DEF InStep
  <2>12. Under(r)' = Under(r)
    <3>1. PICK f, p, s, h, g, n \in Nat :
            /\ f = Len(unit.flight) /\ p = Len(unit.perfs) /\ s = Len(unit.symbols)
            /\ h = Half(r) /\ h <= 1 /\ g = Len(got[r]) /\ n = core.n /\ n <= MaxCalls
            /\ Under(r) = f + p + h + g
            /\ unit.flight # << >> => f >= 1
      BY <1>0, Sizes
    <3>2. Len(got'[r]) = g + 1 /\ h = 1
      BY <2>2, <2>8, <3>1 DEF Grown
    <3>3. Under(r)' = f + p + 0 + (g + 1)
      BY <2>2, <2>5, <3>1, <3>2 DEF Under
    <3>4. Under(r) = f + p + 1 + g
      BY <3>1, <3>2
    <3> QED
      BY <3>3, <3>4
  <2>13. PageGood'
    BY <1>0, <1>2, <2>1, PageKept
  <2> QED
    BY <1>0, <1>1, <1>2, <2>1, <2>5, <2>11, <2>12, <2>13 DEF CleanInv
<1>7. CASE PerfReply(r)
  <2> DEFINE s == page.perf \o got[r]
  <2>1. /\ at[r] = "read" /\ at'[r] = "idle" /\ got'[r] = << >> /\ UNCHANGED <<unit, seen>>
        /\ page'.perf = s
    BY <1>0, <1>7 DEF PerfReply, Go, tracer, Typed, PageTyped
  <2>2. page.perf \in Seq(Got) /\ got[r] \in Seq(Got)
    BY <1>0, Kinds
  <2>3. Joined(page.perf, got[r], s)
    BY <2>2, ConcatIs
  <2> HIDE DEF s
  <2>4. PageGood'
    <3>1. \A i \in 1..Len(page.perf) :
            page.perf[i].t.run = core.run => Good(page.perf[i].id, page.perf[i].t, core.run)
      BY <1>2 DEF PageGood
    <3>2. \A i \in 1..Len(got[r]) : Good(got[r][i].id, got[r][i].t, core.run)
      BY <1>2 DEF InStep
    <3>3. \A i \in 1..Len(s) : s[i].t.run = core.run => Good(s[i].id, s[i].t, core.run)
      BY <2>3, <3>1, <3>2 DEF Joined
    <3> QED
      BY <1>0, <2>1, <3>3 DEF PageGood
  <2>5. Half(r) = 0 /\ Half(r)' = 0 /\ Len(got'[r]) = 0
    BY <2>1, EmptyIs DEF Half, One
  <2>6. InStep(r)'
    BY <1>0, <1>2, <2>1, <2>5 DEF InStep
  <2>7. Under(r)' <= Under(r) /\ Under(r)' \in Nat /\ Under(r) \in Nat
    <3>1. PICK f, p, s1, h, g, n \in Nat :
            /\ f = Len(unit.flight) /\ p = Len(unit.perfs) /\ s1 = Len(unit.symbols)
            /\ h = Half(r) /\ h <= 1 /\ g = Len(got[r]) /\ n = core.n /\ n <= MaxCalls
            /\ Under(r) = f + p + h + g
            /\ unit.flight # << >> => f >= 1
      BY <1>0, Sizes
    <3>2. Under(r)' = f + p + 0 + 0
      BY <2>1, <2>5, <3>1 DEF Under
    <3>3. Under(r) = f + p + h + g
      BY <3>1
    <3> QED
      BY <3>2, <3>3
  <2>8. fresh \/ Under(r)' <= core.n
    <3>1. core.n \in Nat
      BY Kinds
    <3> QED
      BY <1>2, <2>7, <3>1
  <2> QED
    BY <1>0, <1>1, <1>2, <2>1, <2>4, <2>6, <2>8 DEF CleanInv
<1> QED
  BY <1>3, <1>4, <1>5, <1>6, <1>7 DEF Reading

LEMMA CleanStep ==
    ASSUME NEW w, NEW r, Runners = {w}, Readers = {r}, MaxCalls < Depth, Inv(w, r), [Next]_vars
    PROVE  CleanInv(r)'
<1>1. /\ Typed /\ Counted(w) /\ Pasts /\ IdleInv(w, r) /\ FreshInv(w, r) /\ CleanInv(r)
      /\ r \in Threads /\ r \notin Starters /\ Starters \subseteq Threads
  BY Apart DEF Inv
<1>2. CASE UNCHANGED <<unit, core, at, seen, got, page, fresh, clean>>
  <2>1. clean => InStep(r)' /\ Under(r)' = Under(r) /\ PageGood'
    BY <1>1, <1>2, InStepKept, PageKept DEF CleanInv
  <2> QED
    BY <1>1, <1>2, <2>1 DEF CleanInv
<1>3. CASE Call \/ Record
  <2>1. clean' = clean
    BY <1>3 DEF Call, Record, history
  <2> SUFFICES ASSUME clean PROVE CleanInv(r)'
    BY <2>1 DEF CleanInv
  <2> QED
    BY <1>1, <1>3, CleanCall, CleanRecord
<1>4. CASE Running(w)
  BY <1>1, <1>4, CleanRun
<1>5. CASE Reading(r)
  BY <1>1, <1>5, CleanRead
<1>6. ASSUME NEW t \in Starters, Starting(t)
      PROVE  CleanInv(r)'
  <2>1. at'[r] = at[r] /\ seen'[r] = seen[r] /\ got'[r] = got[r]
    BY <1>1, <1>6, Others
  <2>2. CASE AskInit(t)
    <3>1. UNCHANGED <<unit, core, page, fresh, clean>>
      BY <2>2 DEF AskInit, tracer, history
    <3>2. clean => InStep(r)' /\ Under(r)' = Under(r) /\ PageGood'
      BY <1>1, <2>1, <3>1, InStepKept, PageKept DEF CleanInv
    <3> QED
      BY <1>1, <2>1, <3>1, <3>2 DEF CleanInv
  <2>3. CASE LoadOverlay(t)
    <3> SUFFICES ASSUME clean' PROVE CleanInv(r)'
      BY DEF CleanInv
    <3>1. clean /\ Quiet /\ fresh' /\ page' = page
      BY <2>3, Zenon DEF LoadOverlay
    <3>2. at[r] = "idle" /\ got[r] = << >>
      BY <1>1, <3>1 DEF Quiet, IdleInv
    <3>3. unit' = U!Empty /\ core'.held = TRUE /\ core'.n = 0 /\ core'.run = core.run
      BY <1>1, <2>3, LoadDoes DEF LoadOverlay
    <3>4. /\ unit'.flight = << >> /\ unit'.perfs = << >> /\ unit'.symbols = << >>
      BY <3>3, EmptyUnit
    <3>5. /\ Len(unit'.flight) = 0 /\ Len(unit'.perfs) = 0 /\ Len(unit'.symbols) = 0
          /\ Len(got'[r]) = 0 /\ Half(r)' = 0
      BY <2>1, <3>2, <3>4, EmptyIs DEF Half, One
    <3>6. InStep(r)'
      BY <2>1, <3>2, <3>5 DEF InStep, Paired
    <3>7. PageGood'
      BY <1>1, <3>1, <3>3, PageKept DEF CleanInv
    <3> QED
      BY <1>1, <2>1, <3>1, <3>2, <3>3, <3>6, <3>7 DEF CleanInv
  <2> QED
    BY <1>6, <2>2, <2>3 DEF Starting
<1> QED
  BY <1>2, <1>3, <1>4, <1>5, <1>6 DEF Next, vars, tracer, threads, history

-----------------------------------------------------------------------------
(* The marks of a run are numbered without a gap.                          *)

LEMMA NumberedKept ==
    ASSUME NEW r, Ordered(r), clean, ~fresh, Delivered' = Delivered, got'[r] = got[r],
           seen'[r] = seen[r], unit'.perfs = unit.perfs, unit'.flight = unit.flight,
           core'.run = core.run, core'.n = core.n, at'[r] = "symbol" <=> at[r] = "symbol"
    PROVE  Ordered(r)'
<1>1. PICK old, base, g, h, p, f \in Nat : Numbered(r, old, base, g, h, p, f)
  BY DEF Ordered
<1>2. Half(r)' = Half(r)
  BY DEF Half, One
<1>3. Numbered(r, old, base, g, h, p, f)'
  BY <1>1, <1>2 DEF Numbered
<1> QED
  BY <1>3 DEF Ordered

\* When the list fits the table, every address of it is known.
LEMMA AllKnown ==
    ASSUME Len(mark.input) <= Size, Typed, Complete(unit.table), NEW pc \in Addresses
    PROVE  U!Known(unit.table, pc)
<1>1. PICK i \in 1..Len(mark.input) : mark.input[i] = pc
  BY ListsAgree
<1>2. unit.table \in Seq(Addresses)
  BY Kinds
<1>3. /\ Len(unit.table) = IF Len(mark.input) < Size THEN Len(mark.input) ELSE Size
      /\ \A k \in 1..Len(unit.table) : unit.table[k] = mark.input[k]
  BY DEF Complete
<1>4. Len(unit.table) = Len(mark.input)
  BY <1>3, Constants, ListsAgree
<1>5. i \in DOMAIN unit.table
  BY <1>1, <1>2, <1>4
<1>6. unit.table[i] = pc
  BY <1>1, <1>3, <1>4
<1> QED
  BY <1>5, <1>6 DEF U!Known

LEMMA OrderedCall ==
    ASSUME NEW w, NEW r, Runners = {w}, Readers = {r}, Len(mark.input) <= Size, Typed,
           FreshInv(w, r), CleanInv(r), Ordered(r), clean, Call
    PROVE  Ordered(r)'
<1>1. /\ core.held = FALSE /\ core'.run = core.run /\ core'.n = core.n + 1
      /\ UNCHANGED <<at, seen, got, page, dropped, fresh, clean>>
  BY CallDoes DEF Call, threads, history
<1>2. ~fresh /\ Complete(unit.table)
  BY <1>1 DEF FreshInv, CleanInv
<1>3. PICK pc \in Addresses, s \in Time :
        unit' = U!See(unit, pc, s) /\ s.run = core.run /\ s.n = core.n + 1
  BY CallDoes
<1> DEFINE x == HitOf(s, U!Lookup(unit.table, pc))
<1>4. x.perf = s
  BY DEF HitOf
<1>5. Grown(unit.flight, unit'.flight, x) /\ unit'.perfs = unit.perfs
  <2>1. U!Known(unit.table, pc)
    BY <1>2, AllKnown
  <2> QED
    BY <1>3, <2>1, Kinds, SeeIs
<1> HIDE DEF x
<1>6. PICK old, base, g, h, p, f \in Nat : Numbered(r, old, base, g, h, p, f)
  BY <1>2 DEF Ordered
<1>7. /\ Len(unit.flight) = f /\ core.n = base + g + h + p + f
      /\ \A i \in 1..f : Is(unit.flight[i].perf, base + g + h + p + i, core.run)
  BY <1>6 DEF Numbered
<1>8. Is(s, base + g + h + p + (f + 1), core.run) /\ core'.n = base + g + h + p + (f + 1)
  BY <1>1, <1>3, <1>7 DEF Is
<1>9. /\ Len(unit'.flight) = f + 1
      /\ \A i \in 1..(f + 1) : Is(unit'.flight[i].perf, base + g + h + p + i, core.run)
  <2>1. /\ Len(unit'.flight) = f + 1 /\ unit'.flight[f + 1] = x
        /\ \A i \in 1..f : unit'.flight[i] = unit.flight[i]
    BY <1>5, <1>7 DEF Grown
  <2>2. \A i \in 1..(f + 1) : i \in 1..f \/ i = f + 1
    OBVIOUS
  <2> QED
    BY <1>4, <1>7, <1>8, <2>1, <2>2
<1>10. Half(r)' = Half(r) /\ Delivered' = Delivered
  BY <1>1 DEF Half, Delivered
<1>11. Numbered(r, old, base, g, h, p, f + 1)'
  BY <1>1, <1>5, <1>6, <1>8, <1>9, <1>10 DEF Numbered
<1> QED
  BY <1>11 DEF Ordered

LEMMA OrderedRecord ==
    ASSUME NEW w, NEW r, Runners = {w}, Readers = {r}, MaxCalls < Depth, Typed,
           FreshInv(w, r), CleanInv(r), Ordered(r), clean, Record
    PROVE  Ordered(r)'
<1>1. /\ unit.flight # << >> /\ unit' = U!Record(unit)
      /\ UNCHANGED <<core, at, seen, got, page, dropped, fresh, clean>>
  BY DEF Record, threads, history
<1>2. /\ ~fresh /\ unit.running = 1 /\ r \in Threads /\ Under(r) <= core.n /\ InStep(r)
  BY <1>1 DEF FreshInv, CleanInv, Threads
<1> DEFINE x == unit.flight[1].perf
<1>3. /\ Shrunk(unit.flight, unit'.flight) /\ unit.flight[1] \in Hit
      /\ unit'.perfs = U!Push(unit.perfs, x)
  BY <1>1, <1>2, Kinds, RecordIs
<1>4. x \in Time
  BY <1>3 DEF Hit
<1>5. Grown(unit.perfs, unit'.perfs, x)
  <2>1. Len(unit.perfs) + 1 < Depth
    BY <1>1, <1>2, Fits
  <2> HIDE DEF x
  <2> QED
    BY <1>3, <1>4, <2>1, Kinds, PushIs
<1>6. PICK old, base, g, h, p, f \in Nat : Numbered(r, old, base, g, h, p, f)
  BY <1>2 DEF Ordered
<1>7. /\ Len(unit.flight) = f /\ Len(unit.perfs) = p /\ core.n = base + g + h + p + f
      /\ \A i \in 1..p : Is(unit.perfs[i], base + g + h + i, core.run)
      /\ \A i \in 1..f : Is(unit.flight[i].perf, base + g + h + p + i, core.run)
  BY <1>6 DEF Numbered
<1>8. /\ 1 \in 1..f /\ Len(unit'.flight) = f - 1 /\ f - 1 \in Nat
      /\ \A i \in 1..(f - 1) : i + 1 \in 1..f /\ unit'.flight[i] = unit.flight[i + 1]
  <2>1. Shrunk(unit.flight, unit'.flight) /\ Len(unit.flight) = f
    BY <1>3, <1>7
  <2>2. Len(unit.flight) \in Nat
    BY <2>1
  <2>3. /\ 1 \in 1..Len(unit.flight) /\ Len(unit'.flight) = Len(unit.flight) - 1
        /\ \A i \in 1..Len(unit'.flight) :
             i + 1 \in 1..Len(unit.flight) /\ unit'.flight[i] = unit.flight[i + 1]
    BY <2>1, <2>2, ShrunkIs
  <2> QED
    BY <2>1, <2>3
<1>9. Is(x, base + g + h + p + 1, core.run)
  BY <1>7, <1>8
<1> HIDE DEF x
<1>10. /\ Len(unit'.perfs) = p + 1
       /\ \A i \in 1..(p + 1) : Is(unit'.perfs[i], base + g + h + i, core.run)
  <2>1. base + g + h + (p + 1) = base + g + h + p + 1
    OBVIOUS
  <2>2. /\ Len(unit'.perfs) = p + 1 /\ unit'.perfs[p + 1] = x
        /\ \A i \in 1..p : unit'.perfs[i] = unit.perfs[i]
    BY <1>5, <1>7 DEF Grown
  <2>3. \A i \in 1..(p + 1) : i \in 1..p \/ i = p + 1
    OBVIOUS
  <2> QED
    BY <1>7, <1>9, <2>1, <2>2, <2>3
<1>11. \A i \in 1..(f - 1) : Is(unit'.flight[i].perf, base + g + h + (p + 1) + i, core.run)
  <2> SUFFICES ASSUME NEW i \in 1..(f - 1)
               PROVE  Is(unit'.flight[i].perf, base + g + h + (p + 1) + i, core.run)
    OBVIOUS
  <2>1. base + g + h + (p + 1) + i = base + g + h + p + (i + 1)
    BY <1>8
  <2>2. Is(unit.flight[i + 1].perf, base + g + h + p + (i + 1), core.run)
    BY <1>7, <1>8
  <2> QED
    BY <1>8, <2>1, <2>2
<1>12. core.n = base + g + h + (p + 1) + (f - 1)
  BY <1>7, <1>8
<1>13. Half(r)' = Half(r) /\ Delivered' = Delivered
  BY <1>1 DEF Half, Delivered
<1>14. Numbered(r, old, base, g, h, p + 1, f - 1)'
  BY <1>1, <1>6, <1>8, <1>10, <1>11, <1>12, <1>13 DEF Numbered
<1>15. f - 1 \in Nat /\ p + 1 \in Nat
  BY <1>8
<1> QED
  BY <1>14, <1>15 DEF Ordered

\* The run begins: nothing the page or the board holds is of it.
LEMMA OrderedRelease ==
    ASSUME NEW w, NEW r, Runners = {w}, Readers = {r}, Typed, Pasts, IdleInv(w, r),
           FreshInv(w, r), ReleaseCore(w)
    PROVE  Ordered(r)'
<1> SUFFICES ASSUME clean' PROVE Ordered(r)'
  BY DEF Ordered
<1>1. /\ at[w] = "release" /\ fresh /\ dropped' = << >> /\ UNCHANGED <<unit, page>>
      /\ w \in Threads /\ r \in Threads /\ w # r
  BY Apart DEF ReleaseCore, Go, tracer
<1>2. core'.run = core.run + 1 /\ core'.n = 0 /\ core.run \in Nat
  BY ReleaseDoes, RunIs
<1>3. at'[r] = at[r] /\ got'[r] = got[r]
  BY <1>1, Others DEF Running
<1>4. /\ unit.flight = << >> /\ unit.perfs = << >> /\ got[r] = << >>
      /\ at[r] \in {"idle", "avail", "read"}
  BY <1>1 DEF FreshInv
<1>5. /\ Len(unit'.flight) = 0 /\ Len(unit'.perfs) = 0 /\ Len(got'[r]) = 0 /\ Half(r)' = 0
      /\ at'[r] # "symbol"
  BY <1>1, <1>3, <1>4, EmptyIs DEF Half, One
<1>6. Delivered' = page.perf
  <2>1. page.perf \in Seq(Got)
    BY Kinds
  <2>2. << >> \o page.perf = page.perf
    BY <2>1, ConcatEmptySeq
  <2> QED
    BY <1>1, <2>2 DEF Delivered
<1>7. PICK old \in Nat : old = Len(page.perf)
  BY Kinds
<1>8. \A i \in 1..old : page.perf[i].t.run # core.run + 1
  <2>1. \A i \in 1..Len(page.perf) : page.perf[i].t.run <= core.run /\ page.perf[i].t.run \in Nat
    BY Elements DEF Pasts, PastPage, Past, Time
  <2> QED
    BY <1>2, <1>7, <2>1
<1>9. Numbered(r, old, 0, 0, 0, 0, 0)'
  <2>1. Len(Delivered') = old + 0 /\ core'.n = 0 + 0 + 0 + 0 + 0
    BY <1>2, <1>6, <1>7
  <2>2. \A i \in 1..old : Delivered'[i].t.run # core'.run
    BY <1>2, <1>6, <1>8
  <2> QED
    BY <1>5, <2>1, <2>2 DEF Numbered
<1> QED
  BY <1>9 DEF Ordered

\* The page forgets what it had, but the history does not.
LEMMA OrderedReply ==
    ASSUME NEW w, NEW r, Runners = {w}, Readers = {r}, Typed, Ordered(r), clean, ~fresh,
           RunReply(w)
    PROVE  Ordered(r)'
<1>1. /\ dropped' = dropped \o page.perf /\ page'.perf = << >> /\ UNCHANGED <<unit, core>>
      /\ w \in Threads /\ r \in Threads /\ w # r
  BY Apart DEF RunReply, tracer
<1>2. at'[r] = at[r] /\ got'[r] = got[r] /\ seen'[r] = seen[r]
  BY <1>1, Others DEF Running
<1>3. Delivered' = Delivered
  <2> DEFINE s == dropped \o page.perf
  <2>1. s \in Seq(Got)
    BY Kinds, ConcatProperties
  <2>2. s \o << >> = s
    <3> HIDE DEF s
    <3> QED
      BY <2>1, ConcatEmptySeq
  <2> QED
    BY <1>1, <2>2 DEF Delivered
<1> QED
  BY <1>1, <1>2, <1>3, NumberedKept

LEMMA OrderedPerf ==
    ASSUME NEW r, Readers = {r}, Typed, Ordered(r), clean, ~fresh, ReadPerf(r),
           unit.perfs # << >>
    PROVE  Ordered(r)'
<1>1. /\ at[r] = "perf" /\ at'[r] = "symbol" /\ UNCHANGED <<core, got, page, dropped>>
      /\ unit' = U!PopPerf(unit) /\ rdata' = U!HeadOr(unit.perfs, rdata)
      /\ seen'[r] = rdata'
  BY DEF ReadPerf, Go, history, Typed, ThreadsTyped, Threads
<1>2. /\ unit'.flight = unit.flight /\ Shrunk(unit.perfs, unit'.perfs)
      /\ seen'[r] = unit.perfs[1]
  BY <1>1, Kinds, PopPerfIs
<1>3. PICK old, base, g, h, p, f \in Nat : Numbered(r, old, base, g, h, p, f)
  BY DEF Ordered
<1>4. h = 0 /\ Half(r)' = 1
  BY <1>1, <1>3 DEF Numbered, Half, One
<1>5. /\ Len(unit.perfs) = p /\ core.n = base + g + h + p + f
      /\ \A i \in 1..p : Is(unit.perfs[i], base + g + h + i, core.run)
      /\ \A i \in 1..f : Is(unit.flight[i].perf, base + g + h + p + i, core.run)
  BY <1>3 DEF Numbered
<1>6. /\ 1 \in 1..p /\ Len(unit'.perfs) = p - 1 /\ p - 1 \in Nat
      /\ \A i \in 1..(p - 1) : i + 1 \in 1..p /\ unit'.perfs[i] = unit.perfs[i + 1]
  <2>1. Shrunk(unit.perfs, unit'.perfs) /\ Len(unit.perfs) = p
    BY <1>2, <1>5
  <2>2. Len(unit.perfs) \in Nat
    BY <2>1
  <2>3. /\ 1 \in 1..Len(unit.perfs) /\ Len(unit'.perfs) = Len(unit.perfs) - 1
        /\ \A i \in 1..Len(unit'.perfs) :
             i + 1 \in 1..Len(unit.perfs) /\ unit'.perfs[i] = unit.perfs[i + 1]
    BY <2>1, <2>2, ShrunkIs
  <2> QED
    BY <2>1, <2>3
<1>7. Is(seen'[r], base + g + 1, core.run)
  <2>1. base + g + h + 1 = base + g + 1
    BY <1>4
  <2> QED
    BY <1>2, <1>5, <1>6, <2>1
<1>8. \A i \in 1..(p - 1) : Is(unit'.perfs[i], base + g + 1 + i, core.run)
  <2> SUFFICES ASSUME NEW i \in 1..(p - 1)
               PROVE  Is(unit'.perfs[i], base + g + 1 + i, core.run)
    OBVIOUS
  <2>1. base + g + 1 + i = base + g + h + (i + 1)
    BY <1>4, <1>6
  <2> QED
    BY <1>5, <1>6, <2>1
<1>9. \A i \in 1..f : Is(unit'.flight[i].perf, base + g + 1 + (p - 1) + i, core.run)
  <2> SUFFICES ASSUME NEW i \in 1..f
               PROVE  Is(unit'.flight[i].perf, base + g + 1 + (p - 1) + i, core.run)
    OBVIOUS
  <2>1. base + g + 1 + (p - 1) + i = base + g + h + p + i
    BY <1>4, <1>6
  <2> QED
    BY <1>2, <1>5, <2>1
<1>10. core.n = base + g + 1 + (p - 1) + f
  BY <1>4, <1>5, <1>6
<1>11. Delivered' = Delivered
  BY <1>1 DEF Delivered
<1>12. Numbered(r, old, base, g, 1, p - 1, f)'
  BY <1>1, <1>2, <1>3, <1>4, <1>6, <1>7, <1>8, <1>9, <1>10, <1>11 DEF Numbered
<1>13. p - 1 \in Nat
  BY <1>6
<1> QED
  BY <1>12, <1>13 DEF Ordered

LEMMA OrderedSymbol ==
    ASSUME NEW r, Readers = {r}, Typed, Ordered(r), clean, ~fresh, ReadSymbol(r)
    PROVE  Ordered(r)'
<1>0. r \in Threads
  BY DEF Threads
<1>1. /\ at[r] = "symbol" /\ at'[r] = "avail" /\ UNCHANGED <<core, page, dropped>>
      /\ unit' = U!PopSymbol(unit)
      /\ rdata' = IF unit.symbols = << >> THEN rdata ELSE IdData(Head(unit.symbols))
      /\ got'[r] = Append(got[r], [id |-> rdata'.n, t |-> seen[r]])
  BY <1>0 DEF ReadSymbol, Go, history, Typed, ThreadsTyped
<1>2. /\ unit'.flight = unit.flight /\ unit'.perfs = unit.perfs
      /\ unit.symbols # << >> => Head(unit.symbols) \in Nat
  BY <1>1, Kinds, PopSymbolIs
<1>3. rdata' \in Time
  BY <1>1, <1>2, Kinds, NoStampsAre
<1> DEFINE x == [id |-> rdata'.n, t |-> seen[r]]
<1>4. x \in Got /\ x.t = seen[r] /\ got'[r] = Append(got[r], x)
  <2>1. rdata'.n \in Nat /\ seen[r] \in Time
    BY <1>0, <1>3, Kinds DEF Time
  <2> QED
    BY <1>1, <2>1 DEF Got
<1> HIDE DEF x
<1>5. Grown(got[r], got'[r], x)
  BY <1>0, <1>4, Kinds, Grows
<1>6. PICK old, base, g, h, p, f \in Nat : Numbered(r, old, base, g, h, p, f)
  BY DEF Ordered
<1>7. h = 1 /\ Half(r)' = 0
  BY <1>1, <1>6 DEF Numbered, Half, One
<1>8. /\ Len(got[r]) = g /\ core.n = base + g + h + p + f
      /\ \A i \in 1..g : Is(got[r][i].t, base + i, core.run)
      /\ Is(seen[r], base + g + 1, core.run)
      /\ \A i \in 1..p : Is(unit.perfs[i], base + g + h + i, core.run)
      /\ \A i \in 1..f : Is(unit.flight[i].perf, base + g + h + p + i, core.run)
  BY <1>1, <1>6 DEF Numbered
<1>9. /\ Len(got'[r]) = g + 1
      /\ \A i \in 1..(g + 1) : Is(got'[r][i].t, base + i, core.run)
  <2>1. /\ Len(got'[r]) = g + 1 /\ got'[r][g + 1] = x
        /\ \A i \in 1..g : got'[r][i] = got[r][i]
    BY <1>5, <1>8 DEF Grown
  <2>2. base + g + 1 = base + (g + 1) /\ \A i \in 1..(g + 1) : i \in 1..g \/ i = g + 1
    OBVIOUS
  <2> QED
    BY <1>4, <1>8, <2>1, <2>2
<1>10. \A i \in 1..p : Is(unit'.perfs[i], base + (g + 1) + 0 + i, core.run)
  <2> SUFFICES ASSUME NEW i \in 1..p
               PROVE  Is(unit'.perfs[i], base + (g + 1) + 0 + i, core.run)
    OBVIOUS
  <2>1. base + (g + 1) + 0 + i = base + g + h + i
    BY <1>7
  <2> QED
    BY <1>2, <1>8, <2>1
<1>11. \A i \in 1..f : Is(unit'.flight[i].perf, base + (g + 1) + 0 + p + i, core.run)
  <2> SUFFICES ASSUME NEW i \in 1..f
               PROVE  Is(unit'.flight[i].perf, base + (g + 1) + 0 + p + i, core.run)
    OBVIOUS
  <2>1. base + (g + 1) + 0 + p + i = base + g + h + p + i
    BY <1>7
  <2> QED
    BY <1>2, <1>8, <2>1
<1>12. core.n = base + (g + 1) + 0 + p + f
  BY <1>7, <1>8
<1>13. Delivered' = Delivered
  BY <1>1 DEF Delivered
<1>14. Numbered(r, old, base, g + 1, 0, p, f)'
  BY <1>1, <1>2, <1>6, <1>7, <1>9, <1>10, <1>11, <1>12, <1>13 DEF Numbered
<1>15. g + 1 \in Nat /\ 0 \in Nat
  OBVIOUS
<1> QED
  BY <1>14, <1>15 DEF Ordered

\* The reply brings what was read to the page.
LEMMA OrderedDeliver ==
    ASSUME NEW w, NEW r, Runners = {w}, Readers = {r}, Typed, Ordered(r), clean, ~fresh,
           PerfReply(r)
    PROVE  Ordered(r)'
<1>0. r \in Threads
  BY Apart
<1> DEFINE s == page.perf \o got[r]
<1> DEFINE D == dropped \o page.perf
<1> DEFINE E == dropped \o s
<1>1. /\ at[r] = "read" /\ at'[r] = "idle" /\ got'[r] = << >>
      /\ UNCHANGED <<unit, core, seen, dropped, fresh, clean>> /\ page'.perf = s
  BY <1>0 DEF PerfReply, Go, tracer, history, Typed, PageTyped, ThreadsTyped
<1>2. page.perf \in Seq(Got) /\ got[r] \in Seq(Got) /\ dropped \in Seq(Got)
  BY <1>0, Kinds
<1>3. s \in Seq(Got) /\ Joined(page.perf, got[r], s)
  BY <1>2, ConcatIs
<1>4. Joined(dropped, page.perf, D)
  BY <1>2, ConcatIs
<1>5. Joined(dropped, s, E)
  <2> HIDE DEF s
  <2> QED
    BY <1>2, <1>3, ConcatIs
<1>6. Delivered = D /\ Delivered' = E
  BY <1>1 DEF Delivered
<1> HIDE DEF s, D, E
<1>7. PICK old, base, g, h, p, f \in Nat : Numbered(r, old, base, g, h, p, f)
  BY DEF Ordered
<1>8. h = 0 /\ Half(r)' = 0 /\ Len(got'[r]) = 0
  BY <1>1, <1>7, EmptyIs DEF Numbered, Half, One
<1>9. /\ Len(D) = old + base /\ Len(got[r]) = g /\ core.n = base + g + h + p + f
      /\ \A i \in 1..old : D[i].t.run # core.run
      /\ \A i \in 1..base : Is(D[old + i].t, i, core.run)
      /\ \A i \in 1..g : Is(got[r][i].t, base + i, core.run)
      /\ \A i \in 1..p : Is(unit.perfs[i], base + g + h + i, core.run)
      /\ \A i \in 1..f : Is(unit.flight[i].perf, base + g + h + p + i, core.run)
  BY <1>6, <1>7 DEF Numbered
<1>10. /\ Len(E) = old + (base + g)
       /\ \A i \in 1..(old + base) : E[i] = D[i]
       /\ \A i \in 1..g : E[old + base + i] = got[r][i]
  <2>1. PICK a, b \in Nat : a = Len(dropped) /\ b = Len(page.perf)
    BY <1>4 DEF Joined
  <2>2. /\ a + b = old + base
        /\ \A i \in 1..a : D[i] = dropped[i] /\ E[i] = dropped[i]
        /\ \A i \in 1..b : D[a + i] = page.perf[i]
    BY <1>4, <1>5, <1>9, <2>1 DEF Joined
  <2>3. Len(s) = b + g /\ Len(E) = a + (b + g)
    BY <1>3, <1>5, <1>9, <2>1 DEF Joined
  <2>4. /\ \A i \in 1..b : s[i] = page.perf[i]
        /\ \A i \in 1..g : s[b + i] = got[r][i]
        /\ \A i \in 1..(b + g) : E[a + i] = s[i]
    BY <1>3, <1>5, <1>9, <2>1, <2>3 DEF Joined
  <2>5. Len(E) = old + (base + g)
    BY <2>2, <2>3
  <2>6. ASSUME NEW i \in 1..(old + base)
        PROVE  E[i] = D[i]
    <3>1. CASE i <= a
      BY <2>2, <3>1
    <3>2. CASE ~(i <= a)
      <4>1. PICK j \in 1..b : i = a + j /\ j \in 1..(b + g)
        <5>1. i - a \in 1..b /\ i = a + (i - a) /\ i - a \in 1..(b + g)
          BY <2>2, <3>2
        <5> QED
          BY <5>1
      <4> QED
        BY <2>2, <2>4, <4>1
    <3> QED
      BY <3>1, <3>2
  <2>7. ASSUME NEW i \in 1..g
        PROVE  E[old + base + i] = got[r][i]
    <3>1. b + i \in 1..(b + g) /\ old + base + i = a + (b + i)
      BY <2>2
    <3> QED
      BY <2>4, <3>1
  <2> QED
    BY <2>5, <2>6, <2>7
<1>11. \A i \in 1..old : E[i].t.run # core.run
  <2>1. \A i \in 1..old : i \in 1..(old + base)
    OBVIOUS
  <2> QED
    BY <1>9, <1>10, <2>1
<1>12. \A i \in 1..(base + g) : Is(E[old + i].t, i, core.run)
  <2> SUFFICES ASSUME NEW i \in 1..(base + g)
               PROVE  Is(E[old + i].t, i, core.run)
    OBVIOUS
  <2>1. CASE i \in 1..base
    <3>1. old + i \in 1..(old + base)
      BY <2>1
    <3> QED
      BY <1>9, <1>10, <2>1, <3>1
  <2>2. CASE i \notin 1..base
    <3>1. PICK j \in 1..g : i = base + j /\ old + i = old + base + j
      <4>1. i - base \in 1..g /\ i = base + (i - base) /\ old + i = old + base + (i - base)
        BY <2>2
      <4> QED
        BY <4>1
    <3> QED
      BY <1>9, <1>10, <3>1
  <2> QED
    BY <2>1, <2>2
<1>13. \A i \in 1..p : Is(unit.perfs[i], (base + g) + 0 + 0 + i, core.run)
  <2> SUFFICES ASSUME NEW i \in 1..p
               PROVE  Is(unit.perfs[i], (base + g) + 0 + 0 + i, core.run)
    OBVIOUS
  <2>1. (base + g) + 0 + 0 + i = base + g + h + i
    BY <1>8
  <2> QED
    BY <1>9, <2>1
<1>14. \A i \in 1..f : Is(unit.flight[i].perf, (base + g) + 0 + 0 + p + i, core.run)
  <2> SUFFICES ASSUME NEW i \in 1..f
               PROVE  Is(unit.flight[i].perf, (base + g) + 0 + 0 + p + i, core.run)
    OBVIOUS
  <2>1. (base + g) + 0 + 0 + p + i = base + g + h + p + i
    BY <1>8
  <2> QED
    BY <1>9, <2>1
<1>15. core.n = (base + g) + 0 + 0 + p + f
  BY <1>8, <1>9
<1>16. Numbered(r, old, base + g, 0, 0, p, f)'
  BY <1>1, <1>6, <1>7, <1>8, <1>10, <1>11, <1>12, <1>13, <1>14, <1>15 DEF Numbered
<1>17. base + g \in Nat /\ 0 \in Nat
  OBVIOUS
<1> QED
  BY <1>16, <1>17 DEF Ordered

LEMMA OrderedStep ==
    ASSUME NEW w, NEW r, Runners = {w}, Readers = {r}, MaxCalls < Depth,
           Len(mark.input) <= Size, Inv(w, r), Ordered(r), [Next]_vars
    PROVE  Ordered(r)'
<1>1. /\ Typed /\ Pasts /\ IdleInv(w, r) /\ FreshInv(w, r) /\ CleanInv(r)
      /\ w \in Threads /\ r \in Threads /\ w # r /\ r \notin Starters /\ Starters \subseteq Threads
      /\ at \in [Threads -> Places]
  BY Apart DEF Inv, Typed, ThreadsTyped
<1>2. CASE UNCHANGED <<unit, core, at, seen, got, page, dropped, fresh, clean>>
  <2> SUFFICES ASSUME clean', ~fresh' PROVE Ordered(r)'
    BY DEF Ordered
  <2>1. Delivered' = Delivered
    BY <1>2 DEF Delivered
  <2> QED
    BY <1>2, <2>1, NumberedKept
<1>3. CASE Call \/ Record
  <2> SUFFICES ASSUME clean', ~fresh' PROVE Ordered(r)'
    BY DEF Ordered
  <2>1. clean
    BY <1>3 DEF Call, Record, history
  <2> QED
    BY <1>1, <1>3, <2>1, OrderedCall, OrderedRecord
<1>4. CASE Running(w)
  <2>1. CASE ReleaseCore(w)
    BY <1>1, <2>1, OrderedRelease
  <2>2. CASE AskRun(w) \/ HoldCore(w) \/ WriteSymbol(w) \/ StartUnit(w) \/ RunReply(w)
    <3> SUFFICES ASSUME clean', ~fresh' PROVE Ordered(r)'
      BY DEF Ordered
    <3>0. clean' = clean /\ fresh' = fresh
      BY <2>2 DEF AskRun, HoldCore, WriteSymbol, StartUnit, RunReply, history
    <3>1. clean /\ ~fresh
      BY <3>0, Zenon
    <3>2. CASE RunReply(w)
      BY <1>1, <3>1, <3>2, OrderedReply
    <3>3. CASE AskRun(w) \/ HoldCore(w) \/ WriteSymbol(w) \/ StartUnit(w)
      <4>1. /\ UNCHANGED <<page, dropped>> /\ core'.run = core.run /\ core'.n = core.n
        BY <1>1, <3>3, CoreStays, HoldDoes DEF AskRun, HoldCore, WriteSymbol, StartUnit, history
      <4>2. unit'.perfs = unit.perfs /\ unit'.flight = unit.flight
        <5>1. CASE AskRun(w) \/ HoldCore(w)
          BY <5>1 DEF AskRun, HoldCore, tracer
        <5>2. CASE WriteSymbol(w)
          <6>1. /\ unit' = U!AddSymbol(unit, Head(todo[w])) /\ todo[w] # << >>
                /\ todo[w] \in Seq(Addresses)
            BY <1>1, <5>2 DEF WriteSymbol, Typed, ThreadsTyped
          <6>2. Head(todo[w]) \in Addresses
            BY <6>1, Shrinks
          <6> QED
            BY <1>1, <6>1, <6>2, Kinds, AddSymbolIs
        <5>3. CASE StartUnit(w)
          BY <1>1, <5>3, Kinds, SetRunningIs DEF StartUnit
        <5> QED
          BY <3>3, <5>1, <5>2, <5>3
      <4>3. at'[r] = at[r] /\ seen'[r] = seen[r] /\ got'[r] = got[r]
        BY <1>1, <1>4, Others
      <4>4. Delivered' = Delivered
        BY <4>1 DEF Delivered
      <4> QED
        BY <3>1, <4>1, <4>2, <4>3, <4>4, NumberedKept
    <3> QED
      BY <2>2, <3>2, <3>3
  <2> QED
    BY <1>4, <2>1, <2>2 DEF Running
<1>5. CASE Reading(r)
  <2> SUFFICES ASSUME clean', ~fresh' PROVE Ordered(r)'
    BY DEF Ordered
  <2>0. clean' = clean /\ fresh' = fresh
    BY <1>5 DEF Reading, AskPerf, ReadAvail, ReadPerf, ReadSymbol, PerfReply, history
  <2>1. clean /\ ~fresh
    BY <2>0, Zenon
  <2>2. CASE AskPerf(r) \/ ReadAvail(r)
    <3>1. UNCHANGED <<unit, core, seen, got, page, dropped>>
      BY <2>2 DEF AskPerf, ReadAvail, tracer, history
    <3>2. at'[r] # "symbol" /\ at[r] # "symbol"
      BY <1>1, <2>2 DEF AskPerf, ReadAvail, Go
    <3>3. Delivered' = Delivered
      BY <3>1 DEF Delivered
    <3> QED
      BY <2>1, <3>1, <3>2, <3>3, NumberedKept
  <2>3. CASE ReadPerf(r)
    <3>1. at[r] = "perf"
      BY <2>3 DEF ReadPerf, Go
    <3>2. unit.perfs # << >>
      BY <1>1, <2>1, <3>1 DEF CleanInv
    <3> QED
      BY <1>1, <2>1, <2>3, <3>2, OrderedPerf
  <2>4. CASE ReadSymbol(r)
    BY <1>1, <2>1, <2>4, OrderedSymbol
  <2>5. CASE PerfReply(r)
    BY <1>1, <2>1, <2>5, OrderedDeliver
  <2> QED
    BY <1>5, <2>2, <2>3, <2>4, <2>5 DEF Reading
<1>6. ASSUME NEW t \in Starters, Starting(t)
      PROVE  Ordered(r)'
  <2> SUFFICES ASSUME clean', ~fresh' PROVE Ordered(r)'
    BY DEF Ordered
  <2>1. at'[r] = at[r] /\ seen'[r] = seen[r] /\ got'[r] = got[r]
    BY <1>1, <1>6, Others
  <2>2. CASE AskInit(t)
    <3>1. UNCHANGED <<unit, core, page, dropped, fresh, clean>>
      BY <2>2 DEF AskInit, tracer, history
    <3>2. Delivered' = Delivered
      BY <3>1 DEF Delivered
    <3> QED
      BY <2>1, <3>1, <3>2, NumberedKept
  <2>3. CASE LoadOverlay(t)
    BY <2>3, Zenon DEF LoadOverlay
  <2> QED
    BY <1>6, <2>2, <2>3 DEF Starting
<1> QED
  BY <1>2, <1>3, <1>4, <1>5, <1>6 DEF Next, vars, tracer, threads, history

-----------------------------------------------------------------------------
(* The invariant, and what follows from it.                                *)

LEMMA InvInit ==
    ASSUME NEW w, NEW r, Runners = {w}, Readers = {r}, Init
    PROVE  Inv(w, r) /\ Ordered(r)
BY InitTyped, CountedInit, PastInit, IdleInit DEF Inv

LEMMA InvStep ==
    ASSUME NEW w, NEW r, Runners = {w}, Readers = {r}, MaxCalls < Depth, Inv(w, r), [Next]_vars
    PROVE  Inv(w, r)'
<1>1. Typed /\ Counted(w) /\ Pasts /\ IdleInv(w, r) /\ FreshInv(w, r)
  BY DEF Inv
<1>2. Typed' /\ Counted(w)' /\ Pasts'
  BY <1>1, StepTyped, CountedStep, PastStep
<1>3. IdleInv(w, r)' /\ FreshInv(w, r)'
  BY <1>1, IdleStep, FreshStep
<1>4. CleanInv(r)'
  BY CleanStep
<1> QED
  BY <1>2, <1>3, <1>4 DEF Inv

LEMMA InvTypes ==
    ASSUME NEW w, NEW r, Runners = {w}, Readers = {r}, Inv(w, r)
    PROVE  TypeOK
<1>1. Typed /\ Counted(w) /\ CleanInv(r) /\ r \in Threads
  BY Apart DEF Inv
<1>2. /\ Len(unit.table) <= Size /\ unit.running \in {0, 1}
      /\ Len(unit.perfs) < Depth /\ Len(unit.symbols) < Depth
  BY <1>1, Kinds DEF Typed, UnitTyped
<1>3. core.held \in BOOLEAN /\ core.n \in 0..MaxCalls /\ Len(core.stack) <= core.n
  BY <1>1 DEF Typed, CoreTyped, Cores
<1>4. core.run \in 0..LastRun
  BY <1>1, CountedBound
<1>5. /\ at \in [Threads -> Places]
      /\ runs \in 0..MaxRuns /\ reads \in 0..MaxReads /\ inits \in 0..MaxInits
      /\ fresh \in BOOLEAN /\ clean \in BOOLEAN
  BY <1>1 DEF Typed, ThreadsTyped, RequestsTyped, HistoryTyped
<1>6. clean => \A t \in Readers : \A i \in DOMAIN got[t] :
                   got[t][i].id \in 0..(Size - 1) /\ got[t][i].t \in Stamps
  <2> SUFFICES ASSUME clean, NEW i \in DOMAIN got[r]
               PROVE  got[r][i].id \in 0..(Size - 1) /\ got[r][i].t \in Stamps
    OBVIOUS
  <2>1. i \in 1..Len(got[r])
    BY <1>1, Kinds
  <2>2. Good(got[r][i].id, got[r][i].t, core.run)
    BY <1>1, <2>1 DEF CleanInv, InStep
  <2> QED
    BY <2>2 DEF Good
<1> QED
  BY <1>2, <1>3, <1>4, <1>5, <1>6 DEF TypeOK

LEMMA InvLabels ==
    ASSUME NEW w, NEW r, Runners = {w}, Readers = {r}, Inv(w, r)
    PROVE  LabelsAreRight
<1>1. Typed /\ IdleInv(w, r) /\ CleanInv(r)
  BY DEF Inv
<1> SUFFICES ASSUME NEW i \in DOMAIN page.perf, clean, page.run = core.run,
                    page.perf[i].t.run = core.run
             PROVE  /\ page.perf[i].id + 1 \in DOMAIN page.lut
                    /\ page.lut[page.perf[i].id + 1] = Meaning(page.perf[i].t.pc)
  BY DEF LabelsAreRight
<1>2. core.run >= 1 /\ PageGood
  BY <1>1 DEF CleanInv
<1>3. i \in 1..Len(page.perf)
  BY <1>1, Kinds
<1>4. Good(page.perf[i].id, page.perf[i].t, core.run)
  BY <1>2, <1>3 DEF PageGood
<1>5. page.lut = mark.response
  <2>1. page.run # 0
    BY <1>2
  <2> QED
    BY <1>1, <2>1 DEF IdleInv
<1> DEFINE k == page.perf[i].id + 1
<1>6. k \in 1..Len(mark.input) /\ mark.input[k] = page.perf[i].t.pc
  BY <1>4 DEF Good
<1> HIDE DEF k
<1>7. k \in DOMAIN mark.response /\ mark.response[k] = Meaning(mark.input[k])
  BY <1>6, ListsAgree
<1> QED
  BY <1>5, <1>6, <1>7 DEF k

\* A part of the marks of a run, and a list that ends with the first of them.
Part(s, from, n, run) == Len(s) = n /\ \A i \in 1..n : Is(s[i], from + i, run)
Line(s, old, n, run) ==
    /\ Len(s) = old + n
    /\ \A i \in 1..old : s[i].run # run
    /\ \A i \in 1..n : Is(s[old + i], i, run)

LEMMA PartOn ==
    ASSUME NEW a \in Seq(Time), NEW b \in Seq(Time), NEW run, NEW from \in Nat, NEW n \in Nat,
           NEW m \in Nat, Part(a, from, n, run), Part(b, from + n, m, run)
    PROVE  a \o b \in Seq(Time) /\ Part(a \o b, from, n + m, run)
<1> DEFINE s == a \o b
<1>1. s \in Seq(Time) /\ Joined(a, b, s)
  BY ConcatIs
<1> HIDE DEF s
<1>2. Len(a) = n /\ Len(b) = m /\ Len(s) = n + m
  BY <1>1 DEF Part, Joined
<1>3. ASSUME NEW i \in 1..(n + m)
      PROVE  Is(s[i], from + i, run)
  <2>1. CASE i \in 1..n
    BY <1>1, <1>2, <2>1 DEF Part, Joined
  <2>2. CASE i \notin 1..n
    <3> DEFINE j == i - n
    <3>1. j \in 1..m /\ i = n + j /\ from + n + j = from + i
      BY <2>2
    <3> HIDE DEF j
    <3>2. s[n + j] = b[j]
      BY <1>1, <1>2, <3>1 DEF Joined
    <3>3. Is(b[j], from + n + j, run)
      BY <3>1 DEF Part
    <3> QED
      BY <3>1, <3>2, <3>3
  <2> QED
    BY <2>1, <2>2
<1>4. Part(s, from, n + m, run)
  BY <1>2, <1>3 DEF Part
<1> QED
  BY <1>1, <1>4 DEF s

LEMMA LineOn ==
    ASSUME NEW a \in Seq(Time), NEW b \in Seq(Time), NEW run, NEW old \in Nat, NEW n \in Nat,
           NEW m \in Nat, Line(a, old, n, run), Part(b, n, m, run)
    PROVE  a \o b \in Seq(Time) /\ Line(a \o b, old, n + m, run)
<1> DEFINE s == a \o b
<1>1. s \in Seq(Time) /\ Joined(a, b, s)
  BY ConcatIs
<1> HIDE DEF s
<1>2. Len(a) = old + n /\ Len(b) = m /\ Len(s) = old + (n + m)
  <2>1. Len(a) = old + n /\ Len(b) = m /\ Len(s) = old + n + m
    BY <1>1 DEF Line, Part, Joined
  <2> QED
    BY <2>1
<1>3. ASSUME NEW i \in 1..old
      PROVE  s[i].run # run
  <2>1. i \in 1..(old + n)
    OBVIOUS
  <2> QED
    BY <1>1, <1>2, <2>1 DEF Line, Joined
<1>4. ASSUME NEW i \in 1..(n + m)
      PROVE  Is(s[old + i], i, run)
  <2>1. CASE i \in 1..n
    <3>1. old + i \in 1..(old + n)
      BY <2>1
    <3> QED
      BY <1>1, <1>2, <2>1, <3>1 DEF Line, Joined
  <2>2. CASE i \notin 1..n
    <3> DEFINE j == i - n
    <3>1. j \in 1..m /\ i = n + j /\ old + n + j = old + i
      BY <2>2
    <3> HIDE DEF j
    <3>2. s[old + n + j] = b[j]
      BY <1>1, <1>2, <3>1 DEF Joined
    <3>3. Is(b[j], n + j, run)
      BY <3>1 DEF Part
    <3> QED
      BY <3>1, <3>2, <3>3
  <2> QED
    BY <2>1, <2>2
<1>5. Line(s, old, n + m, run)
  BY <1>2, <1>3, <1>4 DEF Line
<1> QED
  BY <1>1, <1>5 DEF s

LEMMA TimesAre ==
    ASSUME NEW s \in Seq(Got)
    PROVE  /\ Times(s) \in Seq(Time) /\ Len(Times(s)) = Len(s) /\ Len(s) \in Nat
           /\ \A i \in 1..Len(s) : Times(s)[i] = s[i].t
<1>1. Len(s) \in Nat /\ DOMAIN s = 1..Len(s) /\ \A i \in 1..Len(s) : s[i].t \in Time
  <2>1. Len(s) \in Nat /\ DOMAIN s = 1..Len(s) /\ \A i \in 1..Len(s) : s[i] \in Got
    OBVIOUS
  <2>2. \A x \in Got : x.t \in Time
    BY DEF Got
  <2> QED
    BY <2>1, <2>2
<1>2. Times(s) = [i \in 1..Len(s) |-> s[i].t]
  BY <1>1 DEF Times
<1>3. Times(s) \in Seq(Time) /\ DOMAIN Times(s) = 1..Len(s)
  BY <1>1, <1>2
<1> QED
  BY <1>1, <1>2, <1>3, LenProperties

LEMMA PerfsAre ==
    ASSUME NEW s \in Seq(Hit)
    PROVE  /\ Perfs(s) \in Seq(Time) /\ Len(Perfs(s)) = Len(s) /\ Len(s) \in Nat
           /\ \A i \in 1..Len(s) : Perfs(s)[i] = s[i].perf
<1>1. Len(s) \in Nat /\ DOMAIN s = 1..Len(s) /\ \A i \in 1..Len(s) : s[i].perf \in Time
  <2>1. Len(s) \in Nat /\ DOMAIN s = 1..Len(s) /\ \A i \in 1..Len(s) : s[i] \in Hit
    OBVIOUS
  <2>2. \A x \in Hit : x.perf \in Time
    BY DEF Hit
  <2> QED
    BY <2>1, <2>2
<1>2. Perfs(s) = [i \in 1..Len(s) |-> s[i].perf]
  BY <1>1 DEF Perfs
<1>3. Perfs(s) \in Seq(Time) /\ DOMAIN Perfs(s) = 1..Len(s)
  BY <1>1, <1>2
<1> QED
  BY <1>1, <1>2, <1>3, LenProperties

\* What was delivered, and what the reader carries.
LEMMA DeliveredTimes ==
    ASSUME Typed
    PROVE  /\ Times(dropped) \o Times(page.perf) \in Seq(Time)
           /\ Len(Times(dropped) \o Times(page.perf)) = Len(Delivered)
           /\ \A i \in 1..Len(Delivered) :
                (Times(dropped) \o Times(page.perf))[i] = Delivered[i].t
<1> DEFINE A == Times(dropped)
<1> DEFINE B == Times(page.perf)
<1>1. dropped \in Seq(Got) /\ page.perf \in Seq(Got)
  BY Kinds
<1>2. /\ A \in Seq(Time) /\ Len(A) = Len(dropped) /\ \A i \in 1..Len(dropped) : A[i] = dropped[i].t
      /\ B \in Seq(Time) /\ Len(B) = Len(page.perf)
      /\ \A i \in 1..Len(page.perf) : B[i] = page.perf[i].t
  BY <1>1, TimesAre
<1>3. Joined(dropped, page.perf, Delivered)
  BY <1>1, ConcatIs DEF Delivered
<1> HIDE DEF A, B
<1> DEFINE s == A \o B
<1>4. s \in Seq(Time) /\ Joined(A, B, s)
  BY <1>2, ConcatIs
<1> HIDE DEF s
<1>5. Len(s) = Len(Delivered)
  BY <1>2, <1>3, <1>4 DEF Joined
<1>6. ASSUME NEW i \in 1..Len(Delivered)
      PROVE  s[i] = Delivered[i].t
  <2>1. CASE i \in 1..Len(dropped)
    BY <1>2, <1>3, <1>4, <2>1 DEF Joined
  <2>2. CASE \E j \in 1..Len(page.perf) : i = Len(dropped) + j
    <3>1. PICK j \in 1..Len(page.perf) : i = Len(dropped) + j
      BY <2>2
    <3>2. Delivered[i] = page.perf[j]
      BY <1>3, <3>1 DEF Joined
    <3>3. s[i] = B[j]
      BY <1>2, <1>4, <3>1 DEF Joined
    <3> QED
      BY <1>2, <3>1, <3>2, <3>3
  <2> QED
    BY <1>3, <2>1, <2>2 DEF Joined
<1> QED
  BY <1>4, <1>5, <1>6 DEF s, A, B

LEMMA CarriedIs ==
    ASSUME NEW r, Readers = {r}
    PROVE  Carried = Times(got[r]) \o (IF at[r] = "symbol" THEN <<seen[r]>> ELSE << >>)
<1>1. (CHOOSE t \in Readers : TRUE) = r
  OBVIOUS
<1> QED
  BY <1>1 DEF Carried

LEMMA InvLost ==
    ASSUME NEW w, NEW r, Runners = {w}, Readers = {r}, Inv(w, r), Ordered(r)
    PROVE  NothingLost
<1>0. Typed /\ FreshInv(w, r) /\ r \in Threads
  BY Apart DEF Inv
<1> SUFFICES ASSUME clean, core.n > 0
             PROVE  \E old \in 0..Len(OnTheWay) :
                      /\ Len(OnTheWay) = old + core.n
                      /\ \A i \in 1..old : OnTheWay[i].run # core.run
                      /\ \A i \in 1..core.n : /\ OnTheWay[old + i].run = core.run
                                              /\ OnTheWay[old + i].n = i
  BY DEF NothingLost
<1>1. ~fresh
  BY <1>0 DEF FreshInv
<1>2. PICK old, base, g, h, p, f \in Nat : Numbered(r, old, base, g, h, p, f)
  BY <1>1 DEF Ordered
<1> DEFINE run == core.run
<1> DEFINE A == Times(dropped) \o Times(page.perf)
<1> DEFINE G == Times(got[r])
<1> DEFINE S == IF at[r] = "symbol" THEN <<seen[r]>> ELSE << >>
<1> DEFINE P == unit.perfs
<1> DEFINE F == Perfs(unit.flight)
<1>3. OnTheWay = ((A \o (G \o S)) \o P) \o F
  BY CarriedIs DEF OnTheWay
<1>4. A \in Seq(Time) /\ Line(A, old, base, run)
  <2>1. /\ Len(Delivered) = old + base
        /\ \A i \in 1..old : Delivered[i].t.run # core.run
        /\ \A i \in 1..base : Is(Delivered[old + i].t, i, core.run)
    BY <1>2 DEF Numbered
  <2>2. A \in Seq(Time) /\ Len(A) = old + base /\ \A i \in 1..(old + base) : A[i] = Delivered[i].t
    BY <1>0, <2>1, DeliveredTimes
  <2> HIDE DEF A
  <2>3. \A i \in 1..old : i \in 1..(old + base)
    OBVIOUS
  <2>4. \A i \in 1..base : old + i \in 1..(old + base)
    OBVIOUS
  <2> QED
    BY <2>1, <2>2, <2>3, <2>4 DEF Line
<1>5. G \in Seq(Time) /\ Part(G, base, g, run)
  <2>1. got[r] \in Seq(Got) /\ Len(got[r]) = g /\ \A i \in 1..g : Is(got[r][i].t, base + i, core.run)
    BY <1>0, <1>2, Kinds DEF Numbered
  <2> QED
    BY <2>1, TimesAre DEF Part
<1>6. S \in Seq(Time) /\ Part(S, base + g, h, run)
  <2>1. Half(r) = h /\ (at[r] = "symbol" => Is(seen[r], base + g + 1, core.run))
    BY <1>2 DEF Numbered
  <2>2. CASE at[r] = "symbol"
    <3>1. h = 1 /\ S = <<seen[r]>> /\ seen[r] \in Time
      BY <1>0, <2>1, <2>2, HalfIs, Kinds
    <3> HIDE DEF S
    <3>2. S \in Seq(Time) /\ Len(S) = 1 /\ S[1] = seen[r]
      BY <3>1
    <3>3. \A i \in 1..1 : i = 1
      OBVIOUS
    <3> QED
      BY <2>1, <2>2, <3>1, <3>2, <3>3 DEF Part
  <2>3. CASE at[r] # "symbol"
    <3>1. h = 0 /\ S = << >>
      BY <2>1, <2>3, HalfIs
    <3> HIDE DEF S
    <3> QED
      BY <3>1, EmptyIs DEF Part
  <2> QED
    BY <2>2, <2>3
<1>7. P \in Seq(Time) /\ Part(P, base + g + h, p, run)
  BY <1>0, <1>2, Kinds DEF Numbered, Part
<1>8. F \in Seq(Time) /\ Part(F, base + g + h + p, f, run)
  <2>1. /\ unit.flight \in Seq(Hit) /\ Len(unit.flight) = f
        /\ \A i \in 1..f : Is(unit.flight[i].perf, base + g + h + p + i, core.run)
    BY <1>0, <1>2, Kinds DEF Numbered
  <2> QED
    BY <2>1, PerfsAre DEF Part
<1>9. core.n = base + g + h + p + f
  BY <1>2 DEF Numbered
<1> HIDE DEF A, G, S, P, F, run
<1> DEFINE C == G \o S
<1>10. C \in Seq(Time) /\ Part(C, base, g + h, run)
  BY <1>5, <1>6, PartOn
<1> HIDE DEF C
<1> DEFINE X == A \o C
<1>11. X \in Seq(Time) /\ Line(X, old, base + (g + h), run)
  <2>1. g + h \in Nat
    OBVIOUS
  <2> QED
    BY <1>4, <1>10, <2>1, LineOn
<1> HIDE DEF X
<1> DEFINE Y == X \o P
<1>12. Y \in Seq(Time) /\ Line(Y, old, base + g + h + p, run)
  <2>1. base + (g + h) = base + g + h /\ base + g + h \in Nat
    OBVIOUS
  <2>2. Line(X, old, base + g + h, run)
    BY <1>11, <2>1
  <2> QED
    BY <1>7, <1>11, <2>1, <2>2, LineOn
<1> HIDE DEF Y
<1> DEFINE Z == Y \o F
<1>13. Z \in Seq(Time) /\ Line(Z, old, core.n, run)
  <2>1. base + g + h + p \in Nat
    OBVIOUS
  <2>2. Z \in Seq(Time) /\ Line(Z, old, base + g + h + p + f, run)
    <3> DEFINE n == base + g + h + p
    <3>1. n \in Nat /\ Line(Y, old, n, run) /\ Part(F, n, f, run)
      BY <1>8, <1>12, <2>1
    <3> HIDE DEF n
    <3>2. Z \in Seq(Time) /\ Line(Z, old, n + f, run)
      BY <1>8, <1>12, <3>1, LineOn
    <3> QED
      BY <3>2 DEF n
  <2> QED
    BY <1>9, <2>2
<1> HIDE DEF Z
<1>14. OnTheWay = Z
  BY <1>3 DEF Z, Y, X, C
<1>15. Len(Z) = old + core.n /\ old \in 0..Len(Z)
  <2>1. core.n \in Nat
    BY <1>9
  <2> QED
    BY <1>13, <2>1 DEF Line
<1> QED
  BY <1>13, <1>14, <1>15 DEF Line, Is, run

-----------------------------------------------------------------------------

(* Types, with one runner, one reader and a ring that the marks of a run   *)
(* do not fill: the table and the columns keep within the tracer, no run   *)
(* is counted that was not asked for, and in a run that is the first       *)
(* behind a load that met no request (clean) what the reader has read are  *)
(* ids of the table and stamps of the program: the reader never takes an   *)
(* id for a time.                                                          *)
THEOREM TypeCorrect ==
    ASSUME NEW w, NEW r, Runners = {w}, Readers = {r}, MaxCalls < Depth
    PROVE  Spec => []TypeOK
<1>1. Init => Inv(w, r)
  BY InvInit
<1>2. Inv(w, r) /\ [Next]_vars => Inv(w, r)'
  BY InvStep
<1>3. Inv(w, r) => TypeOK
  BY InvTypes
<1> QED
  BY <1>1, <1>2, <1>3, PTL DEF Spec

(* With one runner, one reader and a ring that the marks of a run do not   *)
(* fill, in a clean run that the page has the reply to: a mark of this run *)
(* on the page bears the name of the function whose entry or return was    *)
(* seen at its time (App.vue looks it up in the list tools.run returned,   *)
(* by the id the tracer put beside the time), for every listing and every  *)
(* table, one that cuts the list included.                                 *)
THEOREM LabelsAlwaysRight ==
    ASSUME NEW w, NEW r, Runners = {w}, Readers = {r}, MaxCalls < Depth
    PROVE  Spec => []LabelsAreRight
<1>1. Init => Inv(w, r)
  BY InvInit
<1>2. Inv(w, r) /\ [Next]_vars => Inv(w, r)'
  BY InvStep
<1>3. Inv(w, r) => LabelsAreRight
  BY InvLabels
<1> QED
  BY <1>1, <1>2, <1>3, PTL DEF Spec

(* With one runner, one reader, a list of addresses that fits the table    *)
(* and a ring that the marks of a run do not fill: no mark of a clean run  *)
(* is lost between the core and the page, read twice or taken out of       *)
(* order, but for those the page had before the reply to the run.          *)
THEOREM NothingEverLost ==
    ASSUME NEW w, NEW r, Runners = {w}, Readers = {r}, MaxCalls < Depth,
           Len(mark.input) <= Size
    PROVE  Spec => []NothingLost
<1>1. Init => Inv(w, r) /\ Ordered(r)
  BY InvInit
<1>2. Inv(w, r) /\ Ordered(r) /\ [Next]_vars => (Inv(w, r) /\ Ordered(r))'
  BY InvStep, OrderedStep
<1>3. Inv(w, r) /\ Ordered(r) => NothingLost
  BY InvLost
<1> QED
  BY <1>1, <1>2, <1>3, PTL DEF Spec
=============================================================================
