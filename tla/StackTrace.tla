----------------------------- MODULE StackTrace -----------------------------
(***************************************************************************)
(* The drawing of the trace in Vue/pynq/src/App.vue: update_perf adds the  *)
(* marks it received to perf and replays all of them on a stack; every     *)
(* call that has returned becomes a box of the chart, and so do calls that *)
(* are still running.  update_option, the same replay, is never called.    *)
(*                                                                         *)
(* Colours and coordinates are left out.  A mark is the index of a symbol  *)
(* in id_lut and a time; time grows by one from mark to mark.              *)
(***************************************************************************)
EXTENDS Integers, SequencesExt

CONSTANTS
    Names,          \* functions of the traced program
    CurrentPerf,    \* current_perf, which nothing ever changes (700)
    MaxMarks        \* bound: marks of one run

ASSUME StackAssumption ==
    /\ Names # {}
    /\ CurrentPerf \in Nat
    /\ MaxMarks \in Nat

\* What tools.mark answers for every function: its start, then its end.  An id
\* beyond the table is one the table does not explain.
Unknown == [name |-> "", type |-> "none"]
Symbols == [name: Names, type: {"start", "end"}] \cup {Unknown}

VARIABLES
    perf,   \* the marks received since the latest run, resolved by id_lut
    data,   \* the boxes on the chart
    broken  \* the latest replay threw an exception

vars == <<perf, data, broken>>

-----------------------------------------------------------------------------
(* The replay.                                                             *)

Box(name, level, from, to) == [name |-> name, level |-> level, from |-> from, to |-> to]

Blank == [stack |-> << >>, boxes |-> {}, broken |-> FALSE]

\* Mutant: the box of a call that returned stands one level too high.
ReturnedTooHigh(s, item) ==
    IF s.stack = << >> THEN [s EXCEPT !.broken = TRUE]
    ELSE LET u == Last(s.stack)
             below == Front(s.stack)
         IN  [s EXCEPT !.stack = below,
                       !.boxes = IF u.name = item.name
                                 THEN @ \cup {Box(u.name, Len(s.stack), u.t, item.t)} ELSE @]
\* Mutant: the name of the call that returns is not compared.
ReturnedUnchecked(s, item) ==
    IF s.stack = << >> THEN [s EXCEPT !.broken = TRUE]
    ELSE LET u == Last(s.stack)
             below == Front(s.stack)
         IN  [s EXCEPT !.stack = below,
                       !.boxes = @ \cup {Box(item.name, Len(below), u.t, item.t)}]
\* An end pops a call whatever its name; an empty stack has none to look at.
Returned(s, item) ==
    IF s.stack = << >> THEN [s EXCEPT !.broken = TRUE]
    ELSE LET u == Last(s.stack)
             below == Front(s.stack)
         IN  [s EXCEPT !.stack = below,
                       !.boxes = IF u.name = item.name
                                 THEN @ \cup {Box(u.name, Len(below), u.t, item.t)} ELSE @]

Replayed(s, item) ==
    CASE s.broken -> s
      [] ~s.broken /\ item.type = "start" ->
           [s EXCEPT !.stack = Append(@, [name |-> item.name, t |-> item.t])]
      [] ~s.broken /\ item.type = "end" -> Returned(s, item)
      [] OTHER -> [s EXCEPT !.broken = TRUE]

\* Mutant: the outermost calls are drawn.
RunningOutermost(stack) ==
    {Box(stack[k].name, k - 1, stack[k].t, CurrentPerf) : k \in 1..((Len(stack) + 1) \div 2)}
\* Mutant: the level is taken before the call is popped.
RunningTooHigh(stack) ==
    {Box(stack[k].name, k, stack[k].t, CurrentPerf) :
        k \in (Len(stack) \div 2 + 1)..Len(stack)}
\* The loop counts up to a length that shrinks with every pop: half of the open
\* calls, the innermost ones, are drawn.
Running(stack) ==
    {Box(stack[k].name, k - 1, stack[k].t, CurrentPerf) :
        k \in (Len(stack) \div 2 + 1)..Len(stack)}

Replay(marks) ==
    LET after[n \in 0..Len(marks)] ==
            IF n = 0 THEN Blank ELSE Replayed(after[n - 1], marks[n])
    IN  after[Len(marks)]

\* Mutant: the replay goes on with the half of the marks that is new.
ShowFromNew(marks, new) ==
    LET s == Replay(new)
    IN  /\ broken' = s.broken
        /\ data' = IF s.broken THEN data ELSE s.boxes \cup Running(s.stack)
Show(marks, new) ==
    LET s == Replay(marks)
    IN  /\ broken' = s.broken
        /\ data' = IF s.broken THEN data ELSE s.boxes \cup Running(s.stack)

-----------------------------------------------------------------------------
\* A run has been started and its first answer was empty: what the page shows as
\* a sample before is gone.
Init == perf = << >> /\ data = {} /\ broken = FALSE

\* What the traced program did (external) is any sequence of symbols.
Marked(marks, symbol) == Append(marks, [name |-> symbol.name, type |-> symbol.type,
                                        t |-> Len(marks) + 1])

\* A reply with one mark or two.
UpdatePerf ==
    \E first \in Symbols :
        /\ Len(perf) < MaxMarks
        /\ LET one == Marked(perf, first)
           IN  \/ perf' = one
               \/ \E second \in Symbols :
                    /\ Len(one) < MaxMarks
                    /\ perf' = Marked(one, second)
        /\ Show(perf', SubSeq(perf', Len(perf) + 1, Len(perf')))

\* src_run's reply empties perf and asks for the trace, whose first answer has no
\* mark yet: the two together.
Run ==
    /\ perf # << >>
    /\ perf' = << >>
    /\ Show(<< >>, << >>)

Next == UpdatePerf \/ Run

Spec == Init /\ [][Next]_vars

-----------------------------------------------------------------------------
TypeOK ==
    /\ Len(perf) <= MaxMarks
    /\ \A b \in data : b.name \in Names /\ b.level \in 0..(MaxMarks - 1)
    /\ broken \in BOOLEAN

Starts(i, j) == Cardinality({k \in i..j : perf[k].type = "start"})
Ends(i, j) == Cardinality({k \in i..j : perf[k].type = "end"})

\* The call that starts at mark i returns at mark j.
Returns(i, j) ==
    /\ i < j /\ Starts(i, j) = Ends(i, j)
    /\ \A k \in i..(j - 1) : Starts(i, k) > Ends(i, k)

\* The marks are those of a program seen from its first instruction on: every end
\* is the end of the call that is open.
Orderly ==
    \A j \in DOMAIN perf :
        /\ perf[j].type # "none"
        /\ perf[j].type = "end" =>
             \E i \in 1..j : Returns(i, j) /\ perf[i].type = "start" /\ perf[i].name = perf[j].name

(* In an orderly trace the boxes of returned calls are exactly the calls:  *)
(* each once, from its call to its return, at the depth it was called at.  *)
CallsAreBoxes ==
    LET Calls == {c \in (DOMAIN perf) \X (DOMAIN perf) : Returns(c[1], c[2])}
    IN  Orderly => {b \in data : b.to # CurrentPerf} =
            {Box(perf[c[1]].name, Starts(1, c[1]) - 1 - Ends(1, c[1]), c[1], c[2]) : c \in Calls}

(* In an orderly trace the innermost half of the calls still running, and  *)
(* no other, has a box.                                                    *)
RunningAreBoxes ==
    LET Going == {i \in DOMAIN perf : perf[i].type = "start"
                                      /\ ~ \E j \in DOMAIN perf : Returns(i, j)}
        Shown == {b \in data : b.to = CurrentPerf}
    IN  Orderly =>
            /\ Cardinality(Shown) = (Cardinality(Going) + 1) \div 2
            /\ \A b \in Shown : b.from \in Going /\ \A i \in Going :
                 i > b.from => \E c \in Shown : c.from = i

(* Whatever the marks, two boxes of returned calls are apart or one is     *)
(* inside the other and higher, and each goes from a start of its function *)
(* to an end of the same function.                                         *)
BoxesNest ==
    \A b \in data : b.to # CurrentPerf =>
        /\ perf[b.from].type = "start" /\ perf[b.to].type = "end"
        /\ perf[b.from].name = b.name /\ perf[b.to].name = b.name
        /\ \A c \in data \ {b} : c.to # CurrentPerf =>
             \/ b.to < c.from \/ c.to < b.from
             \/ b.from < c.from /\ c.to < b.to /\ b.level < c.level
             \/ c.from < b.from /\ b.to < c.to /\ c.level < b.level

(* A replay that threw throws for ever: only a new run mends the chart.    *)
BrokenUntilRun == [][broken /\ ~broken' => perf' = << >>]_vars
=============================================================================
