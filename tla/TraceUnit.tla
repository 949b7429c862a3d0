----------------------------- MODULE TraceUnit -----------------------------
(***************************************************************************)
(* What the function tracer promises, without clocks, pipeline stages or   *)
(* bus phases: a symbol table, the hits on their way to the marks, and the *)
(* two columns of marks the host pops one by one.                          *)
(*                                                                         *)
(* The operators on a unit are also the tracer of the modules that model   *)
(* the server and the page around it.                                      *)
(***************************************************************************)
EXTENDS Integers, Sequences

CONSTANTS
    Size,       \* symbols the table holds
    BankSize,   \* symbols looked up by one stage of the pipeline
    Depth,      \* OUTPUT_FIFO_DEPTH
    Latency,    \* hits that can be in the pipeline at a time
    Addrs, Perfs

VARIABLES
    unit,   \* [table, running, flight, perfs, symbols]
    rdata   \* what the last read returned

vars == <<unit, rdata>>

Marks == [perf: Perfs, symbol: 0..(Size - 1)]

Empty == [table |-> << >>, running |-> 0, flight |-> << >>, perfs |-> << >>, symbols |-> << >>]

Index(i) == i - 1
BankOf(i) == Index(i) \div BankSize

Known(table, pc) == \E i \in DOMAIN table : table[i] = pc

\* Of several symbols with one address a later bank wins, and inside a bank
\* the earlier symbol.
Lookup(table, pc) ==
    Index(CHOOSE i \in DOMAIN table :
            /\ table[i] = pc
            /\ \A k \in DOMAIN table :
                 table[k] = pc => \/ BankOf(k) < BankOf(i)
                                  \/ BankOf(k) = BankOf(i) /\ i <= k)

-----------------------------------------------------------------------------
(* Operations on a unit u.                                                 *)

AddSymbol(u, a) == IF Len(u.table) < Size THEN [u EXCEPT !.table = Append(@, a)] ELSE u

SetRunning(u) == [u EXCEPT !.running = 1]

\* The core retires pc at time t.
See(u, pc, t) ==
    IF Known(u.table, pc)
    THEN [u EXCEPT !.flight = Append(@, [perf |-> t, symbol |-> Lookup(u.table, pc)])]
    ELSE u

\* A column has no room for Depth marks: the mark that would fill it makes the
\* pointers equal again, and the backlog is gone.
Push(column, v) == IF Len(column) + 1 < Depth THEN Append(column, v) ELSE << >>

\* The oldest hit leaves the pipeline, and is recorded if the unit runs.
Record(u) ==
    LET m == Head(u.flight)
    IN  [u EXCEPT !.flight = Tail(@),
                  !.perfs = IF u.running = 1 THEN Push(@, m.perf) ELSE @,
                  !.symbols = IF u.running = 1 THEN Push(@, m.symbol) ELSE @]

\* Popping an empty column returns what the read before returned.
PopPerf(u) == [u EXCEPT !.perfs = IF @ = << >> THEN @ ELSE Tail(@)]
PopSymbol(u) == [u EXCEPT !.symbols = IF @ = << >> THEN @ ELSE Tail(@)]
HeadOr(column, old) == IF column = << >> THEN old ELSE Head(column)

-----------------------------------------------------------------------------
Init == unit = Empty /\ rdata = 0

\* The outcomes of one read: the unit it leaves, and the data.  The number of
\* marks left is exact when it is zero; otherwise it is the difference of two
\* pointers, which may have wrapped.
Left(n) == IF n = 0 THEN {0} ELSE {n, n - Depth}

Reading(u, old) ==
    {<<u, old>>, <<u, u.running>>, <<u, Len(u.table)>>,
     <<PopPerf(u), HeadOr(u.perfs, old)>>,
     <<PopSymbol(u), HeadOr(u.symbols, old)>>}
    \cup {<<u, d>> : d \in Left(Len(u.perfs))}

Leaving(u) == {u} \cup IF u.flight = << >> THEN {} ELSE {Record(u)}
Adding(u) == {u} \cup {AddSymbol(u, a) : a \in Addrs}
Starting(u) == {u, SetRunning(u)}

\* What the host writes leaves the hits and the marks of u as they are in v.
Written(u, v) ==
    /\ v.flight = u.flight /\ v.perfs = u.perfs /\ v.symbols = u.symbols
    /\ \E a \in Adding(u) : v \in Starting(a)

\* A hit enters, or none.
Entered(u, v) ==
    IF v.flight = u.flight
    THEN Written(u, v)
    ELSE \E pc \in Addrs, t \in Perfs : Written(See(u, pc, t), v)

\* In one clock the host may read and write, a hit leave and another enter; all
\* of them see what the clock before left.
Step ==
    \E u \in {unit}, v \in {unit'} :
        /\ \E r \in Reading(u, rdata) :
             /\ rdata' = r[2]
             /\ \E l \in Leaving(r[1]) : Entered(l, v)
        /\ Len(v.flight) <= Latency

Spec == Init /\ [][Step]_vars
=============================================================================
