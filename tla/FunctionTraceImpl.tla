------------------------- MODULE FunctionTraceImpl -------------------------
(* The clocked tracer implements the unit of TraceUnit.                    *)
EXTENDS FunctionTrace

Last(S) == CHOOSE j \in S : \A k \in S : k <= j

\* A program counter the table holds, and the symbol it has: the first of the
\* last bank that holds it.
Held(pc) == \E i \in Slots : symbol_valid[i] /\ symbol_array[i] = pc
Found(pc) == First(Hits(Last({j \in Levels : Hits(j, pc) # {}}), pc))

\* The stages whose event will leave as a hit, counted from the one to leave first.
Due == {j \in Levels : stage[j].en /\ Held(stage[j].pc)}
Rank(S, j) == Cardinality({i \in S : j <= i})
Nth(S, k) == CHOOSE j \in S : Rank(S, j) = k

Promised == [j \in Due |-> [perf |-> stage[j].perf, symbol |-> Found(stage[j].pc)]]

Unread(p) == (mark_write_counter - p) % MarkDepth
Place(p, k) == (p + k - 1) % MarkDepth

Table == [i \in 1..counter |-> symbol_array[i - 1]]
Flight == [k \in 1..Cardinality(Due) |-> Promised[Nth(Due, k)]]
PerfColumn == [k \in 1..Unread(mark_read_counter_perf) |->
                 mark[Place(mark_read_counter_perf, k)].perf]
SymbolColumn == [k \in 1..Unread(mark_read_counter_symbol) |->
                   mark[Place(mark_read_counter_symbol, k)].symbol]

AbstractUnit ==
    [table |-> Table, running |-> reg_system_run, flight |-> Flight,
     perfs |-> PerfColumn, symbols |-> SymbolColumn]

Unit == INSTANCE TraceUnit WITH
    Size <- NSym, Depth <- MarkDepth, Latency <- Banks,
    unit <- AbstractUnit, rdata <- rdata

(* With the core held in reset while the table is written, the tracer is   *)
(* the unit: a PC is looked up in the whole table at once, marks are       *)
(* recorded in the order of retirement, each column is popped from its     *)
(* oldest mark, and a full ring drops its whole backlog.                   *)
ImplementsUnit == Unit!Spec
=============================================================================
