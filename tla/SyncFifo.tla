------------------------------ MODULE SyncFifo ------------------------------
(***************************************************************************)
(* sync_fifo of RISCV/fifo.v: what its three always blocks make of the     *)
(* memory, the pointers and the counter at a clock.                        *)
(***************************************************************************)
EXTENDS Integers, Sequences

CONSTANT
    DATA_DEPTH      \* a power of two: the pointers wrap at it

ASSUME DepthAssumption == DATA_DEPTH \in Nat \ {0, 1}

Slots == 0..(DATA_DEPTH - 1)
Succ(ptr) == (ptr + 1) % DATA_DEPTH

Fifos(V) == [data: [Slots -> V], wr_ptr: Slots, rd_ptr: Slots, counter: 0..DATA_DEPTH]

InitFifo(v) == [data |-> [s \in Slots |-> v], wr_ptr |-> 0, rd_ptr |-> 0, counter |-> 0]

full(f) == f.counter = DATA_DEPTH
empty(f) == f.counter = 0
rd_data(f) == f.data[f.rd_ptr]

Reset(f) == [f EXCEPT !.wr_ptr = 0, !.rd_ptr = 0, !.counter = 0]

\* Mutant: the counter counts writes a full memory refuses.
CountedFull(f, rd_en, wr_en) ==
    CASE ~rd_en /\ ~wr_en -> f.counter
      [] rd_en /\ wr_en -> IF empty(f) THEN f.counter + 1 ELSE f.counter
      [] ~rd_en /\ wr_en -> f.counter + 1
      [] rd_en /\ ~wr_en -> IF empty(f) THEN f.counter ELSE f.counter - 1
\* Mutant: a read together with a write never counts, not even of an empty memory.
CountedEmpty(f, rd_en, wr_en) ==
    CASE rd_en = wr_en -> f.counter
      [] ~rd_en /\ wr_en -> IF full(f) THEN f.counter ELSE f.counter + 1
      [] rd_en /\ ~wr_en -> IF empty(f) THEN f.counter ELSE f.counter - 1
\* A read and a write of a full memory leave the counter as it is, though only
\* the read takes place.
Counted(f, rd_en, wr_en) ==
    CASE ~rd_en /\ ~wr_en -> f.counter
      [] rd_en /\ wr_en -> IF empty(f) THEN f.counter + 1 ELSE f.counter
      [] ~rd_en /\ wr_en -> IF full(f) THEN f.counter ELSE f.counter + 1
      [] rd_en /\ ~wr_en -> IF empty(f) THEN f.counter ELSE f.counter - 1

Clocked(f, rd_en, wr_en, wr_data) ==
    LET writes == wr_en /\ ~full(f)
    IN  [data |-> IF writes THEN [f.data EXCEPT ![f.wr_ptr] = wr_data] ELSE f.data,
         wr_ptr |-> IF writes THEN Succ(f.wr_ptr) ELSE f.wr_ptr,
         rd_ptr |-> IF rd_en /\ ~empty(f) THEN Succ(f.rd_ptr) ELSE f.rd_ptr,
         counter |-> Counted(f, rd_en, wr_en)]

\* What is inside, the oldest first.
Content(f) == [i \in 1..f.counter |-> f.data[(f.rd_ptr + i - 1) % DATA_DEPTH]]
=============================================================================
