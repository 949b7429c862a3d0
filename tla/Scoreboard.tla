----------------------------- MODULE Scoreboard -----------------------------
(***************************************************************************)
(* async_fifo_comparator of fifo.v: the destinations of the instructions   *)
(* in flight, in a ring whose every slot is compared with the operands of  *)
(* the instruction in the decoder.                                         *)
(***************************************************************************)
EXTENDS Integers

CONSTANT BOARD_DEPTH    \* DATA_DEPTH of the decoder's instance (4)

ASSUME BoardAssumption == BOARD_DEPTH \in Nat \ {0}

Places == 0..(BOARD_DEPTH - 1)
After(ptr) == (ptr + 1) % BOARD_DEPTH

Boards(R) == [data: [Places -> R], valid: [Places -> BOOLEAN],
              wr_ptr: Places, rd_ptr: Places, counter: 0..BOARD_DEPTH]

EmptyBoard == [data |-> [s \in Places |-> 0], valid |-> [s \in Places |-> FALSE],
               wr_ptr |-> 0, rd_ptr |-> 0, counter |-> 0]

\* Mutant: only the oldest slot is compared.
AwaitedOldest(b, rs) == b.valid[b.rd_ptr] /\ b.data[b.rd_ptr] # 0 /\ b.data[b.rd_ptr] \in rs
\* o_result: one of the operands rs (the enabled ones) is still to be written.
Awaited(b, rs) == \E s \in Places : b.valid[s] /\ b.data[s] # 0 /\ b.data[s] \in rs

\* The reset leaves the data; nothing compares them until they are valid again.
BoardReset(b) == [EmptyBoard EXCEPT !.data = b.data]

\* Mutant: an empty ring is read.
PostedUnchecked(b, rd_en, wr_en, rd) ==
    LET reads == rd_en
        writes == wr_en /\ b.counter # BOARD_DEPTH
    IN  [data |-> IF writes THEN [b.data EXCEPT ![b.wr_ptr] = rd] ELSE b.data,
         valid |-> [s \in Places |->
                      b.valid[s] # ((reads /\ s = b.rd_ptr) # (writes /\ s = b.wr_ptr))],
         wr_ptr |-> IF writes THEN After(b.wr_ptr) ELSE b.wr_ptr,
         rd_ptr |-> IF reads THEN After(b.rd_ptr) ELSE b.rd_ptr,
         counter |-> IF rd_en /\ wr_en THEN b.counter
                     ELSE b.counter + (IF writes THEN 1 ELSE 0) - (IF reads THEN 1 ELSE 0)]
\* valid is the exclusive or of two bits, one toggled by each side.
Posted(b, rd_en, wr_en, rd) ==
    LET reads == rd_en /\ b.counter # 0
        writes == wr_en /\ b.counter # BOARD_DEPTH
    IN  [data |-> IF writes THEN [b.data EXCEPT ![b.wr_ptr] = rd] ELSE b.data,
         valid |-> [s \in Places |->
                      b.valid[s] # ((reads /\ s = b.rd_ptr) # (writes /\ s = b.wr_ptr))],
         wr_ptr |-> IF writes THEN After(b.wr_ptr) ELSE b.wr_ptr,
         rd_ptr |-> IF reads THEN After(b.rd_ptr) ELSE b.rd_ptr,
         counter |-> IF rd_en /\ wr_en THEN b.counter
                     ELSE b.counter + (IF writes THEN 1 ELSE 0) - (IF reads THEN 1 ELSE 0)]
=============================================================================
