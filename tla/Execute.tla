------------------------------ MODULE Execute ------------------------------
(***************************************************************************)
(* decode.v with its scoreboard, and alu.v: one clock edge of each.        *)
(*                                                                         *)
(* An instruction stands for the registers it is decoded into.  At most    *)
(* one of the ALU's three valid bits is up, the one of the unit the        *)
(* instruction is for; next[1] is down in the second clock of a shift, and *)
(* next[2] while a flush is pending or under way.                          *)
(***************************************************************************)
EXTENDS Scoreboard, Instructions

VARIABLES
    dec,            \* decode.v: o_instr_pc and the other o_* registers
    valid, c_error,
    dec_memstrb,    \* o_memstrb, which only a load or a store sets
    finish,         \* i_finish, one clock late
    board,          \* the scoreboard
    ex,             \* alu.v: the instruction accepted last
    alu_valid,      \* one of valid[2:0]
    shift_stage,
    alu_memstrb,    \* o_memstrb
    flush,          \* the target of a taken branch that waits for the stage behind
    c_flush         \* c_pc if c_flush, else NoPc

decodeVars == <<dec, valid, c_error, dec_memstrb>>
aluVars == <<ex, alu_valid, shift_stage, alu_memstrb, flush, c_flush>>

ExecuteInit ==
    /\ dec = None /\ valid = FALSE /\ c_error = FALSE /\ dec_memstrb = 0
    /\ finish = FALSE /\ board = EmptyBoard
    /\ ex = None /\ alu_valid = FALSE /\ shift_stage = 0 /\ alu_memstrb = 0
    /\ flush = NoPc /\ c_flush = NoPc

\* The wires between the stages; o_next is i_next of wrb.v.
fifo_result == Awaited(board, Operands(dec.instr))
alu_next(o_next) == shift_stage = 0 /\ flush = NoPc /\ c_flush = NoPc /\ o_next
dec_next(o_next) == alu_next(o_next) /\ ~c_error /\ ~fifo_result
dec_valid == valid /\ ~fifo_result /\ c_flush = NoPc
Accepts(o_next) == dec_valid /\ alu_next(o_next)

-----------------------------------------------------------------------------
Squash ==
    /\ c_flush # NoPc \/ c_error
    /\ valid' = FALSE /\ c_error' = (c_flush = NoPc)
    /\ UNCHANGED <<dec, dec_memstrb>>

\* Mutant: every instruction sets the width.
DecodeAnyWidth(i_valid, word, o_next) ==
    /\ c_flush = NoPc /\ ~c_error
    /\ i_valid /\ dec_next(o_next)
    /\ IF word.instr.kind = "bad"
       THEN /\ c_error' = TRUE /\ valid' = FALSE
            /\ dec' = [dec EXCEPT !.pc = word.pc]
            /\ UNCHANGED dec_memstrb
       ELSE /\ dec' = word /\ valid' = TRUE
            /\ dec_memstrb' = word.instr.width
            /\ UNCHANGED c_error
Decode(i_valid, word, o_next) ==
    /\ c_flush = NoPc /\ ~c_error
    /\ i_valid /\ dec_next(o_next)
    /\ IF word.instr.kind = "bad"
       THEN /\ c_error' = TRUE /\ valid' = FALSE
            /\ dec' = [dec EXCEPT !.pc = word.pc]
            /\ UNCHANGED dec_memstrb
       ELSE /\ dec' = word /\ valid' = TRUE
            /\ dec_memstrb' = IF InMemory(word.instr) THEN word.instr.width ELSE dec_memstrb
            /\ UNCHANGED c_error

Wait(i_valid, o_next) ==
    /\ c_flush = NoPc /\ ~c_error
    /\ ~(i_valid /\ dec_next(o_next))
    /\ valid' = (valid /\ ~dec_next(o_next))
    /\ UNCHANGED <<dec, c_error, dec_memstrb>>

\* Mutant: a destination is posted while its instruction waits for the ALU.
PostWaiting(o_next, i_finish) ==
    LET b == Posted(board, finish, dec_valid, dec.instr.rd)
    IN  /\ finish' = i_finish
        /\ board' = IF c_flush # NoPc THEN BoardReset(board)
                    ELSE IF c_flush' # NoPc THEN BoardReset(b) ELSE b
\* c_flush resets the scoreboard asynchronously (see FetchFifo).
Post(o_next, i_finish) ==
    LET b == Posted(board, finish, Accepts(o_next), dec.instr.rd)
    IN  /\ finish' = i_finish
        /\ board' = IF c_flush # NoPc THEN BoardReset(board)
                    ELSE IF c_flush' # NoPc THEN BoardReset(b) ELSE b

-----------------------------------------------------------------------------
\* A branch is taken or not, a jalr goes anywhere: the operands are not modelled.
Compared ==
    \/ /\ dec.instr.kind \notin {"branch", "jalr"}
       /\ flush' = NoPc /\ c_flush' = NoPc
    \/ /\ dec.instr.kind = "branch"
       /\ flush' \in {NoPc, Plus(dec.pc, dec.instr.by)} /\ c_flush' = NoPc
    \/ /\ dec.instr.kind = "jalr"
       /\ flush' = NoPc /\ c_flush' \in Pcs

\* Mutant: the valid bit does not wait for the second clock of a shift.
AcceptShiftShown(o_next) ==
    /\ Accepts(o_next)
    /\ Compared
    /\ ex' = dec /\ alu_memstrb' = dec_memstrb
    /\ shift_stage' = IF dec.instr.kind = "shift" THEN 1 ELSE 0
    /\ alu_valid' = (flush' = NoPc)
Accept(o_next) ==
    /\ Accepts(o_next)
    /\ Compared
    /\ ex' = dec /\ alu_memstrb' = dec_memstrb
    /\ shift_stage' = IF dec.instr.kind = "shift" THEN 1 ELSE 0
    /\ alu_valid' = (dec.instr.kind # "shift" /\ flush' = NoPc)

Shift(o_next) ==
    /\ shift_stage = 1
    /\ shift_stage' = 0 /\ alu_valid' = TRUE
    /\ UNCHANGED <<ex, alu_memstrb, flush, c_flush>>

RaiseFlush(o_next) ==
    /\ flush # NoPc /\ o_next
    /\ c_flush' = flush /\ flush' = NoPc
    /\ UNCHANGED <<ex, alu_valid, shift_stage, alu_memstrb>>

\* The comparator's valid bit goes down with the flush, shown or not.
EndFlush(o_next) ==
    /\ c_flush # NoPc
    /\ c_flush' = NoPc /\ alu_valid' = FALSE
    /\ UNCHANGED <<ex, shift_stage, alu_memstrb, flush>>

Hold(o_next) ==
    /\ ~Accepts(o_next) /\ shift_stage = 0 /\ c_flush = NoPc
    /\ ~(flush # NoPc /\ o_next)
    /\ alu_valid' = (alu_valid /\ ~o_next)
    /\ UNCHANGED <<ex, shift_stage, alu_memstrb, flush, c_flush>>

Alu(o_next) ==
    \/ Accept(o_next)
    \/ Shift(o_next)
    \/ RaiseFlush(o_next)
    \/ EndFlush(o_next)
    \/ Hold(o_next)

ExecuteReset ==
    /\ valid' = FALSE /\ c_error' = FALSE
    /\ finish' = FALSE /\ board' = BoardReset(board)
    /\ alu_valid' = FALSE /\ shift_stage' = 0 /\ flush' = NoPc /\ c_flush' = NoPc
    /\ UNCHANGED <<dec, dec_memstrb, ex, alu_memstrb>>
=============================================================================
