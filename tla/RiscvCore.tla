----------------------------- MODULE RiscvCore -----------------------------
(***************************************************************************)
(* top.v: the wires between fetch, decode, ALU and write-back.  Every step *)
(* is one clock edge of all of them; they read the old values.             *)
(***************************************************************************)
EXTENDS Fetch, Execute, WriteBack, FiniteSets

CONSTANT MaxRuns    \* bound: runs after the first

ASSUME CoreAssumption == MaxRuns \in Nat

VARIABLES
    run,        \* resets so far
    owed,       \* history: the PC executed and not yet shown on the trace port
    lost        \* history: the mishaps so far

vars == <<program, fetchVars, fifo, decodeVars, finish, board, aluVars, wrbVars,
          run, owed, lost>>

Init ==
    /\ FetchInit /\ ExecuteInit /\ WriteBackInit
    /\ run = 0 /\ owed = NoPc /\ lost = {}

\* The trace port.
pc_valid == wrb_next /\ alu_valid
pc == ex.pc

-----------------------------------------------------------------------------
(* The mishaps: the five things the design does not provide for.           *)

\* A word meets a full FIFO and is dropped.
Overruns == c_flush = NoPc /\ pending # None /\ full(fifo)
\* A burst is flushed in which a jalr has come: fetch goes on waiting for it.
Forgets == c_flush # NoPc /\ fetch_stage = 2 /\ instr_jalr
\* A flush clears the scoreboard and the ALU beside a load or a store.
Tears == c_flush # NoPc /\ axi_stage # 0
\* The memory takes the data of a store before its address.
Leads == axi_stage = 3 /\ wvalid /\ ~wvalid' /\ awvalid'

\* Nothing is under way that the reset of the core does not reach.
Quiet == fetch_stage = 0 /\ flush_pc = NoPc /\ pending = None /\ axi_stage = 0

Over == lost \cap {"overrun", "restarted"} # {}

Watch ==
    /\ owed' = IF Accepts(wrb_next) THEN (IF flush' = NoPc THEN dec.pc ELSE NoPc)
               ELSE IF pc_valid THEN NoPc ELSE owed
    /\ lost' = lost \cup (IF Overruns THEN {"overrun"} ELSE {})
                    \cup (IF Forgets THEN {"forgot"} ELSE {})
                    \cup (IF Tears THEN {"torn"} ELSE {})
                    \cup (IF Leads THEN {"ahead"} ELSE {})

\* fetched, served: the two memory ports (external) answer at this clock.
Tick(fetched, served) ==
    /\ ~Over
    /\ Alu(wrb_next)
    /\ \/ Squash
       \/ Decode(~empty(fifo), rd_data(fifo), wrb_next)
       \/ Wait(~empty(fifo), wrb_next)
    /\ Post(wrb_next, o_finish)
    /\ Fetch(c_flush, fetched)
    /\ FetchFifo(c_flush, c_flush' # NoPc, dec_next(wrb_next))
    /\ WriteBack(alu_valid, ex, served)
    /\ Watch
    /\ UNCHANGED run

\* tools.run holds the core, not the memory, in reset until nothing changes.
CoreReset ==
    /\ ~Over /\ run < MaxRuns
    /\ FetchReset /\ ExecuteReset /\ WriteBackReset
    /\ run' = run + 1
    /\ owed' = NoPc
    /\ lost' = IF Quiet THEN lost ELSE lost \cup {"restarted"}

\* Behind a dropped word, or a reset beside an access, nothing is promised: the
\* model ends there.
Ended == Over /\ UNCHANGED vars

Next == Ended \/ CoreReset \/ \E fetched, served \in BOOLEAN : Tick(fetched, served)

Spec == Init /\ [][Next]_vars

\* The clock ticks, and no port leaves the core waiting for ever.
FairSpec ==
    /\ Spec
    /\ WF_vars(\E served \in BOOLEAN : Tick(TRUE, served))
    /\ WF_vars(\E fetched \in BOOLEAN : Tick(fetched, TRUE))

-----------------------------------------------------------------------------
TypeOK ==
    /\ program \in Programs
    /\ fetch_stage \in 0..2 /\ next_pc \in Pcs
    /\ fifo_break \in BOOLEAN /\ instr_jalr \in BOOLEAN
    /\ flush_pc \in OrNone(Pcs)
    /\ pending \in Fetched \cup {None} /\ fifo \in Fifos(Fetched \cup {None})
    /\ burst \in [addr: OrNone(Pcs), left: 0..Half]
    /\ dec \in Fetched \cup {None} /\ valid \in BOOLEAN /\ c_error \in BOOLEAN
    /\ dec_memstrb \in Widths /\ alu_memstrb \in Widths
    /\ finish \in BOOLEAN /\ board \in Boards(Regs)
    /\ ex \in Fetched \cup {None} /\ alu_valid \in BOOLEAN /\ shift_stage \in {0, 1}
    /\ flush \in OrNone(Pcs) /\ c_flush \in OrNone(Pcs)
    /\ axi_stage \in 0..4 /\ access \in Fetched \cup {None}
    /\ awvalid \in BOOLEAN /\ wvalid \in BOOLEAN
    /\ o_wr \in Regs /\ o_finish \in BOOLEAN /\ wrb_error \in BOOLEAN
    /\ run \in 0..MaxRuns
    /\ owed \in OrNone(Pcs)
    /\ lost \subseteq {"overrun", "forgot", "torn", "ahead", "restarted"}

\* The place of the next instruction to execute, wherever the pipeline has it.
Here ==
    IF flush # NoPc THEN flush
    ELSE IF c_flush # NoPc THEN c_flush
    ELSE IF valid \/ c_error THEN dec.pc
    ELSE IF ~empty(fifo) THEN rd_data(fifo).pc
    ELSE IF pending # None THEN pending.pc
    ELSE IF flush_pc # NoPc THEN flush_pc
    ELSE next_pc

Abstract == INSTANCE Machine WITH
    pc <- IF Over THEN NoPc ELSE Here,
    last <- IF Over THEN NoPc ELSE ex.pc,
    run <- IF Over THEN 0 ELSE run

(* The pipeline executes the program: bursts, jumps followed ahead and     *)
(* flushes at any clock lose, repeat or reorder no instruction, and none   *)
(* is executed on the wrong path; the reset of a quiet core starts the     *)
(* program again, and nothing else does.                                   *)
ImplementsMachine == Abstract!Spec

(* What goes through the pipeline is the word of the address it goes by.   *)
WordsInPlace ==
    /\ pending # None => pending.instr = program[pending.pc]
    /\ \A i \in DOMAIN Content(fifo) : LET w == Content(fifo)[i] IN w.instr = program[w.pc]

\* The instructions that have been executed and whose result is on its way.
Executing(r) ==
    \/ (alu_valid \/ shift_stage = 1) /\ Writes(ex.instr) /\ ex.instr.rd = r
    \/ axi_stage \in {1, 2} /\ access.instr.rd = r
    \/ o_wr = r

(* The scoreboard: no instruction reads a register an earlier one is still *)
(* to write.                                                               *)
OperandsFresh ==
    Accepts(wrb_next) /\ "torn" \notin lost =>
        \A r \in Operands(dec.instr) : ~Executing(r)

(* The scoreboard is never full, so it refuses no destination, and counts  *)
(* what it compares.                                                       *)
BoardHolds ==
    "torn" \notin lost =>
        /\ board.counter < BOARD_DEPTH
        /\ board.counter = Cardinality({s \in Places : board.valid[s]})

(* The trace port shows every instruction but a taken branch, once, before *)
(* the next one is executed.                                               *)
ShownOnce ==
    "torn" \notin lost =>
        /\ pc_valid => owed = pc
        /\ Accepts(wrb_next) => owed = NoPc \/ pc_valid

(* A load gets the width it was decoded with, unless another load or store *)
(* has entered the ALU behind it.                                          *)
WidthIsItsOwn ==
    [][axi_stage = 2 /\ axi_stage' = 0 /\ ~(alu_valid /\ InMemory(ex.instr))
         => alu_memstrb = access.instr.width]_vars

(* The core executes instruction after instruction, unless the program or  *)
(* the memory fails.                                                       *)
GoesOn == []<>Accepts(wrb_next) \/ <>(lost # {}) \/ <>wrb_error \/ <>[]c_error

-----------------------------------------------------------------------------
(* README.md:7 "self-made small RISC-V core, which provides basic rv32i    *)
(* instruction set support": a program of known instructions never stops,  *)
(* as long as no word is dropped and no flush meets a load or a store.     *)
RunsOn ==
    []<>Accepts(wrb_next) \/ <>(lost \ {"forgot"} # {}) \/ <>wrb_error \/ <>[]c_error
=============================================================================
