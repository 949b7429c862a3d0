------------------------------- MODULE Fetch -------------------------------
(***************************************************************************)
(* fetch.v: reads the program in bursts of half a FIFO, follows jal, and   *)
(* waits behind a jalr until the ALU flushes it.                           *)
(*                                                                         *)
(* One step is one clock edge.  m_axi_arvalid is up exactly in stage 1 and *)
(* m_axi_rready in stage 2; a flush request and its address are one value, *)
(* as are the write enable of the FIFO and the word to be written.  Bit 32 *)
(* of a PC is never set.  The memory (external) accepts an address, or     *)
(* delivers a word of the burst, at the clocks the module that uses this   *)
(* one says.                                                               *)
(***************************************************************************)
EXTENDS SyncFifo, Instructions

VARIABLES
    program,        \* the memory; it never changes
    fetch_stage, next_pc, fifo_break, instr_jalr,
    flush_pc,       \* flush_pc if flush_req, else NoPc
    pending,        \* {fifo_pc, fifo_instr} if fifo_wren, else None
    fifo,           \* the async_fifo of words
    burst           \* external: the next address of the burst, and the words left

fetchVars == <<fetch_stage, next_pc, fifo_break, instr_jalr, flush_pc, pending, burst>>

Half == DATA_DEPTH \div 2
half(f) == f.counter <= Half
NoBurst == [addr |-> NoPc, left |-> 0]

\* The state the core leaves its first reset in.
FetchInit ==
    /\ program \in Programs
    /\ fetch_stage = 0 /\ next_pc = 0
    /\ fifo_break = FALSE /\ instr_jalr = FALSE
    /\ flush_pc = NoPc /\ pending = None
    /\ fifo = InitFifo(None)
    /\ burst = NoBurst

-----------------------------------------------------------------------------
(* c_flush is the address of a flush of this clock, or NoPc.               *)

From(c_flush) ==
    IF c_flush # NoPc THEN c_flush ELSE IF flush_pc # NoPc THEN flush_pc ELSE next_pc

MayRequest(c_flush) == half(fifo) /\ (c_flush # NoPc \/ ~instr_jalr)

\* Mutant: the burst is asked for at the flush, its words go by the old address.
RequestOldPc(c_flush) ==
    /\ fetch_stage = 0 /\ MayRequest(c_flush)
    /\ fetch_stage' = 1
    /\ instr_jalr' = FALSE /\ flush_pc' = NoPc /\ pending' = None
    /\ next_pc' = IF c_flush # NoPc THEN c_flush ELSE next_pc
    /\ burst' = [addr |-> From(c_flush), left |-> Half]
    /\ UNCHANGED fifo_break
Request(c_flush) ==
    /\ fetch_stage = 0 /\ MayRequest(c_flush)
    /\ fetch_stage' = 1
    /\ instr_jalr' = FALSE /\ flush_pc' = NoPc /\ pending' = None
    /\ next_pc' = From(c_flush)
    /\ burst' = [addr |-> From(c_flush), left |-> Half]
    /\ UNCHANGED fifo_break

\* A flush empties the FIFO, so none comes here: lines 94-98 are never reached.
Idle(c_flush) ==
    /\ fetch_stage = 0 /\ ~MayRequest(c_flush)
    /\ pending' = None
    /\ UNCHANGED <<fetch_stage, next_pc, fifo_break, instr_jalr, flush_pc, burst>>

Flushed(c_flush) == flush_pc' = IF c_flush # NoPc THEN c_flush ELSE flush_pc

\* Mutant: the words of a burst asked for before the flush are kept.
AddressKeeps(c_flush, arready) ==
    /\ fetch_stage = 1
    /\ fetch_stage' = IF arready THEN 2 ELSE 1
    /\ Flushed(c_flush)
    /\ UNCHANGED <<next_pc, instr_jalr, pending, burst, fifo_break>>
Address(c_flush, arready) ==
    /\ fetch_stage = 1
    /\ fetch_stage' = IF arready THEN 2 ELSE 1
    /\ Flushed(c_flush)
    /\ fifo_break' = (fifo_break \/ c_flush # NoPc)
    /\ UNCHANGED <<next_pc, instr_jalr, pending, burst>>

Stall(c_flush) ==
    /\ fetch_stage = 2
    /\ Flushed(c_flush)
    /\ fifo_break' = (fifo_break \/ c_flush # NoPc)
    /\ pending' = None
    /\ UNCHANGED <<fetch_stage, next_pc, instr_jalr, burst>>

\* Mutant: the end of a burst does not end the breaking.
BeatBreaks(c_flush) ==
    LET instr == program[burst.addr]
        kept == ~fifo_break /\ c_flush = NoPc
        last == burst.left = 1
        jumps == kept /\ instr.kind \in {"jal", "jalr"}
    IN  /\ fetch_stage = 2
        /\ fetch_stage' = IF last THEN 0 ELSE 2
        /\ burst' = IF last THEN NoBurst
                    ELSE [addr |-> Plus(burst.addr, 1), left |-> burst.left - 1]
        /\ Flushed(c_flush)
        /\ fifo_break' = (jumps \/ fifo_break \/ c_flush # NoPc)
        /\ instr_jalr' = (instr_jalr \/ (kept /\ instr.kind = "jalr"))
        /\ pending' = IF kept THEN [pc |-> next_pc, instr |-> instr] ELSE None
        /\ next_pc' = IF ~kept \/ instr.kind = "jalr" THEN next_pc
                      ELSE Plus(next_pc, IF instr.kind = "jal" THEN instr.by ELSE 1)
\* The last assignment of the clock wins: the end of the burst clears fifo_break
\* behind a flush, and a jump sets it behind the end of the burst.
Beat(c_flush) ==
    LET instr == program[burst.addr]
        kept == ~fifo_break /\ c_flush = NoPc
        last == burst.left = 1
        jumps == kept /\ instr.kind \in {"jal", "jalr"}
    IN  /\ fetch_stage = 2
        /\ fetch_stage' = IF last THEN 0 ELSE 2
        /\ burst' = IF last THEN NoBurst
                    ELSE [addr |-> Plus(burst.addr, 1), left |-> burst.left - 1]
        /\ Flushed(c_flush)
        /\ fifo_break' = (jumps \/ (~last /\ (fifo_break \/ c_flush # NoPc)))
        /\ instr_jalr' = (instr_jalr \/ (kept /\ instr.kind = "jalr"))
        /\ pending' = IF kept THEN [pc |-> next_pc, instr |-> instr] ELSE None
        /\ next_pc' = IF ~kept \/ instr.kind = "jalr" THEN next_pc
                      ELSE Plus(next_pc, IF instr.kind = "jal" THEN instr.by ELSE 1)

Fetch(c_flush, ready) ==
    /\ \/ Request(c_flush)
       \/ Idle(c_flush)
       \/ Address(c_flush, ready)
       \/ ~ready /\ Stall(c_flush)
       \/ ready /\ Beat(c_flush)
    /\ UNCHANGED program

\* c_flush resets the FIFO asynchronously: from the edge that raises it (up_next)
\* to the edge that takes it down.
FetchFifo(c_flush, up_next, o_next) ==
    LET f == IF c_flush # NoPc THEN fifo ELSE Clocked(fifo, o_next, pending # None, pending)
    IN  fifo' = IF c_flush # NoPc \/ up_next THEN Reset(f) ELSE f

\* The reset reaches neither the flush request nor the word on its way into the
\* FIFO, nor the burst under way, which is the memory's.
FetchReset ==
    /\ fetch_stage' = 0 /\ next_pc' = 0 /\ instr_jalr' = FALSE
    /\ fifo' = Reset(fifo)
    /\ UNCHANGED <<program, fifo_break, flush_pc, pending, burst>>
=============================================================================
