--------------------------- MODULE FunctionTrace ---------------------------
(***************************************************************************)
(* The function tracer of riscv_online_debug, clock by clock:              *)
(* RISCV/component/function_trace.v.                                       *)
(*                                                                         *)
(* The host fills a table with the addresses of the functions it wants to  *)
(* see.  Every retired program counter runs through a pipeline that looks  *)
(* it up, one bank of the table per stage; a hit becomes a mark in a ring  *)
(* of two columns (time stamp, symbol index).  The host drains the two     *)
(* columns through two registers, with a read pointer each.                *)
(*                                                                         *)
(* One step is one rising clock edge.  Each always block is one operator,  *)
(* all of them read the old values, and Tick is their conjunction.  The    *)
(* AXI master is external: one read and one write in flight at a time,     *)
(* the write address offered no later than the write data.                 *)
(***************************************************************************)
EXTENDS Integers, Sequences, FiniteSets

CONSTANTS
    Banks,      \* stages of the pipeline, one bank of symbols each (4)
    BankSize,   \* symbols in a bank (8)
    MarkDepth,  \* OUTPUT_FIFO_DEPTH (256)
    Addrs,      \* program counters, which are also the symbols
    Perfs,      \* time stamps
    CoreHeld,   \* TRUE: no PC retires while a write is in progress, which is
                \* how tools.run holds the core in reset around its writes
    Reads,      \* the registers the host reads
    Writes,     \* the registers the host writes
    MaxSent     \* bound: symbols the host writes

\* The register map.
RunReg == 0
SymbolReg == 4
PerfReg == 8
MarkReg == 12
CounterReg == 16
AvailReg == 20

ReadRegs == {RunReg, PerfReg, MarkReg, CounterReg, AvailReg}
WriteRegs == {RunReg, SymbolReg}

ASSUME TraceAssumption ==
    /\ Banks \in Nat \ {0}
    /\ BankSize \in Nat \ {0}
    /\ MarkDepth \in Nat \ {0}
    /\ Addrs \subseteq Nat /\ 0 \in Addrs
    /\ Perfs \subseteq Nat /\ 0 \in Perfs
    /\ CoreHeld \in BOOLEAN
    /\ Reads \subseteq ReadRegs
    /\ Writes \subseteq WriteRegs
    /\ MaxSent \in Nat

NSym == Banks * BankSize
Slots == 0..(NSym - 1)
Levels == 0..(Banks - 1)
Ring == 0..(MarkDepth - 1)
Bank(j) == (j * BankSize)..(j * BankSize + BankSize - 1)

\* What the trace port shows: while it is not valid nothing looks at the rest.
Retired == {in \in [valid: BOOLEAN, pc: Addrs, perf: Perfs] :
              ~in.valid => in.pc = 0 /\ in.perf = 0}
Event == [en: BOOLEAN, pc: Addrs, perf: Perfs, valid: BOOLEAN, symbol: Slots]
Mark == [perf: Perfs, symbol: Slots]

VARIABLES
    reg_system_run, reg_symbol_input, symbol_en,
    counter, symbol_array, symbol_valid,
    stage,                              \* pc_en, pc_cache, pc_perf, pc_valid, pc_symbol
    mark,                               \* mark_perf, mark_symbol
    mark_write_counter, mark_read_counter_perf, mark_read_counter_symbol,
    arready, rvalid, rdata,             \* AXI outputs, read side
    awready, wready, bvalid,            \* AXI outputs, write side
    axi_write_channel_address,
    arvalid, araddr,                    \* AXI inputs, read side
    awvalid, awaddr, wvalid, wdata, wowed,  \* AXI inputs, write side; wowed:
                                        \* the data of a write not offered yet
    sent                                \* history: the symbols taken from the bus

symbolVars == <<counter, symbol_array, symbol_valid>>
markVars == <<mark, mark_write_counter>>
readVars == <<arready, rvalid, rdata, mark_read_counter_perf, mark_read_counter_symbol>>
writeVars == <<awready, wready, bvalid, axi_write_channel_address,
               reg_system_run, reg_symbol_input, symbol_en, sent>>
hostVars == <<arvalid, araddr, awvalid, awaddr, wvalid, wdata, wowed>>
vars == <<symbolVars, stage, markVars, readVars, writeVars, hostVars>>

\* Registers without an initial value come up as zero in the FPGA's bitstream.
Init ==
    /\ reg_system_run = 0 /\ reg_symbol_input = 0 /\ symbol_en = FALSE
    /\ counter = 0
    /\ symbol_array = [i \in Slots |-> 0]
    /\ symbol_valid = [i \in Slots |-> FALSE]
    /\ stage = [j \in Levels |->
                  [en |-> FALSE, pc |-> 0, perf |-> 0, valid |-> FALSE, symbol |-> 0]]
    /\ mark = [k \in Ring |-> [perf |-> 0, symbol |-> 0]]
    /\ mark_write_counter = 0
    /\ mark_read_counter_perf = 0 /\ mark_read_counter_symbol = 0
    /\ arready = FALSE /\ rvalid = FALSE /\ rdata = 0
    /\ awready = FALSE /\ wready = FALSE /\ bvalid = FALSE
    /\ axi_write_channel_address = 0
    /\ arvalid = FALSE /\ araddr = RunReg
    /\ awvalid = FALSE /\ awaddr = RunReg
    /\ wvalid = FALSE /\ wdata = 1 /\ wowed = FALSE
    /\ sent = << >>

-----------------------------------------------------------------------------
(* The symbol table.  symbol_rst is never driven, so its branch is dead.   *)

\* Mutant: the write port ignores counter[5].
SymbolFifoUnbounded ==
    IF symbol_en
    THEN /\ symbol_valid' = [symbol_valid EXCEPT ![counter] = TRUE]
         /\ symbol_array' = [symbol_array EXCEPT ![counter] = reg_symbol_input]
         /\ counter' = counter + 1
    ELSE UNCHANGED symbolVars
SymbolFifo ==
    IF symbol_en /\ counter < NSym
    THEN /\ symbol_valid' = [symbol_valid EXCEPT ![counter] = TRUE]
         /\ symbol_array' = [symbol_array EXCEPT ![counter] = reg_symbol_input]
         /\ counter' = counter + 1
    ELSE UNCHANGED symbolVars

(* The pipeline.  A stage looks its own bank up, takes the first hit and   *)
(* lets it override what the earlier stages found.                         *)

Hits(j, pc) == {i \in Bank(j) : symbol_valid[i] /\ symbol_array[i] = pc}

\* Mutant: the last hit of a bank wins.
LastHit(S) == CHOOSE i \in S : \A k \in S : k <= i
First(S) == CHOOSE i \in S : \A k \in S : i <= k

LookedUp(j, e) ==
    IF e.en /\ Hits(j, e.pc) # {}
    THEN [e EXCEPT !.valid = TRUE, !.symbol = First(Hits(j, e.pc))]
    ELSE e

Entering(in) ==
    [en |-> in.valid, pc |-> in.pc, perf |-> in.perf, valid |-> FALSE, symbol |-> 0]

PcPipeline(in) ==
    stage' = [j \in Levels |->
                LookedUp(j, IF j = 0 THEN Entering(in) ELSE stage[j - 1])]

(* The ring of marks: nothing looks at the read pointers before a write.   *)

Succ(p) == (p + 1) % MarkDepth

Leaving == stage[Banks - 1]

MarkFifo ==
    IF Leaving.valid /\ reg_system_run = 1
    THEN /\ mark' = [mark EXCEPT ![mark_write_counter] =
                       [perf |-> Leaving.perf, symbol |-> Leaving.symbol]]
         /\ mark_write_counter' = Succ(mark_write_counter)
    ELSE UNCHANGED markVars

-----------------------------------------------------------------------------
(* The read channel: the register is read, and popped, in the clock that   *)
(* raises arready.  rdata of AvailReg is the 32-bit difference of the two  *)
(* pointers, written here as the signed number it encodes.                 *)

popVars == <<rdata, mark_read_counter_perf, mark_read_counter_symbol>>

\* Popping an empty column leaves rdata as the read before left it.
PopPerf ==
    /\ IF mark_read_counter_perf # mark_write_counter
       THEN /\ rdata' = mark[mark_read_counter_perf].perf
            /\ mark_read_counter_perf' = Succ(mark_read_counter_perf)
       ELSE UNCHANGED <<rdata, mark_read_counter_perf>>
    /\ UNCHANGED mark_read_counter_symbol

PopMark ==
    /\ IF mark_read_counter_symbol # mark_write_counter
       THEN /\ rdata' = mark[mark_read_counter_symbol].symbol
            /\ mark_read_counter_symbol' = Succ(mark_read_counter_symbol)
       ELSE UNCHANGED <<rdata, mark_read_counter_symbol>>
    /\ UNCHANGED mark_read_counter_perf

Show(value) ==
    /\ rdata' = value
    /\ UNCHANGED <<mark_read_counter_perf, mark_read_counter_symbol>>

\* The host reads no other register; one would read as zero.
ReadRegister ==
    \/ araddr = RunReg /\ Show(reg_system_run)
    \/ araddr = PerfReg /\ PopPerf
    \/ araddr = MarkReg /\ PopMark
    \/ araddr = CounterReg /\ Show(counter)
    \/ araddr = AvailReg /\ Show(mark_write_counter - mark_read_counter_perf)

AcceptRead == arvalid /\ ~arready /\ arready' = TRUE /\ ReadRegister /\ UNCHANGED rvalid

\* Mutant: the answer never raises rvalid.
AnswerReadLost == arvalid /\ arready /\ arready' = FALSE /\ UNCHANGED <<rvalid, popVars>>
\* Mutant: the register is fetched again with the answer.
AnswerReadLate == arvalid /\ arready /\ arready' = FALSE /\ rvalid' = TRUE /\ ReadRegister
AnswerRead == arvalid /\ arready /\ arready' = FALSE /\ rvalid' = TRUE /\ UNCHANGED popVars

\* A response waits for rready.
EndRead ==
    /\ ~arvalid
    /\ rvalid' \in BOOLEAN /\ (rvalid' => rvalid)
    /\ UNCHANGED <<arready, popVars>>

AxiRead == AcceptRead \/ AnswerRead \/ EndRead

(* The write channel: an address goes before data, data before a response. *)

WriteRegister ==
    /\ reg_system_run' =
         IF axi_write_channel_address = RunReg THEN wdata % 2 ELSE reg_system_run
    /\ IF axi_write_channel_address = SymbolReg
       THEN /\ reg_symbol_input' = wdata
            /\ symbol_en' = TRUE
            /\ sent' = Append(sent, wdata)
       ELSE UNCHANGED <<reg_symbol_input, symbol_en, sent>>

regVars == <<reg_system_run, reg_symbol_input, sent>>

AcceptAddress ==
    /\ awvalid
    /\ awready' = ~awready
    /\ axi_write_channel_address' = IF awready THEN axi_write_channel_address ELSE awaddr
    /\ UNCHANGED <<wready, bvalid, symbol_en, regVars>>

AcceptData ==
    /\ ~awvalid /\ wvalid /\ ~wready
    /\ wready' = TRUE
    /\ WriteRegister
    /\ UNCHANGED <<awready, bvalid, axi_write_channel_address>>

\* Mutant: symbol_en is not cleared.
AnswerWriteStuck ==
    /\ ~awvalid /\ wvalid /\ wready
    /\ wready' = FALSE /\ bvalid' = TRUE
    /\ UNCHANGED <<symbol_en, awready, axi_write_channel_address, regVars>>
\* Mutant: the response never comes.
AnswerWriteLost ==
    /\ ~awvalid /\ wvalid /\ wready
    /\ wready' = FALSE /\ symbol_en' = FALSE
    /\ UNCHANGED <<bvalid, awready, axi_write_channel_address, regVars>>
AnswerWrite ==
    /\ ~awvalid /\ wvalid /\ wready
    /\ wready' = FALSE /\ bvalid' = TRUE /\ symbol_en' = FALSE
    /\ UNCHANGED <<awready, axi_write_channel_address, regVars>>

\* A response waits for bready.
EndWrite ==
    /\ ~awvalid /\ ~wvalid
    /\ bvalid' \in BOOLEAN /\ (bvalid' => bvalid)
    /\ UNCHANGED <<awready, wready, axi_write_channel_address, symbol_en, regVars>>

AxiWrite == AcceptAddress \/ AcceptData \/ AnswerWrite \/ EndWrite

-----------------------------------------------------------------------------
(* The AXI master (external).                                              *)

HostRead ==
    \/ /\ arvalid
       /\ arvalid' = ~arready
       /\ UNCHANGED araddr
    \/ /\ ~arvalid
       /\ UNCHANGED <<arvalid, araddr>>
    \/ /\ ~arvalid /\ ~rvalid
       /\ arvalid' = TRUE
       /\ araddr' \in Reads

Writing == awvalid \/ wvalid \/ wowed

\* tools.run writes 1 to the run register and addresses to the symbol register.
Payload(reg) == IF reg = RunReg THEN {1} ELSE Addrs

HostWrite ==
    \/ /\ Writing
       /\ awvalid' = (awvalid /\ ~awready)
       /\ \E offer \in BOOLEAN :
            /\ offer => wowed
            /\ wvalid' = (offer \/ (wvalid /\ ~(wready /\ ~awvalid)))
            /\ wowed' = (wowed /\ ~offer)
       /\ UNCHANGED <<awaddr, wdata>>
    \/ /\ ~Writing
       /\ UNCHANGED <<awvalid, awaddr, wvalid, wdata, wowed>>
    \/ /\ ~Writing /\ ~bvalid
       /\ awvalid' = TRUE
       /\ \E reg \in Writes :
            /\ reg = SymbolReg => Len(sent) < MaxSent
            /\ awaddr' = reg
            /\ wdata' \in Payload(reg)
       /\ \E offer \in BOOLEAN : wvalid' = offer /\ wowed' = ~offer

\* The core's trace port (external): pc_valid is low while the core is reset.
Core(in) == in.valid => ~(CoreHeld /\ Writing)

Edge(in) ==
    /\ Core(in)
    /\ SymbolFifo
    /\ PcPipeline(in)
    /\ MarkFifo
    /\ AxiRead
    /\ AxiWrite
    /\ HostRead
    /\ HostWrite

Tick == \E in \in Retired : Edge(in)

Spec == Init /\ [][Tick]_vars

\* The clock never stops.
FairSpec == Spec /\ WF_vars(Tick)

-----------------------------------------------------------------------------
TypeOK ==
    /\ reg_system_run \in {0, 1} /\ reg_symbol_input \in Addrs
    /\ symbol_en \in BOOLEAN
    /\ counter \in 0..NSym
    /\ symbol_array \in [Slots -> Addrs]
    /\ symbol_valid \in [Slots -> BOOLEAN]
    /\ stage \in [Levels -> Event]
    /\ mark \in [Ring -> Mark]
    /\ mark_write_counter \in Ring
    /\ mark_read_counter_perf \in Ring /\ mark_read_counter_symbol \in Ring
    /\ arready \in BOOLEAN /\ rvalid \in BOOLEAN /\ rdata \in Int
    /\ awready \in BOOLEAN /\ wready \in BOOLEAN /\ bvalid \in BOOLEAN
    /\ axi_write_channel_address \in WriteRegs
    /\ arvalid \in BOOLEAN /\ araddr \in ReadRegs
    /\ awvalid \in BOOLEAN /\ awaddr \in WriteRegs
    /\ wvalid \in BOOLEAN /\ wdata \in Payload(awaddr) /\ wowed \in BOOLEAN
    /\ sent \in Seq(Addrs)

(* The four-phase handshakes.  A ready is up for one clock, in the phase it *)
(* belongs to; a symbol is on its way into the table exactly in the clock  *)
(* after its data were taken, and is the last one the host sent.           *)
HandshakeInv ==
    /\ arready => arvalid /\ ~rvalid
    /\ rvalid => ~arvalid
    /\ awready => awvalid
    /\ wready => wvalid /\ ~awvalid
    /\ wowed => ~wvalid /\ ~bvalid
    /\ bvalid => ~awvalid /\ ~wvalid
    /\ (awready \/ (~awvalid /\ (wvalid \/ wowed))) => axi_write_channel_address = awaddr
    /\ symbol_en <=> wready /\ axi_write_channel_address = SymbolReg
    /\ symbol_en => sent # << >> /\ reg_symbol_input = sent[Len(sent)]

\* How many of the symbols sent have reached the table's write port.
Stored == Len(sent) - IF symbol_en THEN 1 ELSE 0

(* The table holds the symbols the host sent, each once, in order, the     *)
(* first NSym of them: symbol_en is high for one clock per bus write.      *)
TableHoldsSent ==
    /\ counter = IF Stored < NSym THEN Stored ELSE NSym
    /\ \A i \in Slots : /\ symbol_valid[i] <=> i < counter
                        /\ i < counter => symbol_array[i] = sent[i + 1]

(* A read access pops once: from the clock after it fetched its data until *)
(* the host has taken them, neither the data nor the read pointers move.   *)
ReadIsOnce == [][arready \/ rvalid => UNCHANGED popVars]_vars

(* Every read access gets its data and every write its response, whatever  *)
(* the core and the other channel do meanwhile.                            *)
ReadAnswered == arvalid ~> rvalid
WriteAnswered == wvalid ~> bvalid
=============================================================================
