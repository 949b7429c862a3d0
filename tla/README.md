# Verification of riscv_online_debug

This directory holds a TLA+ development of `src/riscv_online_debug`, the
"Non-intrusive on Chip Monitoring System for RISC-V processor": models of its
parts, TLC configurations that check them on small instances, and theorems the
TLA+ proof system proves for every instance.

1. [The system](#1-the-system)
2. [Modules](#2-modules)
3. [Runs](#3-runs)
4. [Fairness](#4-fairness)
5. [Proofs](#5-proofs)
6. [Disagreements found](#6-disagreements-found)
7. [What is not modelled](#7-what-is-not-modelled)
8. [Plan](#8-plan)

Paths below are relative to `src/riscv_online_debug` unless they begin with
`src/`. The tables of `PROJECT.json` name the lines behind every definition.

## 1. The system

The repository is a collection of some sixty independent CPU projects with no
common program. `riscv_online_debug` was chosen because it is a whole system:
hardware, a server, a page, and protocols between them.

    browser                 server (PYNQ board)            FPGA
    ---------------------   ----------------------------   -------------------
    App.vue                 Django view.py / tools.py      function_trace.v
      buttons, timers  --->   build: store, make             ^ trace port
      stack of calls   <---   upload: load main.bin  ---->  core (top.v)
                              run: symbols, release  ---->   |
                              perf: read_trace       <----  pc_stream.v -> DMA

| Component | State | Operations | Talks to |
|---|---|---|---|
| Function tracer, `RISCV/component/function_trace.v` | symbol table and `counter`, 4-stage lookup pipeline, ring of marks with one write and two read pointers, two AXI channels | every clock: store a symbol, look a PC up, record a mark, serve a read, serve a write | core (retired PCs), server (AXI registers) |
| PC stream, `RISCV/component/pc_stream.v`, `sync_fifo` in `RISCV/fifo.v` | FIFO, `axis_stage`, `error`, AXI-stream outputs | every clock: receive a PC, offer a beat, wait for the DMA, close after an error | core, DMA |
| Page control, `Vue/pynq/src/App.vue` | `button_status`, `work_status`, `counter`, kernel state, auto refresh and its timer | build, upload, run, the chain of all three, refresh, restart of the kernel, and the replies to each | server (requests) |
| Page drawing, `App.vue` | `perf`, `id_lut`, boxes of the chart | replay of all marks on a stack | page control |
| Build server, `Django/pynq/pynq_0/tools.py`, `view.py`, `Django/pynq/tools/make/makefile` | sources, objects, listing, binary and logs on disk | `store`, `make`, `upload`, `run` | page, board |
| Tracing session, `tools.py` with the tracer and the page | resets of core and tracer, the lists a thread holds, the page's marks | `mark`, `run`, `read_trace`, `init`, their replies | all of the above |
| Core, `RISCV/{top,fetch,decode,cpureg,alu,wrb,fifo}.v` | the burst under way and the FIFO of words; the decoded instruction and the scoreboard of destinations; the instruction in the ALU and the flush it raises; the access under way | every clock: fetch, decode, execute, write back; a reset by `run` | two memory ports, tracer, stream |

Where it is hard:

- **Threads without locks.** Django's development server handles requests in
  threads. Two of them share the source files, the objects, the logs, and the
  tracer, whose registers have side effects.
- **Torn reads.** A mark is popped through two registers with a pointer each.
- **Limits.** The table takes 32 symbols, the ring 255 marks, the FIFO 32 PCs;
  none reports an overflow.
- **Late replies.** The page waits by fixed timers, so every reply may come
  before or after the step that wanted it, and replies of abandoned requests
  meet those of new ones.
- **A pipeline.** Fetch runs ahead of what is executed, follows jumps by itself
  and is called back by flushes, which may come at any clock of a burst or of a
  memory access; the memory answers at any clock.
- **State that survives.** The reset of the tracer does not reach it, the reset
  of the stream does not clear its error, sources are never removed, the page's
  `counter` is never reset.
- **Half finished.** A handler that throws, a build that stops between the
  listing and the binary, an end of a call without its start.

What makes each part correct: the tracer's handshakes, an exact table, each
mark once and in order; the stream's order and the stability of its offers; one
chain at a time on the page, its steps in order, its button given back; a chart
that shows the calls; a build reply that is about the program sent; a session
that loses nothing and names every mark by the function that ran; a core that
executes the program, in order and with the operands of the instructions before,
shows what it executes, and does not stop. `PROJECT.json` lists the hazards line by line with the properties that guard them.

## 2. Modules

| Module | Models | Depends on |
|---|---|---|
| `FunctionTrace` | the tracer, one step per clock edge | |
| `TraceUnit` | what the tracer promises, without clocks; also the tracer of `TraceSession` | |
| `FunctionTraceImpl`, `MCFunctionTrace` | the refinement mapping from the first to the second, its instance | `FunctionTrace`, `TraceUnit` |
| `FunctionTraceProofs` | proofs, the refinement among them | `FunctionTraceImpl` |
| `WebPage` | the page's control | |
| `WebPageProofs` | proofs | `WebPage` |
| `StackTrace` | the page's replay of marks | |
| `StackTraceProofs` | proofs | `StackTrace` |
| `BuildServer`, `MCBuildServer` | building, uploading, running | |
| `BuildServerProofs` | proofs | `BuildServer` |
| `TraceSession`, `MCTraceSession` | page, server threads and tracer together | `TraceUnit` |
| `TraceSessionProofs` | proofs | `TraceSession` |
| `SyncFifo`, `PcStream` | the stream and its FIFO | |
| `SyncFifoProofs`, `PcStreamProofs` | proofs | `SyncFifo`, `PcStream` |
| `Instructions` | what the pipeline tells instructions apart by | |
| `Fetch` | `fetch.v` with its FIFO | `SyncFifo`, `Instructions` |
| `Scoreboard` | `async_fifo_comparator` | |
| `Execute` | `decode.v`, `alu.v` | `Scoreboard`, `Instructions` |
| `WriteBack` | `wrb.v`, `cpureg.v` | `Instructions` |
| `RiscvCore`, `MCRiscvCore` | `top.v`: the four together; programs | `Fetch`, `Execute`, `WriteBack` |
| `Machine` | what the core promises: one instruction at a time | `Instructions` |
| `RiscvCoreProofs` | proofs, the refinement of `Machine` among them | `RiscvCore`, `SyncFifoProofs` |

**FunctionTrace.** The registers are the variables, under their Verilog names
(the five arrays of the pipeline are one record per stage, the two columns of
the ring one record per slot). Each `always` block is an operator on unprimed
values, and `Edge` is their conjunction, which is what non-blocking assignment
means; `Tick` is the edge with whatever the core retires in that clock. `symbol_rst` has no driver: its branch is left out as dead. Registers
without an initial value are taken as zero, as the bitstream configures them.
The bus master is external: one read and one write at a time, the address no
later than the data, as the PYNQ interconnect issues them. `CoreHeld` states
that no PC retires while a write is under way, which `tools.run` ensures by
holding the core in reset; the runs on the bus do without it. `mark_symbol` is
6 bits wide and a symbol needs 5, so nothing is cut. The read of register 0x14
is a difference of two 8-bit pointers widened to 32 bits, modelled as the signed
number it encodes. A read answers from old values: a mark written in the same
clock is not seen.

**TraceUnit.** A table, marks in flight, two columns. `Push` is the fact worth
knowing: a ring of `Depth` has room for `Depth - 1`, and the mark that would
fill it empties it. `Lookup` is the priority of the banked comparators: a later
bank wins, inside a bank the earlier slot. In one clock the host may read and
write while a hit leaves and another enters; `Step` allows any of these
together. The mapping of `FunctionTraceImpl` counts the pipeline stages that hold
a PC of the table, from the last one down, as the marks in flight, and gives
each the symbol the whole table has for its PC, though the stage may not have
come to the bank yet.

**WebPage.** One action is one turn of the event loop. Timers of `src_all` are
counted in `chains` by what they wait for, requests in `inflight` by what they
ask. `since` is history. The server may answer any request, in any order, with
either outcome, or never. A reply to `run` posts `perf` in the same turn.
`orphans` are refresh timers that a second reply overwrote.

**StackTrace.** `Replayed` is the body of `forEach`, `Replay` the
recursive function that applies it to mark after mark, `Running` the loop over the
calls still open, with its shrinking bound. `broken` stands for the exception of
`u.name` on an empty stack or `lut.type` on an unknown id: the chart stays as it
was. The marks are arbitrary; `Orderly` is a predicate on them, true of a program
that is seen from its first instruction on. A time is the number of the mark. `update_option` is the same replay and
nothing calls it.

**BuildServer.** A program is the number of the request that brought it, so a
file holds a number, or `Torn` when it holds the whole of none: half written, or
a mixture. The makefile is modelled by its dependency rule: `newer` and `stale`
record what is younger than what was made from it, `remade` what the running
make has made. A tool takes its input in one step (`StartLink`) and is done in
another (`Link`), with its output torn between; the compiler is the exception,
which writes its object at the very end. Two tools at one file (`Takes`) leave a
mixture, and a tool that reads one may fail or pass it on. Every other access to
a shared file is a step of its thread; a source is written in one. `upload`
reads the binary, which may be torn, and fills the memory of a core that may be
running. A compiler that warns writes to the log, so a warning is an error
reply. The makefile's prefix is `riscv-none-embed-` where the README installs
`riscv-none-elf`: a compiler of the former name is assumed to be there. Its last
target, `set_bin.py`, writes a file nothing reads. `alone` and `only`, `answer`,
`sent` and `ran` are history: they say which replies and runs a property is
about.

**TraceSession.** `run`, `read_trace` and `init` are one step per access to the
board, with the core entering and leaving functions between any two of them, and
they overlap, as the page lets them. `mark` is the loop over the lines of the
listing, a recursive function that makes the tracer's list of addresses and the page's list of
names; a function with two returns is in both twice. `Meaning` reads the same
listing from the side of the program: which function an address enters or
leaves. A load of the overlay is one step that puts the FPGA back to its initial
state; the model starts behind the first one, as no request succeeds before it.
`dropped`, `fresh` and `clean` are history: the marks the page wiped when the
latest run was answered, and whether that run had a freshly loaded board to
itself. A time stamp is a record of run, number and address, so that a property
can say where a mark came from; the code sees a number.

**SyncFifo, PcStream.** `SyncFifo` is a library of operators on the record of
its registers; `PcStream` adds the output stage. A clock has arbitrary inputs
(PC, error of the core, ready of the DMA). The reset is a step that clears what
the code clears, no more.

**The core.** One step of `RiscvCore` is one clock edge: `Tick` is the
conjunction of what every `always` block of the four stages makes of the old
values. An instruction is a record of its kind, its registers and its offset; it
stands for the registers it is decoded into, and travels with its address.
Values are left out: a branch is taken or not, a jalr goes to any word, a
register is one of three. `Fetch` reads bursts of half a FIFO from `program`;
`burst` is the state of the memory, which takes an address, and delivers a word,
at any clock or not. `Execute` keeps the two registers between decoder and
write-back, the scoreboard between them and the two phases of a flush: `flush`
waits for write-back, `c_flush` is the clock in which everything before the ALU
is thrown away. `async_fifo` is the `SyncFifo` of the stream with an asynchronous
reset, so a flush empties it at the edge that raises `c_flush` and keeps it empty
until the edge that takes it down (`FetchFifo`); the scoreboard likewise. In
`WriteBack` the memory may take address and data of a store in any order, and
answer any access with an error. `CoreReset` is what `tools.run` does to the
core: the block design (`RISCV/onboard.tcl`, lines 1149-1153) ties the reset of
the core to the GPIO alone, so memory and burst go on.

The design does not provide for five things, the mishaps, which `lost` records:

- `overrun`: a word meets a full FIFO. Nothing is promised behind it; the model
  ends there.
- `forgot`: a flush throws away a burst that has brought a jalr.
- `torn`: a flush comes while a load or a store is under way.
- `ahead`: the memory takes the data of a store before its address.
- `restarted`: the core is reset while fetch or write-back has a request under
  way. The model ends there, too.

They are states the core reaches, not assumptions: every one of them occurs in
the run `core`. The properties say what holds in spite of them, or without
them, each by name.

`Machine` is the reader's view of a core: `pc`, `last` and the number of resets.
The refinement mapping `Here` finds the instruction to execute next wherever the
pipeline has it: in a flush, in the decoder, at the head of the FIFO, on its way
into it, in a flush request, or not yet fetched.

## 3. Runs

Passing runs and their bounds (the states are distinct states TLC found):

| Run | Checks | Instance, and why it is enough | States |
|---|---|---|---|
| `trace_bus` | `TypeOK`, `HandshakeInv`, `TableHoldsSent`, `ReadIsOnce`, `ReadAnswered`, `WriteAnswered` | table of 2 and 3 symbols written: it overflows; ring of 2: pops of an empty and of a full column; the core runs during writes | 113 k |
| `trace_unit` | `ImplementsUnit` | 2 banks of 2 and 3 symbols of 2 addresses: a PC that is in the table once, twice in a bank, in both banks, or not at all; empty slots; ring of 3 and 4 PCs: wraps, overruns, pops of an empty column; reads of the counter, the number of marks and both columns, in any order, at any time | 584 k |
| `page` | `TypeOK`, `OneChain`, `ChainInOrder`, `AllReleased`, `RefreshStops` | patience 3 of 20: the branch is `>=`, and 3 leaves room before and after; clicks stop at 2 requests and lost timers outstanding, the chain's own requests go beyond | 304 k |
| `stack` | `TypeOK`, `CallsAreBoxes`, `RunningAreBoxes`, `BoxesNest`, `BrokenUntilRun` | any 7 marks of 2 functions and an unknown id: nesting to depth 7, recursion, ends without a start | 131 k |
| `build_two` | `TypeOK`, `SuccessIsThisProgram`, `BadIsReported`, `QuietMatches`, `RunsWhatWasSent` | two threads, alike, three languages, 3 builds: two that meet and one behind them, which finds what they left; programs that are fine, fail to compile or fail to link (`build_languages` has warnings too) | 4.7 M |
| `session_one` | `TypeOK`, `NothingLost`, `LabelsAreRight`, `PerfAnswered` | one reload of the overlay, a run before and a run behind it, 2 reads beside them; a function with two returns, listed twice in different banks; 3 marks a run, which the ring of 4 just holds | 587 k |
| `stream_order` | `TypeOK`, `InOrder`, `OfferStands`, `LastIsLast`, `Exported` | FIFO of 2, 5 PCs (overruns), width 2 against PCs of 3 bits, 2 resets, an error in the first run | 17 k |
| `core` | `TypeOK`, `WordsInPlace`, `OperandsFresh`, `BoardHolds`, `ShownOnce`, `ImplementsMachine`, `WidthIsItsOwn`, `GoesOn` | the FIFO of 8 words and the scoreboard of 4 of the source; 8 programs of 6 words that branch, jump and return into each other, with loads, stores, shifts and bad words on right and wrong paths; addresses wrap, so a program goes on until the memory fails; memory ports that stall or fail at any clock; one reset | 225 k |

What the less obvious properties say:

- `TableHoldsSent` relates the table to the history of the bus: a `symbol_en`
  that stayed up one clock too long would break it.
- `ReadIsOnce` rules out that an access, which lasts two clocks, pops twice.
- `ImplementsUnit` is the refinement `FunctionTrace => TraceUnit!Spec` under
  `CoreHeld`. Its run takes a host that writes the symbols before the run
  register, as `tools.run` does, and lets no response wait; each PC has a time
  stamp of its own, so that times that are wrong or in the wrong order are seen.
  The theorem (section 5) is without these bounds. Of the registers the run
  leaves out the read of 0x00, which `trace_bus` makes.
- `OneChain` says that no way through `src_all` forgets its timer or its button;
  `ChainInOrder` that a late reply to an old request cannot make the chain skip
  a step (it may take another build's reply for its own, see section 6).
- `CallsAreBoxes` compares the incremental replay with a definition of calls by
  counting starts and ends. Both it and `RunningAreBoxes` are about orderly traces,
  `BoxesNest` and `BrokenUntilRun` about all.
- `SuccessIsThisProgram` and `BadIsReported` are about builds that met no other
  build and no source of another language; without these conditions they fail,
  as section 6 says. Within them they hold after any history of builds, mixed
  files and missing programs included.
- `QuietMatches` says what builds running through each other may leave: they may
  answer wrongly, but a listing and a binary of two whole programs stay together
  only if the next make does both again. That exception is real: a build whose
  listing is done fails in `objcopy` when another has failed to link.
- `RunsWhatWasSent` follows a program from a success to the core: no torn binary,
  no listing of another program, as long as no request comes between.
- `NothingLost` concatenates page, thread, ring and pipeline: the marks on the
  way are all the marks there were, numbered from the page to the pipeline behind
  what earlier runs have left. It counts as accounted for what a late reply
  to `run` wipes by `perf = []` (App.vue:446).
- `InOrder` does the same for the stream, until a PC meets a full FIFO.
- `LastIsLast` holds across resets, because the error is sticky.
- `NothingLost` and `LabelsAreRight` are about a run behind a load that met no
  request; the load may come at any step of a run or a read, and the next run
  must not inherit anything of it.
- `ImplementsMachine` is the refinement `RiscvCore => Machine!Spec`: every clock
  of the pipeline executes the next instruction of the program, or none. Behind
  an overrun or a reset beside a request the machine is broken and promises
  nothing; the other three mishaps do not touch it.
- `WordsInPlace` ties the two counters of fetch, the address of the burst and
  `next_pc`, to each other across jumps and flushes.
- `OperandsFresh` says of every way an instruction can be in flight (in the
  ALU, in a shift, in a load, on the write port) that the scoreboard knows it.
  `BoardHolds` is why the scoreboard's missing handling of a full ring does no
  harm.
- `ShownOnce` is what `FunctionTrace` and `PcStream` take for granted. Taken
  branches are never shown (alu.v:241): an address of a taken branch in the
  tracer's table would not be seen, but `mark` lists only starts and returns.
- `WidthIsItsOwn` excludes by name the case in which it fails: another load or
  store has entered the ALU behind the one under way (section 6).
- `GoesOn` names every way the core stops: an instruction it does not know, an
  error of the memory, a mishap.

Every property of a passing run has a mutant in the modules, a definition marked
`Mutant:` with the bug it makes, under which the run fails.

`build_*` and `session_*` have `CHECK_DEADLOCK FALSE`: when the bounded requests
are used up and answered there is nothing left to do. All other models always
have a next step, and TLC checks it.

The violation runs are described in section 6.

## 4. Fairness

- `FunctionTrace`: weak fairness of `Tick`. The clock does not stop; the host
  completes its own accesses as part of it, but nothing makes it start one.
- `WebPage`: weak fairness of the chain's timers and of the refresh timers. A
  browser fires a due timer. Nothing is assumed of the server: `AllReleased`
  holds although replies may never come. `RefreshStops` holds for the same
  reason: a timer is used up, and a reply sets no new one.
- `BuildServer`: none; its properties are invariants.
- `TraceSession`: a thread that has taken a request goes on with
  it; no request is made by fairness. `Record`, the tracer's pipeline, is
  clocked. `PerfAnswered` depends on the program making finitely many marks,
  which the bound `MaxCalls` states: a program that marks faster than the server
  reads is never answered, by the loop of `read_trace`.
- `RiscvCore`: the clock ticks, and each of the two memory ports answers again
  and again (two conjuncts, as the ports answer independently). A memory that
  never answers stops the core, as AXI allows. Nothing is assumed of branches,
  errors or resets.
- `PcStream`: clocks on which the DMA is ready are not put off for ever. A DMA
  that never takes a beat stops the stream, as the protocol allows.

## 5. Proofs

Every safety property that a passing run checks is also a theorem: it holds for
every value of the constants, with the hypotheses of this table beside the assumptions the modules state (positive
sizes, sets of naturals and the like).

| Module | Theorems | Hypotheses |
|---|---|---|
| `FunctionTraceProofs` | `TypeCorrect`, `Handshakes`, `TableExact`, `PopsOnce`, `TracerImplementsUnit` | the last: `CoreHeld`, and `Banks <= 4` (the source has 4) |
| `WebPageProofs` | `TypeCorrect`, `OneChainAlways`, `InOrderAlways` | |
| `StackTraceProofs` | `TypeCorrect`, `BoxesAlwaysNest`, `AlwaysBrokenUntilRun`, `CallsAlwaysBoxes`, `RunningAlwaysBoxes` | the last two: no mark is made at the time `CurrentPerf` |
| `BuildServerProofs` | `TypeCorrect`, `SuccessAlways`, `BadAlwaysReported`, `QuietAlwaysMatches`, `AlwaysRunsWhatWasSent` | |
| `TraceSessionProofs` | `TypeCorrect`, `LabelsAlwaysRight`, `NothingEverLost` | one runner, one reader, `MaxCalls < Depth`: the marks of a run do not fill the ring; the last: the list of `mark` is no longer than `Size` |
| `PcStreamProofs` | `TypeCorrect`, `AlwaysInOrder`, `OfferAlwaysStands`, `LastAlwaysLast` | |
| `RiscvCoreProofs` | `TypeCorrect`, `WordsAlwaysInPlace`, `AlwaysShownOnce`, `WidthAlwaysItsOwn`, `PipelineImplementsMachine`, `BoardAlwaysHolds`, `OperandsAlwaysFresh` | the last two: `BOARD_DEPTH >= 4` (the source has 4) |

Some of these properties carry their conditions in themselves, and the theorems
say no more than they do. `SuccessAlways` and `BadAlwaysReported` are about a
build that met no other build and no source of another language;
`AlwaysRunsWhatWasSent` about the upload of such a build after its success, with
no build or upload behind it; `QuietAlwaysMatches` about any state without a
build under way, and it allows a torn file, a binary older than the program, and
a missing program; `LabelsAlwaysRight` and `NothingEverLost` about a clean run,
the first one behind a load of the overlay that met no request. Section 6 has
what happens outside.

`SyncFifoProofs` holds the lemmas about the ring under `PcStream` and `RiscvCore`.
Each theorem comes from an inductive invariant that contains the property, or
implies it; what the invariants add, and why they have to, is this.

**The tracer.** No one of `TypeOK`, `HandshakeInv` and `TableHoldsSent` is
inductive. The type of `counter` and the index of a stored symbol need that
`symbol_en` is exact, which is part of the handshakes; the handshakes need the
types; the table needs that at the moment `symbol_en` is up the register holds
the last symbol of the history. The invariant is their conjunction `IInv`, with
one lemma for each side of the bus, each by cases on the four phases;
`SentGrows` and `TickTable` relate the write port of the table to the history.
`PopsOnce` is the action property `ReadIsOnce`: while `arready` is up so is
`arvalid`, and the branch that pops is the one for `arready` down.

`TracerImplementsUnit` is a step simulation: a clock of the tracer is a step of
the unit, or none. It adds two facts about the pipeline to `IInv`. `Searched`:
a stage has the best match of the banks its PC has passed, and no match if they
hold none. `Drained`: the further a write of the host has come, the further down
is the first stage that holds a PC; when the symbol is stored, only the fourth
can, and its PC is on its way out. So no symbol comes into a bank that a PC has
passed and not left. This is what `CoreHeld` gives, and why the theorem stops at
four stages: the phases of a write take no more clocks.
From there on, one lemma for each thing a clock does: `TickFlight`
(the hits in flight move up by one, counted by the cardinality of a set of
stages; the oldest leaves, one may enter), `FoundIsLookup` (the first of the last
bank that holds a PC is what `Lookup` chooses from the table), `ColumnPushed` and
`ColumnPopped` (two pointers modulo the depth are a sequence that loses all when
they meet), `TableGrows`, `ReadIsReading`.

**The page.** That a chain moves to `"upload"` only after a build needs to know
that a status of `"finish"` is newer than the click. `SaidIsDone` adds it, and
holds because `ClickAll` resets all statuses in the turn in which it starts the
history afresh. `ChainInv` is the conjunction; there is one step per action.

**The chart.** The replay is a recursive function over the marks. What it
computes is proved by induction with a set in the place of the predicate:
`NatStep` says that a set that contains 0 and with each number the next contains
them all, and follows from well-foundedness of `<`. `Nested` is what the loop
keeps of any trace: the stack is in the order of time, every box is of a start
and an end of one function, and ends before an open call or lies above and
inside it. `Balanced` is what it keeps of an orderly one: the stack is the calls
still open, each at its depth, and the boxes are the calls that have returned,
where open and returned are defined by counting starts and ends; the lemmas on
`Count` and `Depth` are about that counting. `ChartInv` ties the chart to the
replay of some beginning of the trace. The chart tells a running call from a
returned one by its end alone, `CurrentPerf` (700 in App.vue:198): a call that
returns at that very time looks as if it ran, hence the hypothesis of two
theorems.

**The build server.** `OnItsWay` follows a program that is built alone from its
source to the reply, tool by tool; `Apart` says what alone means while others
come and go; `OnBoard` and `RanWhole` go on from the reply to the core.
`QuietMatches` needs most: that listing and binary match when nobody builds
follows from what every tool does while others do (`Matching`). A tool has taken
what is there, or another thread is about to make it anew.

**The stream and its FIFO.** `Flow` gives every PC of the run its place: taken,
offered, or the i-th word of the ring behind the word that is leaving. It needs
that the pointers of the ring are as far apart as the counter says (`Wf`), which
an overrun breaks, and what the stage has on its wires (`Stage`). `LastTaken`
says that a last beat was taken only as the latest. `ClockedWords` is the lemma
on the ring: one clock, with a word leaving, coming, both or none.

**The session.** `Inv` has six parts. `Typed` is the ranges. `Counted` bounds
the runs: each was asked for, at most `MaxRuns` behind each load, a load under
way included. `Pasts` says that no list anywhere holds a time of a run to come,
so that what is left over cannot be taken for the next run's. `IdleInv` and
`FreshInv` say what a board that was loaded beside no request looks like up to
the release of the core: empty but for the part of the list that is written,
with the rest in the hands of the runner. `CleanInv` is the run: the table is
complete before the core starts; times and ids are paired, one id ahead while
the reader is between the two registers, and each id is that of the address its
time was taken at; no more marks are under way than were made, so a ring with
room for a run's marks never overruns. `LabelsAreRight` follows with `ListsAgree`, which says of
the recursive `mark` that its two lists agree with `Meaning`; it is proved by
induction over the lines. For `NothingLost`, `Ordered` numbers the
marks from the page back to the pipeline: behind what earlier runs left come
1, 2, ... without a gap, in what the page was sent, what the reader has, the
mark it is in the middle of, the ring and the pipeline.

The hypotheses are conditions of the code, not of the proof: two readers take
each other's halves, a full ring loses its place, two runners write their lists
into one table, and an address beyond the table makes no mark (section 6). The
last is why `NothingEverLost` needs room in the table and `LabelsAlwaysRight`
does not.

**The core.** `IInv` says that words go by their own addresses from the memory
to the decoder (`PendingInPlace`, `FifoInPlace`, `DecodedInPlace`), for which a
burst that is not to be dropped must be at the address fetch counts on
(`Bursts`). `Chain` says that each word leads to the one behind it, through the
FIFO, the word on its way and the next request; `Alone` and `Owing` say what the
ALU is doing and what it has not shown yet; `WidthsGoAlong` ties a width to its
load. Behind an overrun or a reset beside a request only the parts that survive
it are claimed. `PipelineImplementsMachine` is the refinement, as a step
simulation: a clock that accepts an instruction executes `Here` and moves `Here`
to a successor (`AcceptExecutes`), any other leaves it (`OtherwiseStays`).

The scoreboard has an invariant of its own, `InStep`, kept while nothing is
torn. `Ringed`: the valid places are the `counter` places from the read pointer
on, and are counted by their cardinality. `Even`: the counter is the number of
instructions in the ALU, in write-back, leaving it, and ending; and their
destinations are at the places this order gives them. `Aftermath` is the time
behind a flush or a reset, when ends come that nothing waits for. From `Even` at
most four are ever in flight, one each: this is why four places are enough,
though nothing in the code stops at a full board.

**Model-checked only.** The liveness properties (`ReadAnswered`, `WriteAnswered`,
`AllReleased`, `RefreshStops`, `PerfAnswered`, `Exported`, `GoesOn`): proofs under
fairness are out of the prover's reach.

## 6. Disagreements found

Each is a run with one property that fails; the text of the finding, with the
line that promises otherwise, is in `PROJECT.json`.

| Run | What happens |
|---|---|
| `build_languages` | Old sources are not removed, and `main.c` wins over `main.S`. |
| `session_overflow` | A ring that overruns between two pops leaves times and names out of step. |
| `core_hang` | A branch is taken while the burst with the return behind it comes in: fetch waits for ever for the return that was thrown away (fetch.v:113). |
| `stream_slow` | A full FIFO drops PCs, and its counter goes wrong when it is read at the same time. |

Other things the models do, as the code does, without a run of their own:

- `counter` of `src_all` is never reset: after twenty polls in all, every later
  chain gives up at its first poll if the build is not done (App.vue:500; the
  button promises "Build and Upload", App.vue:7).
- The tracer's table is not emptied between runs: `run` promises to "Upload
  trace list" (tools.py:92), but appends it, and from the 33rd symbol on nothing
  is stored. The second list of the same program is looked up in its place,
  with ids beyond the page's list. Only a load of the overlay empties it.
- A function that is a lone `ret`, or two labels of one address, give one
  address two meanings (tools.py:63-66); the tracer knows only one. Such
  listings are left out by `SessionAssumption`.
- A second `init` also empties the memory of the core: the program has to be
  uploaded again, which nothing tells the user. (The memory is in `BuildServer`,
  which has no `init`.)
- The FIFO of the core overruns: the next burst is asked for while a word of the
  last one is not counted yet (fetch.v:77), and nine words meet eight places if
  the decoder stalls. The word that is dropped is never executed.
- A jalr accepted in the clock in which a load or a store enters write-back
  flushes beside the access (alu.v:223): it is not shown on the trace port, so
  the tracer misses a return; the scoreboard forgets the load, so an operand may
  be read before it is written; and the end of the access, which comes late,
  may meet a push into the empty scoreboard, where it is lost, and the
  destination pushed is waited for for ever.
- A jalr writes no register, so `jalr ra` links nothing (alu.v:69).
- A load takes its width from the load or store behind it, when that is in the
  ALU before the data arrive (wrb.v:136).
- A memory that takes the data of a store before its address is waited for for
  ever (wrb.v:149).
- The reset of a run does not reach the memory: the rest of a burst under way
  is taken for the first words of the program (fetch.v:64, tools.py:95).
- An error of write-back stops the core without a sign: no port of top.v shows
  it. An unknown word behind a taken branch raises the error of the decoder for
  a clock (decode.v:63), which closes the PC stream.
- The reply to any build sets `work_status.build` (App.vue:373), so a chain may
  upload after the reply to an earlier build (App.vue:476).
- A refresh that fails sets no timer: Auto Refresh ends with its box still
  ticked (App.vue:304).
- Running calls are drawn to `current_perf`, the constant 700 (App.vue:198).
- `'C++'` of the page is not the `'CPP'` of `store`: nothing is stored, and the
  program before is reported as built (tools.py:36).
- Two builds share their logs; an error is emptied before it is read
  (tools.py:71).
- A build between an upload and a run changes the listing, not the memory: the
  names are those of another program (tools.py:93). An upload during a build may
  load half a binary (tools.py:89), and an upload takes the memory from under a
  program that runs.
- A build that fails to link takes the program away from another that is between
  its listing and its binary (makefile:34): listing and binary differ until the
  next build.
- Two readers take each other's halves of a mark (tools.py:106-108).
- Marks left in the ring by a run are read in the next (tools.py:94: the reset
  written there reaches nothing).
- A PC is exported without its upper half (pc_stream.v:36), the last beat goes
  out before PCs still in the pipeline (pc_stream.v:39), and the error flag
  survives the reset, so that no later run is exported (pc_stream.v:40).

## 7. What is not modelled

- The values in the core: registers, memory, ALU results, the byte lanes of
  loads and stores. `cpureg.v` is the write that `o_wr` stands for. The
  performance counter is a time stamp of `TraceSession`. `TraceSession` and
  `PcStream` take any sequence of retired PCs the core could produce; the
  transient error of a flushed instruction is among the inputs of `PcStream`.
- Undefined branches (funct3 2 and 3), whose error bit nothing reads.
- The compile of a source that is being written: `store` is one step.
- The text of the listing: its lines are labels and returns with their
  addresses. `BuildServer` knows a listing by the program it is of.
- `ctrl.v` (used by a bench only), `mul.v` (not instantiated), benches, the
  block design, the webpack and Django boilerplate, the start-up code.
- The other projects of the repository, listed one by one in `PROJECT.json`.

## 8. Plan

Done: the tracer, its abstract unit and refinement, the page, the chart, the
build server, the session with `mark` and `init`, the stream, the core with the
machine it implements; proofs of every safety property of these, both
refinements among them.

Next, theorems on what happens outside the conditions of section 5:

1. What two readers may do to each other: that ids and times come apart only
   when their halves meet.
2. What a second run without a load of the overlay shows: that the marks still
   bear the ids of the first list, in the order of the retired PCs.

Left to model, if it is to go on: from the other projects, the memory hierarchy of
`src/RISC-V_pipelined_cpu` (two caches, arbiter, eviction write buffer) and the
FIFOs and arbiters of `src/common`.

The project keeps to a dozen runs, so that all of them can be repeated after a
change; what section 6 lists without a run was found by one that made room.
