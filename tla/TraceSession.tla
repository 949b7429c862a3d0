---------------------------- MODULE TraceSession ----------------------------
(***************************************************************************)
(* A tracing session: the page, the server's threads and the tracer.       *)
(*                                                                         *)
(* tools.run (Django/pynq/pynq_0/tools.py) writes the functions of the     *)
(* program into the tracer and releases the core; tools.read_trace pops    *)
(* the marks; App.vue keeps the functions of the latest run and the marks  *)
(* it was sent.  Every access of a thread to the board is a step, and the  *)
(* core runs meanwhile.  The tracer is the unit of TraceUnit, which the    *)
(* clocked FunctionTrace implements.                                       *)
(***************************************************************************)
EXTENDS Integers, Sequences, SequencesExt

CONSTANTS
    Size, BankSize, Depth,  \* the tracer (32, 8, 256)
    Latency,                \* marks in its pipeline (4)
    Runners, Readers,       \* threads that run tools.run and tools.read_trace
    Starters,               \* threads that run tools.init
    Listing,                \* the lines of asm.asm that mark() takes something from
    MaxRuns,                \* bound: run requests behind a load of the overlay
    MaxReads,               \* bound: perf requests
    MaxInits,               \* bound: init requests after the first
    MaxCalls                \* bound: function entries and exits of the program, per run

\* A label opens a function; a ret leaves the one opened last.
Lines == [kind: {"label", "ret"}, addr: Nat, func: STRING]

\* mark(): every ret is listed with the start of its function.  The names and
\* the addresses go to two lists, to the page and to the tracer.
MarkLine(m, line) ==
    IF line.kind = "label" THEN [m EXCEPT !.func = line.func, !.start = line.addr]
    ELSE [m EXCEPT !.input = @ \o <<m.start, line.addr>>,
                   !.response = @ \o <<[name |-> m.func, type |-> "start"],
                                      [name |-> m.func, type |-> "end"]>>]
NoLine == [input |-> << >>, response |-> << >>, func |-> "", start |-> 0]
mark ==
    LET after[i \in 0..Len(Listing)] ==
            IF i = 0 THEN NoLine ELSE MarkLine(after[i - 1], Listing[i])
    IN  after[Len(Listing)]

Addresses == Range(mark.input)
Threads == Runners \cup Readers \cup Starters

\* What the address of a mark is, by the listing itself: the label there, or the
\* last label before the return there.
Meaning(pc) ==
    LET i == CHOOSE i \in DOMAIN Listing : Listing[i].addr = pc
        f == CHOOSE f \in 1..i : /\ Listing[f].kind = "label"
                                 /\ \A k \in (f + 1)..i : Listing[k].kind = "ret"
    IN  [name |-> Listing[f].func, type |-> IF f = i THEN "start" ELSE "end"]

\* The listing of a program: in the order of the addresses, a function first, and
\* no two lines of one address: an alias, or a function that is a lone ret, is
\* left out.
ASSUME SessionAssumption ==
    /\ Size \in Nat \ {0} /\ BankSize \in Nat \ {0} /\ Depth \in Nat \ {0}
    /\ Latency \in Nat \ {0}
    /\ Runners \cap Readers = {} /\ Starters \cap (Runners \cup Readers) = {}
    /\ Listing \in Seq(Lines)
    /\ Listing # << >> => Listing[1].kind = "label"
    /\ \A i, k \in DOMAIN Listing : i < k => Listing[i].addr < Listing[k].addr
    /\ {MaxRuns, MaxReads, MaxInits, MaxCalls} \subseteq Nat

\* A time stamp is unique: it stands for the run and the place in it, and tells
\* the address that was seen.
LastRun == MaxRuns * (MaxInits + 1)
Stamps == [run: 1..LastRun, n: 1..MaxCalls, pc: Addresses]

VARIABLES
    unit, rdata,    \* the tracer
    core,           \* [held, run, n, stack]: held in reset; number of the run; marks so
                    \* far; the functions it is in
    at, todo, seen, got,    \* the threads: place, addresses to write, perf half of a
                            \* mark, marks read so far
    runs, reads, inits,     \* requests so far; runs, since the overlay was loaded
    page,           \* [lut: what the ids mean, run: of which run, perf: the marks]
    dropped,        \* history: the marks the page has forgotten since the latest run
    fresh,          \* history: the overlay was loaded beside no request, and no run
                    \* released since
    clean           \* history: the latest run found it fresh, and nothing was loaded
                    \* beside a request since

tracer == <<unit, rdata>>
threads == <<at, todo, seen, got>>
requests == <<runs, reads, inits>>
history == <<dropped, fresh, clean>>
vars == <<tracer, core, threads, requests, page, history>>

U == INSTANCE TraceUnit WITH Addrs <- Addresses, Perfs <- Stamps

\* What is no stamp: rdata after a reset, or an id.
NoStamp == [run |-> 0, n |-> 0, pc |-> 0]
IdData(id) == [run |-> 0, n |-> id, pc |-> 0]

Init ==
    /\ unit = U!Empty /\ rdata = NoStamp
    /\ core = [held |-> TRUE, run |-> 0, n |-> 0, stack |-> << >>]
    /\ at = [t \in Threads |-> "idle"]
    /\ todo = [t \in Threads |-> << >>]
    /\ seen = [t \in Threads |-> NoStamp]
    /\ got = [t \in Threads |-> << >>]
    /\ runs = 0 /\ reads = 0 /\ inits = 0
    /\ page = [lut |-> << >>, run |-> 0, perf |-> << >>]
    /\ dropped = << >> /\ fresh = TRUE /\ clean = FALSE

Go(t, from, to) == at[t] = from /\ at' = [at EXCEPT ![t] = to]

-----------------------------------------------------------------------------
(* The board.                                                              *)

\* A released core enters any listed function, leaves the one it is in by any of
\* its returns, and stops at some point.
Call ==
    /\ ~core.held /\ core.n < MaxCalls
    /\ Len(unit.flight) < Latency
    /\ \E pc \in Addresses :
         /\ \/ /\ Meaning(pc).type = "start"
               /\ core' = [core EXCEPT !.n = @ + 1, !.stack = Append(@, Meaning(pc).name)]
            \/ /\ Meaning(pc).type = "end"
               /\ core.stack # << >> /\ Last(core.stack) = Meaning(pc).name
               /\ core' = [core EXCEPT !.n = @ + 1, !.stack = Front(@)]
         /\ unit' = U!See(unit, pc, [run |-> core.run, n |-> core.n + 1, pc |-> pc])
    /\ UNCHANGED <<rdata, threads, requests, page, history>>

Record ==
    /\ unit.flight # << >>
    /\ unit' = U!Record(unit)
    /\ UNCHANGED <<rdata, core, threads, requests, page, history>>

-----------------------------------------------------------------------------
(* tools.run.  The writes to rst_trace reach the tracer's rst_n, which it  *)
(* does not look at: they change nothing.                                  *)

AskRun(t) ==
    /\ runs < MaxRuns
    /\ Go(t, "idle", "hold")
    /\ todo' = [todo EXCEPT ![t] = mark.input]
    /\ runs' = runs + 1
    /\ UNCHANGED <<tracer, core, seen, got, reads, inits, page, history>>

\* With the core in reset the pipeline runs empty long before the first write.
HoldCore(t) ==
    /\ Go(t, "hold", "symbols")
    /\ core' = [core EXCEPT !.held = TRUE]
    /\ UNCHANGED <<tracer, todo, seen, got, requests, page, history>>

WriteSymbol(t) ==
    /\ at[t] = "symbols" /\ todo[t] # << >> /\ unit.flight = << >>
    /\ unit' = U!AddSymbol(unit, Head(todo[t]))
    /\ todo' = [todo EXCEPT ![t] = Tail(@)]
    /\ UNCHANGED <<rdata, core, at, seen, got, requests, page, history>>

\* Mutant: the unit is not started.
StartUnitNever(t) ==
    /\ todo[t] = << >>
    /\ Go(t, "symbols", "release")
    /\ UNCHANGED <<tracer, core, todo, seen, got, requests, page, history>>
StartUnit(t) ==
    /\ todo[t] = << >>
    /\ Go(t, "symbols", "release")
    /\ unit' = U!SetRunning(unit)
    /\ UNCHANGED <<rdata, core, todo, seen, got, requests, page, history>>

ReleaseCore(t) ==
    /\ Go(t, "release", "ran")
    /\ core' = [core EXCEPT !.held = FALSE, !.run = @ + 1, !.n = 0, !.stack = << >>]
    /\ clean' = fresh /\ fresh' = FALSE /\ dropped' = << >>
    /\ UNCHANGED <<tracer, todo, seen, got, requests, page>>

\* The page takes the functions of the run and forgets the marks it had.
RunReply(t) ==
    /\ Go(t, "ran", "idle")
    /\ page' = [lut |-> mark.response, run |-> core.run, perf |-> << >>]
    /\ dropped' = dropped \o page.perf
    /\ UNCHANGED <<tracer, core, todo, seen, got, requests, fresh, clean>>

-----------------------------------------------------------------------------
(* tools.read_trace.                                                       *)

AskPerf(t) ==
    /\ reads < MaxReads
    /\ Go(t, "idle", "avail")
    /\ reads' = reads + 1
    /\ UNCHANGED <<tracer, core, todo, seen, got, runs, inits, page, history>>

\* Mutant: the loop waits for a mark.
ReadAvailWaits(t) ==
    /\ at[t] = "avail" /\ unit.perfs # << >>
    /\ at' = [at EXCEPT ![t] = "perf"]
    /\ rdata' = IdData(Len(unit.perfs))
    /\ UNCHANGED <<unit, core, todo, seen, got, requests, page, history>>
ReadAvail(t) ==
    /\ at[t] = "avail"
    /\ at' = [at EXCEPT ![t] = IF unit.perfs = << >> THEN "read" ELSE "perf"]
    /\ rdata' = IdData(Len(unit.perfs))
    /\ UNCHANGED <<unit, core, todo, seen, got, requests, page, history>>

\* Mutant: the symbol register is read for the time.
ReadPerfOfSymbol(t) ==
    /\ Go(t, "perf", "symbol")
    /\ rdata' = IF unit.symbols = << >> THEN rdata ELSE IdData(Head(unit.symbols))
    /\ seen' = [seen EXCEPT ![t] = rdata']
    /\ unit' = U!PopSymbol(unit)
    /\ UNCHANGED <<core, todo, got, requests, page, history>>
\* seen is t_perf of the thread, which it uses no more when the mark is read.
ReadPerf(t) ==
    /\ Go(t, "perf", "symbol")
    /\ rdata' = U!HeadOr(unit.perfs, rdata)
    /\ seen' = [seen EXCEPT ![t] = rdata']
    /\ unit' = U!PopPerf(unit)
    /\ UNCHANGED <<core, todo, got, requests, page, history>>

\* Mutant: the symbol column is read without popping it.
ReadSymbolPeek(t) ==
    /\ Go(t, "symbol", "avail")
    /\ rdata' = IF unit.symbols = << >> THEN rdata ELSE IdData(Head(unit.symbols))
    /\ got' = [got EXCEPT ![t] = Append(@, [id |-> rdata'.n, t |-> seen[t]])]
    /\ seen' = [seen EXCEPT ![t] = NoStamp]
    /\ UNCHANGED <<unit, core, todo, requests, page, history>>
ReadSymbol(t) ==
    /\ Go(t, "symbol", "avail")
    /\ rdata' = IF unit.symbols = << >> THEN rdata ELSE IdData(Head(unit.symbols))
    /\ got' = [got EXCEPT ![t] = Append(@, [id |-> rdata'.n, t |-> seen[t]])]
    /\ seen' = [seen EXCEPT ![t] = NoStamp]
    /\ unit' = U!PopSymbol(unit)
    /\ UNCHANGED <<core, todo, requests, page, history>>

\* The reply may overtake, or be overtaken by, the replies of other threads.
PerfReply(t) ==
    /\ Go(t, "read", "idle")
    /\ page' = [page EXCEPT !.perf = @ \o got[t]]
    /\ got' = [got EXCEPT ![t] = << >>]
    /\ UNCHANGED <<tracer, core, todo, seen, requests, history>>

-----------------------------------------------------------------------------
(* tools.init.                                                             *)

AskInit(t) ==
    /\ inits < MaxInits
    /\ Go(t, "idle", "overlay")
    /\ inits' = inits + 1
    /\ UNCHANGED <<tracer, core, todo, seen, got, runs, reads, page, history>>

Quiet == \A t \in Runners \cup Readers : at[t] = "idle"

\* The bitstream puts every register back to its initial value, whoever uses it;
\* the handles that are fetched behind it are those of the same addresses.
LoadOverlay(t) ==
    /\ Go(t, "overlay", "idle")
    /\ unit' = U!Empty /\ rdata' = NoStamp
    /\ core' = [core EXCEPT !.held = TRUE, !.n = 0, !.stack = << >>]
    /\ fresh' = Quiet /\ clean' = (clean /\ Quiet)
    /\ runs' = 0
    /\ UNCHANGED <<todo, seen, got, reads, inits, page, dropped>>

-----------------------------------------------------------------------------
Starting(t) == AskInit(t) \/ LoadOverlay(t)
Running(t) == AskRun(t) \/ HoldCore(t) \/ WriteSymbol(t) \/ StartUnit(t) \/ ReleaseCore(t)
              \/ RunReply(t)
Reading(t) == AskPerf(t) \/ ReadAvail(t) \/ ReadPerf(t) \/ ReadSymbol(t) \/ PerfReply(t)

Next == \/ Call \/ Record
        \/ \E t \in Runners : Running(t)
        \/ \E t \in Readers : Reading(t)
        \/ \E t \in Starters : Starting(t)

Spec == Init /\ [][Next]_vars

\* The tracer's pipeline never stops, and a thread that has taken a request goes on.
FairSpec ==
    /\ Spec /\ WF_vars(Record)
    /\ \A t \in Runners : WF_vars(Running(t) /\ at[t] # "idle")
    /\ \A t \in Readers : WF_vars(Reading(t) /\ at[t] # "idle")
    /\ \A t \in Starters : WF_vars(LoadOverlay(t))

-----------------------------------------------------------------------------
Places == {"idle", "overlay", "hold", "symbols", "release", "ran",
           "avail", "perf", "symbol", "read"}

TypeOK ==
    /\ Len(unit.table) <= Size /\ unit.running \in {0, 1}
    /\ Len(unit.perfs) < Depth /\ Len(unit.symbols) < Depth
    /\ core.held \in BOOLEAN /\ core.run \in 0..LastRun /\ core.n \in 0..MaxCalls
    /\ Len(core.stack) <= core.n
    /\ at \in [Threads -> Places]
    /\ runs \in 0..MaxRuns /\ reads \in 0..MaxReads /\ inits \in 0..MaxInits
    /\ fresh \in BOOLEAN /\ clean \in BOOLEAN
    /\ clean => \A t \in Readers : \A i \in DOMAIN got[t] :
                    got[t][i].id \in 0..(Size - 1) /\ got[t][i].t \in Stamps

Times(s) == [i \in DOMAIN s |-> s[i].t]
Perfs(s) == [i \in DOMAIN s |-> s[i].perf]

\* What the one reader holds: the marks it has read, and the time of the mark it
\* is reading.
Carried == LET t == CHOOSE t \in Readers : TRUE
           IN  Times(got[t]) \o (IF at[t] = "symbol" THEN <<seen[t]>> ELSE << >>)

\* The time stamps on their way from the core to the page, oldest first.
OnTheWay == Times(dropped) \o Times(page.perf) \o Carried \o unit.perfs \o Perfs(unit.flight)

(* With one reader, and in a run that is the first behind a load that met  *)
(* no request (clean), every entry and exit of a listed function is on its *)
(* way to the page or there, once and in order, from the first instruction *)
(* of the run on, behind what is left of earlier runs; or the page has     *)
(* dropped it, because it was read before the reply to the run.            *)
NothingLost ==
    clean /\ core.n > 0 =>
        \E old \in 0..Len(OnTheWay) :
            /\ Len(OnTheWay) = old + core.n
            /\ \A i \in 1..old : OnTheWay[i].run # core.run
            /\ \A i \in 1..core.n : /\ OnTheWay[old + i].run = core.run
                                    /\ OnTheWay[old + i].n = i

(* In such a run, once the page has the reply to it, a mark of the run on  *)
(* the page names the function that was running at its time, and tells its *)
(* start from its end, though a function with several returns is in the    *)
(* table several times.                                                    *)
LabelsAreRight ==
    \A i \in DOMAIN page.perf :
        clean /\ page.run = core.run /\ page.perf[i].t.run = core.run =>
            /\ page.perf[i].id + 1 \in DOMAIN page.lut
            /\ page.lut[page.perf[i].id + 1] = Meaning(page.perf[i].t.pc)

(* A perf request is answered: the loop ends when the core has no more to  *)
(* show.                                                                   *)
PerfAnswered == \A t \in Readers : at[t] # "idle" ~> at[t] = "idle"
=============================================================================
