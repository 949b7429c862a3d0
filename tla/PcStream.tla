------------------------------ MODULE PcStream ------------------------------
(***************************************************************************)
(* pc_stream.v: every retired PC goes through a FIFO to a DMA, and an      *)
(* error of the core closes the stream with a last beat.                   *)
(*                                                                         *)
(* A step is a clock edge.  The core and the DMA (external) put any values *)
(* on their wires at each of them; the reset is the core's, which          *)
(* tools.run pulls before every run.                                       *)
(***************************************************************************)
EXTENDS SyncFifo

CONSTANTS
    Width,          \* bits of M_AXIS_tdata (16, of the 32 of a PC)
    Pcs,            \* addresses the core retires
    ErrorRuns,      \* runs in which the core meets an instruction it does not know
    MaxSent,        \* bound: PCs of a run
    MaxRuns         \* bound: clocks in reset, after the first one

ASSUME StreamAssumption ==
    /\ Width \in Nat \ {0}
    /\ Pcs # {} /\ Pcs \subseteq Nat
    /\ ErrorRuns \subseteq Nat
    /\ MaxSent \in Nat /\ MaxRuns \in Nat

VARIABLES
    fifo, axis_stage, error, fifo_rden,
    tvalid, tdata, tlast,
    run,        \* clocks in reset so far
    sent,       \* history: PCs of this run
    taken,      \* history: beats of this run the DMA took
    overrun     \* history: a PC of this run met a full FIFO

axis == <<axis_stage, error, fifo_rden, tvalid, tdata, tlast>>
vars == <<fifo, axis, run, sent, taken, overrun>>

Low(pc) == pc % (2 ^ Width)

\* The state the FPGA is configured with; its first clocks are in reset.
Init ==
    /\ fifo = InitFifo(0)
    /\ axis_stage = 0 /\ error = FALSE /\ fifo_rden = FALSE
    /\ tvalid = FALSE /\ tdata = 0 /\ tlast = FALSE
    /\ run = 0 /\ sent = << >> /\ taken = << >> /\ overrun = FALSE

-----------------------------------------------------------------------------
\* The oldest PC becomes a beat, and leaves the FIFO at the next edge.
Offer(i_error) ==
    /\ axis_stage = 0 /\ ~error /\ ~empty(fifo)
    /\ axis_stage' = 1
    /\ tvalid' = TRUE /\ tdata' = Low(rd_data(fifo))
    /\ fifo_rden' = TRUE
    /\ UNCHANGED <<error, tlast>>

\* Mutant: the error is not remembered.
CloseAgain(i_error) ==
    /\ axis_stage = 0 /\ ~error /\ empty(fifo) /\ i_error
    /\ axis_stage' = 1
    /\ tvalid' = TRUE /\ tdata' = 1 /\ tlast' = TRUE
    /\ UNCHANGED <<error, fifo_rden>>
\* The core has failed and the FIFO is empty: the last beat.
Close(i_error) ==
    /\ axis_stage = 0 /\ ~error /\ empty(fifo) /\ i_error
    /\ axis_stage' = 1 /\ error' = TRUE
    /\ tvalid' = TRUE /\ tdata' = 1 /\ tlast' = TRUE
    /\ UNCHANGED fifo_rden

Nothing(i_error) ==
    /\ axis_stage = 0 /\ (error \/ (empty(fifo) /\ ~i_error))
    /\ UNCHANGED axis

\* Mutant: the beat ends without the DMA.
WaitIgnoresReady(tready) ==
    /\ axis_stage = 1
    /\ fifo_rden' = FALSE
    /\ axis_stage' = 0 /\ tvalid' = FALSE /\ tlast' = FALSE
    /\ UNCHANGED <<error, tdata>>
\* Mutant: the end of a beat does not end the stage.
WaitForEver(tready) ==
    /\ axis_stage = 1
    /\ fifo_rden' = FALSE
    /\ IF tready THEN tvalid' = FALSE /\ tlast' = FALSE ELSE UNCHANGED <<tvalid, tlast>>
    /\ UNCHANGED <<axis_stage, error, tdata>>
Wait(tready) ==
    /\ axis_stage = 1
    /\ fifo_rden' = FALSE
    /\ IF tready THEN axis_stage' = 0 /\ tvalid' = FALSE /\ tlast' = FALSE
       ELSE UNCHANGED <<axis_stage, tvalid, tlast>>
    /\ UNCHANGED <<error, tdata>>

\* What the DMA takes at this edge, and what the core retires.
Takes(tready) ==
    taken' = IF tvalid /\ tready THEN Append(taken, [pc |-> tdata, last |-> tlast]) ELSE taken

Receive(i_pc_valid, i_pc) ==
    /\ fifo' = Clocked(fifo, fifo_rden, i_pc_valid, i_pc)
    /\ sent' = IF i_pc_valid THEN Append(sent, i_pc) ELSE sent
    /\ overrun' = (overrun \/ (i_pc_valid /\ full(fifo)))

Clock(tready, i_error) ==
    /\ \/ Receive(FALSE, 0)
       \/ /\ Len(sent) < MaxSent
          /\ \E pc \in Pcs : Receive(TRUE, pc)
    /\ i_error => run \in ErrorRuns
    /\ Takes(tready)
    /\ Offer(i_error) \/ Close(i_error) \/ Nothing(i_error) \/ Wait(tready)
    /\ UNCHANGED run

\* The reset does not reach the stage, the error, the read enable or tlast.
ClockInReset ==
    /\ run < MaxRuns
    /\ fifo' = Reset(fifo)
    /\ tvalid' = FALSE /\ tdata' = 0
    /\ run' = run + 1
    /\ sent' = << >> /\ taken' = << >> /\ overrun' = FALSE
    /\ UNCHANGED <<axis_stage, error, fifo_rden, tlast>>

Next == ClockInReset \/ \E tready, i_error \in BOOLEAN : Clock(tready, i_error)

Spec == Init /\ [][Next]_vars

\* The clock ticks, and the DMA never stays unready for ever.
FairSpec == Spec /\ WF_vars(\E i_error \in BOOLEAN : Clock(TRUE, i_error))

-----------------------------------------------------------------------------
Data == {Low(pc) : pc \in Pcs \cup {0}} \cup {0, 1}

TypeOK ==
    /\ fifo \in Fifos(Pcs \cup {0})
    /\ axis_stage \in {0, 1}
    /\ error \in BOOLEAN /\ fifo_rden \in BOOLEAN
    /\ tvalid \in BOOLEAN /\ tdata \in Data /\ tlast \in BOOLEAN
    /\ run \in 0..MaxRuns
    /\ sent \in Seq(Pcs) /\ Len(sent) <= MaxSent
    /\ taken \in Seq([pc: Data, last: BOOLEAN])
    /\ overrun \in BOOLEAN

\* The PCs the DMA took (a last beat at the end is none), the PC it is offered,
\* and those in the FIFO without the one that leaves it at the next edge.
Closed == taken # << >> /\ taken[Len(taken)].last
Took == [i \in 1..(IF Closed THEN Len(taken) - 1 ELSE Len(taken)) |-> taken[i].pc]
Offered == IF tvalid /\ ~tlast THEN <<tdata>> ELSE << >>
Waiting == LET s == Content(fifo) IN IF fifo_rden /\ s # << >> THEN Tail(s) ELSE s

(* As long as no PC of the run has met a full FIFO, nothing is lost, made  *)
(* twice or reordered between the core and the DMA: only the upper half of *)
(* every PC is gone.                                                       *)
InOrder ==
    ~overrun =>
        Took \o Offered \o [i \in DOMAIN Waiting |-> Low(Waiting[i])]
            = [i \in DOMAIN sent |-> Low(sent[i])]

(* The AXI-stream rule: what is offered stays until it is taken.           *)
OfferStands ==
    [][tvalid /\ run' = run /\ taken' = taken
         => tvalid' /\ tdata' = tdata /\ tlast' = tlast]_vars

(* The beat marked as the last of the stream is the last one, whatever     *)
(* runs and resets come after it, and no beat after an error is another.   *)
LastIsLast ==
    [][Len(taken') > Len(taken) =>
         /\ error => taken'[Len(taken')].last
         /\ \A i \in DOMAIN taken : ~taken[i].last]_vars

(* Every PC of the stream reaches the DMA sooner or later, unless the core *)
(* fails: the FIFO is empty again and again.                               *)
Exported == []<>(empty(fifo) \/ error)

-----------------------------------------------------------------------------
(* README.md:12 "directly export the raw data stream of the PC": the DMA   *)
(* takes the PCs of the run, in order and as they are.                     *)
RawStream == Took = SubSeq(sent, 1, Len(Took))
=============================================================================
