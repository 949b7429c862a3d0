--------------------------- MODULE PcStreamProofs ---------------------------
(***************************************************************************)
(* Proofs about PcStream, for every depth and width and any set of PCs: as *)
(* long as no PC meets a full FIFO the stream is the run's PCs in order;   *)
(* an offered beat stands until it is taken; and the beat marked as the    *)
(* last is the last one.                                                   *)
(***************************************************************************)
EXTENDS PcStream, SyncFifoProofs

USE StreamAssumption

-----------------------------------------------------------------------------
(* The inductive invariant.                                                *)

\* What the stage has on its wires.  Only the reset, which does not reach the
\* stage, leaves it in a beat that is not offered.
Stage ==
    /\ axis_stage = 0 => ~tvalid /\ ~tlast /\ ~fifo_rden
    /\ axis_stage = 1 => (tlast <=> error)
    /\ fifo_rden => ~error

\* A last beat was taken only as the latest, behind an error, and the stage is
\* back from it.
LastTaken ==
    \A i \in DOMAIN taken : taken[i].last =>
        error /\ axis_stage = 0 /\ i = Len(taken)

\* How many PCs the DMA took, is offered, and will find in the FIFO.
TookNow == IF Closed THEN Len(taken) - 1 ELSE Len(taken)
OfferedNow == IF tvalid /\ ~tlast THEN 1 ELSE 0
Leaving == Left(fifo, fifo_rden)

\* The PCs of the run by their places.
Flow ==
    ~overrun =>
        /\ Wf(fifo)
        /\ Len(sent) = TookNow + OfferedNow + (fifo.counter - Leaving)
        /\ \A i \in 1..TookNow : taken[i].pc = Low(sent[i])
        /\ OfferedNow = 1 => tdata = Low(sent[TookNow + 1])
        /\ \A i \in 1..(fifo.counter - Leaving) :
               Word(fifo, i + Leaving) = sent[TookNow + OfferedNow + i]

IInv == TypeOK /\ Stage /\ LastTaken /\ Flow

-----------------------------------------------------------------------------
(* Types.                                                                  *)

\* A sequence with one more element.
LEMMA Appended ==
    ASSUME NEW S, NEW s \in Seq(S), NEW e \in S
    PROVE  /\ Append(s, e) \in Seq(S) /\ Len(Append(s, e)) = Len(s) + 1
           /\ \A i \in 1..Len(s) : Append(s, e)[i] = s[i]
           /\ Append(s, e)[Len(s) + 1] = e
OBVIOUS

\* A beat is one.
LEMMA BeatTyped ==
    ASSUME TypeOK PROVE [pc |-> tdata, last |-> tlast] \in [pc: Data, last: BOOLEAN]
<1>1. tdata \in Data /\ tlast \in BOOLEAN
  BY DEF TypeOK
<1> QED
  BY <1>1

\* The FPGA comes up well typed and with an empty stream.
LEMMA InitInv == Init => IInv
<1> SUFFICES ASSUME Init PROVE IInv
  OBVIOUS
<1>1. 0 \in Pcs \cup {0}
  OBVIOUS
<1>2. fifo \in Fifos(Pcs \cup {0}) /\ Wf(fifo) /\ empty(fifo)
  BY <1>1, InitFifoTyped DEF Init
<1>3. TypeOK
  <2>1. << >> \in Seq(Pcs) /\ Len(<< >>) = 0 /\ << >> \in Seq([pc: Data, last: BOOLEAN])
    OBVIOUS
  <2>2. sent \in Seq(Pcs) /\ Len(sent) <= MaxSent /\ taken \in Seq([pc: Data, last: BOOLEAN])
    BY <2>1 DEF Init
  <2>3. /\ axis_stage \in {0, 1} /\ error \in BOOLEAN /\ fifo_rden \in BOOLEAN
        /\ tvalid \in BOOLEAN /\ tdata \in Data /\ tlast \in BOOLEAN
    BY DEF Init, Data
  <2>4. run \in 0..MaxRuns
    BY DEF Init
  <2>5. overrun \in BOOLEAN
    BY DEF Init
  <2> QED
    BY <1>2, <2>2, <2>3, <2>4, <2>5 DEF TypeOK
<1>4. Stage /\ LastTaken
  BY DEF Init, Stage, LastTaken
<1>5. Flow
  BY <1>2 DEF Init, Flow, TookNow, OfferedNow, Leaving, Left, Closed, empty
<1> QED
  BY <1>3, <1>4, <1>5 DEF IInv

LEMMA NextTyped == TypeOK /\ [Next]_vars => TypeOK'
<1> SUFFICES ASSUME TypeOK, [Next]_vars PROVE TypeOK'
  OBVIOUS
<1> USE DEF TypeOK
<1>1. CASE ClockInReset
  <2>1. << >> \in Seq(Pcs) /\ Len(<< >>) = 0 /\ << >> \in Seq([pc: Data, last: BOOLEAN])
    OBVIOUS
  <2>2. sent' \in Seq(Pcs) /\ Len(sent') <= MaxSent /\ taken' \in Seq([pc: Data, last: BOOLEAN])
    BY <1>1, <2>1 DEF ClockInReset
  <2>3. fifo' \in Fifos(Pcs \cup {0})
    BY <1>1, ResetTyped DEF ClockInReset
  <2>4. /\ axis_stage' \in {0, 1} /\ error' \in BOOLEAN /\ fifo_rden' \in BOOLEAN
        /\ tvalid' \in BOOLEAN /\ tdata' \in Data /\ tlast' \in BOOLEAN
    BY <1>1 DEF ClockInReset, Data
  <2>5. run' \in 0..MaxRuns
    BY <1>1 DEF ClockInReset
  <2>6. overrun' \in BOOLEAN
    BY <1>1 DEF ClockInReset
  <2> QED
    BY <2>2, <2>3, <2>4, <2>5, <2>6
<1>2. ASSUME NEW tready \in BOOLEAN, NEW i_error \in BOOLEAN, Clock(tready, i_error)
      PROVE  TypeOK'
  <2>1. fifo' \in Fifos(Pcs \cup {0}) /\ overrun' \in BOOLEAN
    BY <1>2, ClockedTyped DEF Clock, Receive
  <2>2. sent' \in Seq(Pcs) /\ Len(sent') <= MaxSent
    <3>1. CASE Receive(FALSE, 0)
      BY <3>1 DEF Receive
    <3>2. ASSUME NEW pc \in Pcs, Len(sent) < MaxSent, Receive(TRUE, pc)
          PROVE  sent' \in Seq(Pcs) /\ Len(sent') <= MaxSent
      BY <3>2 DEF Receive
    <3> QED
      BY <1>2, <3>1, <3>2 DEF Clock
  <2>3. taken' \in Seq([pc: Data, last: BOOLEAN])
    <3>1. [pc |-> tdata, last |-> tlast] \in [pc: Data, last: BOOLEAN]
      BY BeatTyped
    <3>2. taken' = taken \/ taken' = Append(taken, [pc |-> tdata, last |-> tlast])
      BY <1>2 DEF Clock, Takes
    <3> DEFINE S == [pc: Data, last: BOOLEAN]
    <3> DEFINE b == [pc |-> tdata, last |-> tlast]
    <3>3. taken \in Seq(S) /\ b \in S /\ (taken' = taken \/ taken' = Append(taken, b))
      BY <3>1, <3>2
    <3> HIDE DEF S, b
    <3>4. taken' \in Seq(S)
      BY <3>3, Appended
    <3> QED
      BY <3>4 DEF S
  <2>4. Low(rd_data(fifo)) \in Data
    BY OldestShown DEF Data
  <2>5. /\ axis_stage' \in {0, 1} /\ error' \in BOOLEAN /\ fifo_rden' \in BOOLEAN
        /\ tvalid' \in BOOLEAN /\ tdata' \in Data /\ tlast' \in BOOLEAN
    <3>1. CASE Offer(i_error)
      BY <2>4, <3>1 DEF Offer
    <3>2. CASE Close(i_error)
      BY <3>2 DEF Close, Data
    <3>3. CASE Nothing(i_error)
      BY <3>3 DEF Nothing, axis
    <3>4. CASE Wait(tready)
      BY <3>4 DEF Wait
    <3> QED
      BY <1>2, <3>1, <3>2, <3>3, <3>4 DEF Clock
  <2>6. run' = run
    BY <1>2 DEF Clock
  <2> QED
    BY <2>1, <2>2, <2>3, <2>5, <2>6
<1>3. CASE UNCHANGED vars
  BY <1>3 DEF vars, axis
<1> QED
  BY <1>1, <1>2, <1>3 DEF Next

-----------------------------------------------------------------------------
(* The stage and the beats.                                                *)

LEMMA NextStage ==
    TypeOK /\ Stage /\ LastTaken /\ [Next]_vars => Stage' /\ LastTaken'
<1> SUFFICES ASSUME TypeOK, Stage, LastTaken, [Next]_vars PROVE Stage' /\ LastTaken'
  OBVIOUS
<1>1. CASE ClockInReset
  BY <1>1 DEF ClockInReset, Stage, LastTaken
<1>2. ASSUME NEW tready \in BOOLEAN, NEW i_error \in BOOLEAN, Clock(tready, i_error)
      PROVE  Stage' /\ LastTaken'
  <2>1. CASE Offer(i_error) \/ Close(i_error) \/ Nothing(i_error)
    <3>1. Stage' /\ axis_stage = 0
      BY <2>1 DEF Offer, Close, Nothing, axis, Stage, TypeOK
    <3>2. taken' = taken
      BY <1>2, <3>1 DEF Clock, Takes, Stage
    <3>3. (\E i \in DOMAIN taken : taken[i].last) => error' /\ axis_stage' = 0
      BY <2>1 DEF Offer, Close, Nothing, axis, LastTaken
    <3> QED
      BY <3>1, <3>2, <3>3 DEF LastTaken
  <2>2. CASE Wait(tready)
    <3>1. Stage'
      BY <2>2 DEF Wait, Stage, TypeOK
    <3>2. \A i \in DOMAIN taken : ~taken[i].last
      BY <2>2 DEF Wait, LastTaken
    <3>3. CASE tvalid /\ tready
      <4>1. taken' = Append(taken, [pc |-> tdata, last |-> tlast]) /\ axis_stage' = 0
        BY <1>2, <2>2, <3>3 DEF Clock, Takes, Wait
      <4>2. tlast => error'
        BY <2>2 DEF Wait, Stage
      <4>3. \A i \in DOMAIN taken' : taken'[i].last => i = Len(taken') /\ tlast
        BY <3>2, <4>1 DEF TypeOK
      <4> QED
        BY <3>1, <4>1, <4>2, <4>3 DEF LastTaken
    <3>4. CASE ~(tvalid /\ tready)
      <4>1. taken' = taken
        BY <1>2, <3>4 DEF Clock, Takes
      <4> QED
        BY <3>1, <3>2, <4>1 DEF LastTaken
    <3> QED
      BY <3>3, <3>4
  <2> QED
    BY <1>2, <2>1, <2>2 DEF Clock
<1>3. CASE UNCHANGED vars
  BY <1>3 DEF vars, axis, Stage, LastTaken
<1> QED
  BY <1>1, <1>2, <1>3 DEF Next

-----------------------------------------------------------------------------
(* The PCs.                                                                *)

\* What the FIFO makes of a clock: what is offered now, and then its words, are
\* the PCs behind those the DMA took.
Passed(now) ==
    /\ Wf(fifo') /\ fifo' \in Fifos(Pcs \cup {0})
    /\ sent' \in Seq(Pcs)
    /\ Len(sent') = now + fifo'.counter
    /\ \A i \in 1..Len(sent) : sent'[i] = sent[i]
    /\ \A i \in 1..fifo'.counter : Word(fifo', i) = sent'[now + i]

\* The counts are counts.
LEMMA CountsTyped ==
    ASSUME TypeOK
    PROVE  TookNow \in Nat /\ OfferedNow \in 0..1 /\ fifo.counter \in Nat
           /\ Leaving \in 0..1 /\ fifo.counter - Leaving \in Nat
<1>1. TookNow \in Nat
  <2>1. taken \in Seq([pc: Data, last: BOOLEAN])
    BY DEF TypeOK
  <2> QED
    BY <2>1 DEF TookNow, Closed
<1>2. OfferedNow \in 0..1
  BY DEF OfferedNow
<1>3. fifo.counter \in Nat
  BY DEF TypeOK, Fifos
<1>4. Leaving \in 0..1 /\ (Leaving = 1 => fifo.counter # 0)
  BY DEF Leaving, Left, empty
<1> QED
  BY <1>1, <1>2, <1>3, <1>4

LEMMA ReceivePasses ==
    ASSUME IInv, ~overrun', NEW w \in BOOLEAN, NEW pc \in Pcs \cup {0}, w => pc \in Pcs,
           Receive(w, pc)
    PROVE  Passed(TookNow + OfferedNow)
<1> DEFINE now == TookNow + OfferedNow
<1> DEFINE d == Leaving
<1> USE DEF IInv, TypeOK
<1>1. ~overrun /\ (w => ~full(fifo)) /\ Wf(fifo)
  BY DEF Receive, Flow
<1>2. /\ fifo'.counter = fifo.counter - d + Came(w)
      /\ Wf(fifo') /\ fifo' \in Fifos(Pcs \cup {0})
      /\ \A i \in 1..(fifo.counter - d) : Word(fifo', i) = Word(fifo, i + d)
      /\ w => Word(fifo', fifo'.counter) = pc
  <2>1. fifo' = Clocked(fifo, fifo_rden, w, pc)
    BY DEF Receive
  <2>2. fifo \in Fifos(Pcs \cup {0}) /\ fifo_rden \in BOOLEAN
    OBVIOUS
  <2> HIDE DEF IInv, TypeOK
  <2> QED
    BY <1>1, <2>1, <2>2, ClockedWords DEF Leaving
<1>3. /\ Len(sent) = now + (fifo.counter - d)
      /\ \A i \in 1..(fifo.counter - d) : Word(fifo, i + d) = sent[now + i]
  BY <1>1 DEF Flow
<1>4. now \in Nat /\ fifo.counter - d \in Nat
  BY CountsTyped
<1> HIDE DEF now, d
<1>5. CASE w
  <2>1. sent' = Append(sent, pc) /\ pc \in Pcs
    BY <1>5 DEF Receive
  <2>2. /\ sent' \in Seq(Pcs) /\ Len(sent') = Len(sent) + 1
        /\ \A i \in 1..Len(sent) : sent'[i] = sent[i]
        /\ sent'[Len(sent) + 1] = pc
    BY <2>1
  <2>3. fifo'.counter = (fifo.counter - d) + 1
    BY <1>2, <1>5 DEF Came
  <2>4. ASSUME NEW i \in 1..fifo'.counter PROVE Word(fifo', i) = sent'[now + i]
    <3>1. CASE i = fifo'.counter
      <4>1. now + i = Len(sent) + 1
        BY <1>3, <1>4, <2>3, <3>1
      <4> QED
        BY <1>2, <1>5, <2>2, <3>1, <4>1
    <3>2. CASE i # fifo'.counter
      <4>1. i \in 1..(fifo.counter - d) /\ now + i \in 1..Len(sent)
        BY <1>3, <1>4, <2>3, <3>2
      <4> QED
        BY <1>2, <1>3, <2>2, <4>1
    <3> QED
      BY <3>1, <3>2
  <2>5. Len(sent') = now + fifo'.counter
    BY <1>3, <1>4, <2>2, <2>3
  <2> QED
    BY <1>2, <2>2, <2>4, <2>5 DEF Passed, now
<1>6. CASE ~w
  <2>1. sent' = sent
    BY <1>6 DEF Receive
  <2>2. fifo'.counter = fifo.counter - d
    BY <1>2, <1>4, <1>6 DEF Came
  <2> QED
    BY <1>2, <1>3, <2>1, <2>2 DEF Passed, now
<1> QED
  BY <1>5, <1>6

LEMMA NextFlow == IInv /\ [Next]_vars => Flow'
<1> SUFFICES ASSUME IInv, [Next]_vars, ~overrun' PROVE Flow'
  BY DEF Flow
<1> TypeOK /\ Stage /\ LastTaken /\ Flow
  BY DEF IInv
<1>1. CASE ClockInReset
  <2>1. fifo' \in Fifos(Pcs \cup {0}) /\ Wf(fifo') /\ fifo'.counter = 0
    <3>1. fifo' = Reset(fifo) /\ fifo \in Fifos(Pcs \cup {0})
      BY <1>1 DEF ClockInReset, TypeOK
    <3> QED
      BY <3>1, ResetTyped DEF empty
  <2>2. Leaving' = 0 /\ TookNow' = 0 /\ OfferedNow' = 0 /\ Len(sent') = 0
    BY <1>1, <2>1 DEF ClockInReset, Leaving, Left, TookNow, OfferedNow, Closed, empty
  <2> QED
    BY <2>1, <2>2 DEF Flow
<1>2. ASSUME NEW tready \in BOOLEAN, NEW i_error \in BOOLEAN, Clock(tready, i_error)
      PROVE  Flow'
  <2>1. Passed(TookNow + OfferedNow) /\ ~overrun
    <3>1. CASE Receive(FALSE, 0)
      BY <3>1, ReceivePasses DEF Receive
    <3>2. ASSUME NEW pc \in Pcs, Receive(TRUE, pc) PROVE Passed(TookNow + OfferedNow) /\ ~overrun
      BY <3>2, ReceivePasses DEF Receive
    <3> QED
      BY <1>2, <3>1, <3>2 DEF Clock
  <2>2. /\ \A i \in 1..TookNow : taken[i].pc = Low(sent[i])
        /\ OfferedNow = 1 => tdata = Low(sent[TookNow + 1])
        /\ Len(sent) = TookNow + OfferedNow + (fifo.counter - Leaving)
    BY <2>1 DEF Flow
  <2>3. TookNow \in Nat /\ OfferedNow \in 0..1 /\ fifo.counter - Leaving \in Nat
        /\ fifo.counter \in Nat /\ fifo'.counter \in Nat
    <3>1. fifo'.counter \in Nat
      BY <2>1 DEF Fifos, Passed
    <3> QED
      BY <3>1, CountsTyped
  <2>4. /\ \A i \in 1..TookNow : taken[i].pc = Low(sent'[i])
        /\ OfferedNow = 1 => tdata = Low(sent'[TookNow + 1])
    BY <2>1, <2>2, <2>3 DEF Passed
  <2>5. CASE Offer(i_error)
    <3>1. taken' = taken /\ TookNow' = TookNow /\ OfferedNow = 0 /\ OfferedNow' = 1 /\ ~fifo_rden
      BY <1>2, <2>5 DEF Clock, Offer, Takes, Stage, TookNow, Closed, OfferedNow, TypeOK
    <3>2. ~empty(fifo) /\ Leaving = 0
      BY <2>5, <3>1 DEF Offer, Leaving, Left
    <3>3. fifo.counter >= 1 /\ fifo'.counter >= 1
      <4>1. fifo.counter >= 1
        BY <2>3, <3>2 DEF empty
      <4>2. Len(sent) = TookNow + fifo.counter
        BY <2>2, <2>3, <3>1, <3>2
      <4>3. Len(sent') >= Len(sent)
        <5>1. sent \in Seq(Pcs)
          BY DEF TypeOK
        <5>2. sent' = sent \/ \E pc \in Pcs : sent' = Append(sent, pc)
          BY <1>2 DEF Clock, Receive
        <5> QED
          BY <5>1, <5>2, Appended
      <4>4. Len(sent') = TookNow + fifo'.counter
        BY <2>1, <2>3, <3>1 DEF Passed
      <4> QED
        BY <2>3, <4>1, <4>2, <4>3, <4>4
    <3>4. Leaving' = 1
      BY <2>5, <3>3 DEF Offer, Leaving, Left, empty
    <3>5. tdata' = Low(sent'[TookNow + 1])
      <4>1. tdata' = Low(Word(fifo, 1))
        <5>1. fifo \in Fifos(Pcs \cup {0})
          BY DEF TypeOK
        <5> QED
          BY <2>5, <5>1, OldestShown DEF Offer
      <4>2. Word(fifo, 1) = sent[TookNow + 1]
        BY <2>1, <2>3, <3>1, <3>2, <3>3 DEF Flow
      <4> QED
        BY <2>1, <2>2, <2>3, <3>1, <3>2, <3>3, <4>1, <4>2 DEF Passed
    <3>6. \A i \in 1..(fifo'.counter - 1) : Word(fifo', i + 1) = sent'[TookNow + 1 + i]
      <4>1. ASSUME NEW i \in 1..(fifo'.counter - 1)
            PROVE  Word(fifo', i + 1) = sent'[TookNow + 1 + i]
        <5>1. i + 1 \in 1..fifo'.counter /\ TookNow + OfferedNow + (i + 1) = TookNow + 1 + i
          BY <2>3, <3>1
        <5> QED
          BY <2>1, <5>1 DEF Passed
      <4> QED
        BY <4>1
    <3>7. Len(sent') = TookNow + 1 + (fifo'.counter - 1)
      <4>1. Len(sent') = (TookNow + 0) + fifo'.counter
        BY <2>1, <3>1 DEF Passed
      <4> QED
        BY <2>3, <4>1
    <3> QED
      BY <2>1, <2>4, <3>1, <3>4, <3>5, <3>6, <3>7 DEF Flow, Passed
  <2>6. ASSUME TookNow' + OfferedNow' = TookNow + OfferedNow, ~fifo_rden',
               \A i \in 1..TookNow' : taken'[i].pc = Low(sent'[i]),
               OfferedNow' = 1 => tdata' = Low(sent'[TookNow' + 1])
        PROVE  Flow'
    <3>1. Leaving' = 0 /\ fifo'.counter - 0 = fifo'.counter
      BY <2>3, <2>6 DEF Leaving, Left
    <3>2. \A i \in 1..fifo'.counter : i + 0 = i
      OBVIOUS
    <3> QED
      BY <2>1, <2>6, <3>1, <3>2 DEF Flow, Passed
  <2>7. CASE Close(i_error) \/ Nothing(i_error)
    <3>1. /\ taken' = taken /\ TookNow' = TookNow /\ OfferedNow = 0 /\ OfferedNow' = 0
          /\ ~fifo_rden'
      BY <1>2, <2>7 DEF Clock, Close, Nothing, axis, Takes, Stage, TookNow, Closed, OfferedNow
    <3> QED
      BY <2>4, <2>6, <3>1
  <2>8. CASE Wait(tready) /\ ~(tvalid /\ tready)
    <3>1. taken' = taken /\ TookNow' = TookNow /\ tdata' = tdata /\ ~fifo_rden'
      BY <1>2, <2>8 DEF Clock, Takes, Wait, TookNow, Closed
    <3>2. OfferedNow' = OfferedNow
      BY <2>8 DEF Wait, OfferedNow
    <3> QED
      BY <2>4, <2>6, <3>1, <3>2
  <2>9. CASE Wait(tready) /\ tvalid /\ tready
    <3>1. /\ taken' = Append(taken, [pc |-> tdata, last |-> tlast])
          /\ OfferedNow' = 0 /\ ~fifo_rden'
      BY <1>2, <2>9 DEF Clock, Takes, Wait, OfferedNow
    <3>2. ~Closed
      BY <2>9 DEF Wait, LastTaken, Closed
    <3>3. /\ taken' \in Seq([pc: Data, last: BOOLEAN]) /\ Len(taken') = Len(taken) + 1
          /\ \A i \in 1..Len(taken) : taken'[i] = taken[i]
          /\ taken'[Len(taken) + 1] = [pc |-> tdata, last |-> tlast]
      <4> DEFINE S == [pc: Data, last: BOOLEAN]
      <4> DEFINE b == [pc |-> tdata, last |-> tlast]
      <4>1. taken \in Seq(S) /\ b \in S /\ taken' = Append(taken, b)
        BY <3>1, BeatTyped DEF TypeOK
      <4> HIDE DEF S, b
      <4>2. /\ taken' \in Seq(S) /\ Len(taken') = Len(taken) + 1
            /\ \A i \in 1..Len(taken) : taken'[i] = taken[i]
            /\ taken'[Len(taken) + 1] = b
        BY <4>1, Appended
      <4> QED
        BY <4>2 DEF S, b
    <3>4. Closed' = tlast /\ TookNow = Len(taken)
      BY <3>2, <3>3 DEF Closed, TookNow
    <3>5. CASE tlast
      <4>1. TookNow' = TookNow /\ OfferedNow = 0
        BY <3>3, <3>4, <3>5 DEF TookNow, OfferedNow
      <4> QED
        BY <2>4, <2>6, <3>1, <3>3, <3>4, <4>1
    <3>6. CASE ~tlast
      <4>1. TookNow' = TookNow + 1 /\ OfferedNow = 1
        BY <2>9, <3>3, <3>4, <3>6 DEF TookNow, OfferedNow
      <4>2. \A i \in 1..TookNow' : taken'[i].pc = Low(sent'[i])
        BY <2>3, <2>4, <3>3, <3>4, <4>1
      <4>3. TookNow' + OfferedNow' = TookNow + OfferedNow
        BY <2>3, <3>1, <4>1
      <4>4. ~(OfferedNow' = 1)
        BY <3>1
      <4> QED
        BY <2>6, <3>1, <4>2, <4>3, <4>4
    <3> QED
      BY <3>5, <3>6
  <2> QED
    BY <1>2, <2>5, <2>7, <2>8, <2>9 DEF Clock
<1>3. CASE UNCHANGED vars
  BY <1>3 DEF vars, axis, Flow, TookNow, OfferedNow, Leaving, Closed
<1> QED
  BY <1>1, <1>2, <1>3 DEF Next

-----------------------------------------------------------------------------
(* The theorems.                                                           *)

\* The invariant of every reachable state.
LEMMA Inductive == Spec => []IInv
<1>1. IInv /\ [Next]_vars => IInv'
  BY NextTyped, NextStage, NextFlow DEF IInv
<1> QED
  BY <1>1, InitInv, PTL DEF Spec

(* The types, of every reachable state.                                    *)
THEOREM TypeCorrect == Spec => []TypeOK
<1>1. IInv => TypeOK
  BY DEF IInv
<1> QED
  BY <1>1, Inductive, PTL

\* Two sequences one behind the other.
LEMMA Joined ==
    ASSUME NEW S, NEW s \in Seq(S), NEW t \in Seq(S), NEW F \in Seq(S),
           Len(F) = Len(s) + Len(t),
           \A i \in 1..Len(s) : s[i] = F[i],
           \A i \in 1..Len(t) : t[i] = F[Len(s) + i]
    PROVE  s \o t = F
<1>1. s \o t \in Seq(S) /\ Len(s \o t) = Len(F)
  OBVIOUS
<1>2. ASSUME NEW i \in 1..Len(F) PROVE (s \o t)[i] = F[i]
  <2>1. CASE i \in 1..Len(s)
    BY <2>1
  <2>2. CASE i \notin 1..Len(s)
    <3>1. i - Len(s) \in 1..Len(t) /\ Len(s) + (i - Len(s)) = i
      BY <2>2
    <3> QED
      BY <2>2, <3>1
  <2> QED
    BY <2>1, <2>2
<1> QED
  BY <1>1, <1>2

\* The three parts of the stream by their places.
LEMMA Parts ==
    ASSUME TypeOK
    PROVE  /\ Took = [i \in 1..TookNow |-> taken[i].pc]
           /\ Len(Offered) = OfferedNow /\ Offered \in Seq(Data)
           /\ OfferedNow = 1 => Offered[1] = tdata
           /\ Waiting \in Seq(Pcs \cup {0}) /\ Len(Waiting) = fifo.counter - Leaving
           /\ \A i \in 1..(fifo.counter - Leaving) : Waiting[i] = Word(fifo, i + Leaving)
<1>1. fifo \in Fifos(Pcs \cup {0}) /\ tdata \in Data
  BY DEF TypeOK
<1>2. Took = [i \in 1..TookNow |-> taken[i].pc]
  BY DEF Took, TookNow
<1>3. /\ Len(Offered) = OfferedNow /\ Offered \in Seq(Data)
      /\ OfferedNow = 1 => Offered[1] = tdata
  BY <1>1 DEF Offered, OfferedNow
<1>4. /\ Content(fifo) \in Seq(Pcs \cup {0}) /\ Len(Content(fifo)) = fifo.counter
      /\ \A i \in 1..fifo.counter : Content(fifo)[i] = Word(fifo, i)
  <2>1. /\ fifo.counter \in 0..DATA_DEPTH
        /\ \A i \in 1..fifo.counter : Content(fifo)[i] = Word(fifo, i) /\ Word(fifo, i) \in Pcs \cup {0}
    <3>1. fifo.counter \in 0..DATA_DEPTH /\ \A i \in 1..fifo.counter : Content(fifo)[i] = Word(fifo, i)
      BY <1>1, ContentWords
    <3>2. \A i \in 1..fifo.counter : i \in 1..DATA_DEPTH
      BY <3>1, DepthAssumption
    <3>3. \A i \in 1..DATA_DEPTH : Word(fifo, i) \in Pcs \cup {0}
      BY <1>1, SlotTyped
    <3> QED
      BY <3>1, <3>2, <3>3
  <2>2. Content(fifo) = [i \in 1..fifo.counter |-> Content(fifo)[i]]
    BY DEF Content
  <2>3. Content(fifo) \in [1..fifo.counter -> Pcs \cup {0}]
    BY <2>1, <2>2
  <2> QED
    BY <2>1, <2>3
<1>5. /\ Waiting \in Seq(Pcs \cup {0}) /\ Len(Waiting) = fifo.counter - Leaving
      /\ \A i \in 1..(fifo.counter - Leaving) : Waiting[i] = Word(fifo, i + Leaving)
  <2>1. fifo.counter \in Nat
    BY CountsTyped
  <2>2. CASE fifo_rden /\ ~empty(fifo)
    <3>1. Leaving = 1 /\ Waiting = Tail(Content(fifo)) /\ fifo.counter > 0
      BY <1>4, <2>1, <2>2 DEF Leaving, Left, Waiting, empty
    <3> QED
      BY <1>4, <2>1, <3>1
  <2>3. CASE ~(fifo_rden /\ ~empty(fifo))
    <3>1. Leaving = 0 /\ Waiting = Content(fifo)
      BY <1>4, <2>1, <2>3 DEF Leaving, Left, Waiting, empty
    <3> QED
      BY <1>4, <2>1, <3>1
  <2> QED
    BY <2>2, <2>3
<1> QED
  BY <1>2, <1>3, <1>5

(* As long as no PC of the run has met a full FIFO, what the DMA took, is  *)
(* offered and will find are the lower halves of the PCs of the run, in    *)
(* order, each once.                                                       *)
THEOREM AlwaysInOrder == Spec => []InOrder
<1>1. IInv => InOrder
  <2> SUFFICES ASSUME IInv, ~overrun
               PROVE  Took \o Offered \o [i \in DOMAIN Waiting |-> Low(Waiting[i])]
                          = [i \in DOMAIN sent |-> Low(sent[i])]
    BY DEF InOrder
  <2>1. TypeOK /\ Flow
    BY DEF IInv
  <2> DEFINE rest == [i \in DOMAIN Waiting |-> Low(Waiting[i])]
  <2> DEFINE k == fifo.counter - Leaving
  <2>2. /\ TookNow \in Nat /\ OfferedNow \in 0..1 /\ k \in Nat
        /\ Len(sent) = TookNow + OfferedNow + k /\ sent \in Seq(Pcs)
    BY <2>1, CountsTyped DEF Flow, TypeOK
  <2>3. /\ Took = [i \in 1..TookNow |-> taken[i].pc]
        /\ Len(Offered) = OfferedNow /\ Offered \in Seq(Data)
        /\ OfferedNow = 1 => Offered[1] = tdata
        /\ rest = [i \in 1..k |-> Low(Waiting[i])]
        /\ \A i \in 1..k : Waiting[i] = Word(fifo, i + Leaving)
    BY <2>1, <2>2, Parts
  <2>4. /\ \A i \in 1..TookNow : Took[i] = Low(sent[i])
        /\ OfferedNow = 1 => Offered[1] = Low(sent[TookNow + 1])
        /\ \A i \in 1..k : rest[i] = Low(sent[TookNow + OfferedNow + i])
    BY <2>1, <2>3 DEF Flow
  <2> DEFINE F == [i \in 1..Len(sent) |-> Low(sent[i])]
  <2> DEFINE G == [i \in 1..(TookNow + OfferedNow) |-> F[i]]
  <2>5. \A i \in 1..Len(sent) : Low(sent[i]) \in Data
    BY <2>2 DEF Data
  <2>6. F \in Seq(Data) /\ Len(F) = Len(sent) /\ \A i \in 1..Len(sent) : F[i] = Low(sent[i])
    BY <2>2, <2>5
  <2> HIDE DEF rest, k, F
  <2>7. /\ G \in Seq(Data) /\ Len(G) = TookNow + OfferedNow
        /\ \A i \in 1..(TookNow + OfferedNow) : G[i] = F[i]
    <3>1. \A i \in 1..(TookNow + OfferedNow) : i \in 1..Len(sent) /\ F[i] \in Data
      BY <2>2, <2>5, <2>6
    <3> QED
      BY <2>2, <3>1
  <2> HIDE DEF G
  <2>8. /\ Took \in Seq(Data) /\ Len(Took) = TookNow
        /\ \A i \in 1..Len(Took) : Took[i] = G[i]
    <3>1. \A i \in 1..TookNow : i \in 1..Len(sent) /\ i \in 1..(TookNow + OfferedNow)
      BY <2>2
    <3>2. \A i \in 1..TookNow : Took[i] = G[i] /\ Took[i] \in Data
      BY <2>4, <2>5, <2>6, <2>7, <3>1
    <3>3. Took \in [1..TookNow -> Data]
      BY <2>3, <3>2
    <3> QED
      BY <2>2, <3>2, <3>3
  <2>9. \A i \in 1..Len(Offered) : Offered[i] = G[Len(Took) + i]
    <3>1. ASSUME NEW i \in 1..Len(Offered)
          PROVE  i = 1 /\ OfferedNow = 1 /\ TookNow + 1 \in 1..(TookNow + OfferedNow)
                 /\ TookNow + 1 \in 1..Len(sent)
      BY <2>2, <2>3
    <3> QED
      BY <2>4, <2>6, <2>7, <2>8, <3>1
  <2>10. Took \o Offered = G
    <3>1. Offered \in Seq(Data) /\ Len(G) = Len(Took) + Len(Offered)
      BY <2>3, <2>7, <2>8
    <3> QED
      BY <2>7, <2>8, <2>9, <3>1, Joined
  <2>11. /\ rest \in Seq(Data) /\ Len(rest) = k
         /\ \A i \in 1..Len(rest) : rest[i] = F[Len(G) + i]
    <3>1. \A i \in 1..k : TookNow + OfferedNow + i \in 1..Len(sent)
      BY <2>2
    <3>2. \A i \in 1..k : rest[i] = F[TookNow + OfferedNow + i] /\ rest[i] \in Data
      BY <2>4, <2>5, <2>6, <3>1
    <3>3. rest \in [1..k -> Data]
      BY <2>3, <3>2
    <3> QED
      BY <2>2, <2>7, <3>2, <3>3
  <2>12. G \o rest = F
    <3>1. Len(F) = Len(G) + Len(rest) /\ \A i \in 1..Len(G) : G[i] = F[i]
      BY <2>2, <2>6, <2>7, <2>11
    <3> QED
      BY <2>6, <2>7, <2>11, <3>1, Joined
  <2>13. [i \in DOMAIN sent |-> Low(sent[i])] = F
    BY <2>2 DEF F
  <2> QED
    BY <2>10, <2>12, <2>13 DEF rest
<1> QED
  BY <1>1, Inductive, PTL

(* The AXI-stream rule: what is offered stays until it is taken.           *)
THEOREM OfferAlwaysStands == Spec => OfferStands
<1>1. IInv /\ [Next]_vars =>
        [tvalid /\ run' = run /\ taken' = taken
            => tvalid' /\ tdata' = tdata /\ tlast' = tlast]_vars
  <2> SUFFICES ASSUME IInv, Next, tvalid, run' = run, taken' = taken
               PROVE  tvalid' /\ tdata' = tdata /\ tlast' = tlast
    OBVIOUS
  <2>1. TypeOK /\ Stage
    BY DEF IInv
  <2>2. ~ClockInReset
    <3>1. run \in Nat
      BY <2>1 DEF TypeOK
    <3> QED
      BY <3>1 DEF ClockInReset
  <2>3. PICK tready \in BOOLEAN, i_error \in BOOLEAN : Clock(tready, i_error)
    BY <2>2 DEF Next
  <2>4. axis_stage = 1 /\ Wait(tready)
    BY <2>1, <2>3 DEF Clock, Offer, Close, Nothing, Stage, TypeOK
  <2>5. ~tready
    <3>1. taken \in Seq([pc: Data, last: BOOLEAN])
      BY <2>1 DEF TypeOK
    <3>2. tready => Len(taken') = Len(taken) + 1
      BY <2>1, <2>3, <3>1, BeatTyped, Appended DEF Clock, Takes
    <3> QED
      BY <3>1, <3>2
  <2> QED
    BY <2>4, <2>5 DEF Wait
<1> QED
  BY <1>1, Inductive, PTL DEF Spec, OfferStands

(* No beat comes after the one that is marked as the last, whatever runs   *)
(* and resets follow, and a beat after an error is marked.                 *)
THEOREM LastAlwaysLast == Spec => LastIsLast
<1>1. IInv /\ [Next]_vars =>
        [Len(taken') > Len(taken) =>
            /\ error => taken'[Len(taken')].last
            /\ \A i \in DOMAIN taken : ~taken[i].last]_vars
  <2> SUFFICES ASSUME IInv, Next, Len(taken') > Len(taken)
               PROVE  /\ error => taken'[Len(taken')].last
                      /\ \A i \in DOMAIN taken : ~taken[i].last
    OBVIOUS
  <2>1. TypeOK /\ Stage /\ LastTaken
    BY DEF IInv
  <2>2. ~ClockInReset
    <3>1. Len(taken) \in Nat
      BY <2>1 DEF TypeOK
    <3> QED
      BY <3>1 DEF ClockInReset
  <2>3. PICK tready \in BOOLEAN, i_error \in BOOLEAN : Clock(tready, i_error)
    BY <2>2 DEF Next
  <2>4. tvalid /\ axis_stage = 1 /\ taken' = Append(taken, [pc |-> tdata, last |-> tlast])
    <3>1. Len(taken) \in Nat
      BY <2>1 DEF TypeOK
    <3> QED
      BY <2>1, <2>3, <3>1 DEF Clock, Takes, Stage, TypeOK
  <2>5. \A i \in DOMAIN taken : ~taken[i].last
    BY <2>1, <2>4 DEF LastTaken
  <2>6. error => tlast
    BY <2>1, <2>4 DEF Stage
  <2>7. taken'[Len(taken')] = [pc |-> tdata, last |-> tlast]
    <3> DEFINE S == [pc: Data, last: BOOLEAN]
    <3> DEFINE b == [pc |-> tdata, last |-> tlast]
    <3>1. taken \in Seq(S) /\ b \in S /\ taken' = Append(taken, b)
      BY <2>1, <2>4, BeatTyped DEF TypeOK
    <3> HIDE DEF S, b
    <3>2. taken'[Len(taken')] = b
      BY <3>1, Appended
    <3> QED
      BY <3>2 DEF b
  <2> QED
    BY <2>5, <2>6, <2>7
<1> QED
  BY <1>1, Inductive, PTL DEF Spec, LastIsLast
=============================================================================
