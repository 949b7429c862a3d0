--------------------------- MODULE RiscvCoreProofs ---------------------------
(***************************************************************************)
(* Proofs about RiscvCore for every program, every memory and every depth  *)
(* of the FIFO and the scoreboard.                                         *)
(***************************************************************************)
EXTENDS RiscvCore, SyncFifoProofs, FiniteSetTheorems

\* The types, one part after the other.
FetchOK ==
    /\ program \in Programs
    /\ fetch_stage \in 0..2 /\ next_pc \in Pcs
    /\ fifo_break \in BOOLEAN /\ instr_jalr \in BOOLEAN
    /\ flush_pc \in OrNone(Pcs)
    /\ pending \in Fetched \cup {None}
    /\ burst \in [addr: OrNone(Pcs), left: 0..Half]
DecodeOK ==
    /\ dec \in Fetched \cup {None} /\ valid \in BOOLEAN /\ c_error \in BOOLEAN
    /\ dec_memstrb \in Widths
AluOK ==
    /\ ex \in Fetched \cup {None} /\ alu_valid \in BOOLEAN /\ shift_stage \in {0, 1}
    /\ alu_memstrb \in Widths
    /\ flush \in OrNone(Pcs) /\ c_flush \in OrNone(Pcs)
WriteBackOK ==
    /\ axi_stage \in 0..4 /\ access \in Fetched \cup {None}
    /\ awvalid \in BOOLEAN /\ wvalid \in BOOLEAN
    /\ o_wr \in Regs /\ o_finish \in BOOLEAN /\ wrb_error \in BOOLEAN
BoardOK == finish \in BOOLEAN /\ board \in Boards(Regs)
WatchOK ==
    /\ run \in 0..MaxRuns
    /\ owed \in OrNone(Pcs)
    /\ lost \subseteq {"overrun", "forgot", "torn", "ahead", "restarted"}

\* A word of the program, under its own address.
InPlace(w) == w \in Fetched /\ w.instr = program[w.pc]

\* The words on their way into the FIFO, in it and in the decoder.
PendingInPlace == pending # None => InPlace(pending)
FifoInPlace == \A i \in 1..fifo.counter : InPlace(Word(fifo, i))
DecodedInPlace ==
    /\ valid => InPlace(dec) /\ dec.instr.kind # "bad"
    /\ c_error => dec.pc \in Pcs /\ ~valid

\* A burst that is not to be dropped goes by the address fetch counts on, and
\* a flush request waits for the end of one that is.
Bursts ==
    /\ fetch_stage \in {1, 2} =>
          /\ burst.addr \in Pcs /\ burst.left >= 1
          /\ ~fifo_break => burst.addr = next_pc /\ flush_pc = NoPc
    /\ fetch_stage = 1 => pending = None

\* The ALU does one thing at a time.
Alone ==
    /\ shift_stage = 1 => flush = NoPc /\ c_flush = NoPc
    /\ c_flush # NoPc => flush = NoPc /\ fifo.counter = 0

\* Where a word leads that is no jalr, for all fetch knows.
Follow(w) == Plus(w.pc, IF w.instr.kind = "jal" THEN w.instr.by ELSE 1)
LeadsTo(w, at) == w.instr.kind # "jalr" => at = Follow(w)

\* The address behind everything fetched so far, and behind the i-th word of
\* the FIFO (the word in the decoder for 0).
Onward == IF flush_pc # NoPc THEN flush_pc ELSE next_pc
Behind == IF pending # None THEN pending.pc ELSE Onward
Then(i) == IF i < fifo.counter THEN Word(fifo, i + 1).pc ELSE Behind

Chain ==
    c_flush = NoPc =>
        /\ valid => LeadsTo(dec, Then(0))
        /\ \A i \in 1..fifo.counter : LeadsTo(Word(fifo, i), Then(i))
        /\ pending # None => LeadsTo(pending, Onward)

\* What has been executed and not been shown is in the ALU.
Owing ==
    /\ wrb_error => axi_stage # 0
    /\ shift_stage = 1 \/ flush # NoPc => ~alu_valid
    /\ "torn" \notin lost =>
          /\ alu_valid \/ shift_stage = 1 => owed = ex.pc
          /\ owed # NoPc => alu_valid \/ shift_stage = 1

\* The width goes with its load or store from the decoder to the ALU, and stays
\* there until the next load or store comes.
InAlu == alu_valid /\ InMemory(ex.instr)
InDecoder == valid /\ InMemory(dec.instr)
WidthsGoAlong ==
    /\ InDecoder => dec_memstrb = dec.instr.width
    /\ InAlu => /\ alu_memstrb = ex.instr.width
                /\ InDecoder \/ dec_memstrb = alu_memstrb
    /\ ~Over /\ axi_stage # 0 => InAlu \/ alu_memstrb = access.instr.width
    /\ shift_stage = 1 \/ flush # NoPc \/ c_flush # NoPc => ~InMemory(ex.instr)

IInv ==
    /\ TypeOK
    /\ PendingInPlace /\ FifoInPlace /\ DecodedInPlace
    /\ ~Over => Wf(fifo) /\ Bursts /\ Chain
    /\ Alone /\ Owing /\ WidthsGoAlong

-----------------------------------------------------------------------------
LEMMA TypeParts ==
    TypeOK <=> /\ FetchOK /\ fifo \in Fifos(Fetched \cup {None})
               /\ DecodeOK /\ BoardOK /\ AluOK /\ WriteBackOK /\ WatchOK
BY DEF TypeOK, FetchOK, DecodeOK, BoardOK, AluOK, WriteBackOK, WatchOK

\* Constants.
LEMMA HalfTyped == Half \in Nat /\ Half >= 1 /\ Half <= DATA_DEPTH
BY DepthAssumption DEF Half

LEMMA PlusTyped ==
    ASSUME NEW at \in Pcs, NEW n \in Nat
    PROVE  Plus(at, n) \in Pcs
BY ProgramAssumption DEF Plus, Pcs

LEMMA PcsTyped == NoPc \notin Pcs /\ Pcs \subseteq Nat /\ 0 \in Pcs /\ None \notin Fetched
BY ProgramAssumption DEF Pcs, NoPc, Fetched, None

LEMMA NopTyped == Nop \in Instruction
<1>1. 0 \in Pcs
  BY PcsTyped
<1> QED
  BY <1>1 DEF Nop, Instruction, Kinds, Regs, Widths

LEMMA InstructionParts ==
    ASSUME NEW i \in Instruction
    PROVE  /\ i.kind \in Kinds /\ i.by \in Pcs /\ i.by \in Nat /\ i.rd \in Regs
           /\ i.rs1 \in Regs /\ i.rs2 \in Regs /\ i.width \in Widths
BY PcsTyped DEF Instruction

LEMMA ProgramTyped ==
    ASSUME NEW p \in Programs, NEW at \in Pcs
    PROVE  p[at] \in Instruction
BY ProgramAssumption

LEMMA FetchedParts ==
    ASSUME NEW w \in Fetched
    PROVE  w.pc \in Pcs /\ w.instr \in Instruction
BY DEF Fetched

LEMMA FetchedOrNone ==
    ASSUME NEW w \in Fetched \cup {None}
    PROVE  w.instr \in Instruction /\ w.pc \in OrNone(Pcs) /\ (w # None => w \in Fetched)
<1>1. CASE w \in Fetched
  BY <1>1, FetchedParts DEF OrNone
<1>2. CASE w = None
  BY <1>2, NopTyped DEF None, OrNone
<1> QED
  BY <1>1, <1>2

LEMMA FollowTyped ==
    ASSUME NEW w \in Fetched
    PROVE  Follow(w) \in Pcs
<1>1. w.pc \in Pcs /\ w.instr.by \in Nat
  BY FetchedParts, InstructionParts
<1> QED
  BY <1>1, PlusTyped DEF Follow

-----------------------------------------------------------------------------
(* fetch.v                                                                 *)

LEMMA FetchStep ==
    ASSUME FetchOK, c_flush \in OrNone(Pcs), Bursts, PendingInPlace,
           c_flush # NoPc => fifo.counter = 0,
           NEW ready \in BOOLEAN, Fetch(c_flush, ready)
    PROVE  /\ FetchOK' /\ Bursts' /\ program' = program
           /\ pending' # None => InPlace(pending')
<1> DEFINE B == [addr: OrNone(Pcs), left: 0..Half]
<1>1. program' = program
  BY DEF Fetch
<1>2. /\ fetch_stage \in 0..2 /\ next_pc \in Pcs /\ flush_pc \in OrNone(Pcs)
      /\ pending \in Fetched \cup {None} /\ program \in Programs
  BY DEF FetchOK
<1>2a. fifo_break \in BOOLEAN /\ instr_jalr \in BOOLEAN
  BY DEF FetchOK
<1>2b. burst \in B /\ burst.left \in 0..Half
  BY DEF FetchOK
<1>3. NoPc \notin Pcs /\ \A a \in OrNone(Pcs) : a # NoPc => a \in Pcs
  BY PcsTyped DEF OrNone
<1>4. \A a \in OrNone(Pcs), n \in 0..Half : [addr |-> a, left |-> n] \in B
  OBVIOUS
<1> HIDE DEF B
<1>5. From(c_flush) \in Pcs /\ Half \in Nat /\ Half >= 1
  BY <1>2, <1>3, HalfTyped DEF From
<1>6. CASE Request(c_flush)
  <2>1. /\ fetch_stage' = 1 /\ instr_jalr' = FALSE /\ flush_pc' = NoPc /\ pending' = None
        /\ next_pc' = From(c_flush) /\ fifo_break' = fifo_break
        /\ burst' = [addr |-> From(c_flush), left |-> Half]
    BY <1>6 DEF Request
  <2>2. burst' \in B /\ burst'.addr = From(c_flush) /\ burst'.left = Half
    BY <2>1, <1>4, <1>5 DEF OrNone
  <2>3. FetchOK'
    <3>1. 1 \in 0..2 /\ NoPc \in OrNone(Pcs) /\ FALSE \in BOOLEAN
      BY DEF OrNone
    <3> QED
      BY <1>1, <1>2, <1>2a, <1>5, <2>1, <2>2, <3>1 DEF FetchOK, B
  <2>4. Bursts'
    BY <1>5, <2>1, <2>2 DEF Bursts
  <2> QED
    BY <1>1, <2>1, <2>3, <2>4
<1>7. CASE Idle(c_flush)
  <2>1. /\ fetch_stage' = fetch_stage /\ fetch_stage = 0 /\ instr_jalr' = instr_jalr
        /\ flush_pc' = flush_pc /\ pending' = None
        /\ next_pc' = next_pc /\ fifo_break' = fifo_break /\ burst' = burst
    BY <1>7 DEF Idle
  <2> QED
    BY <1>1, <1>2, <1>2a, <1>2b, <2>1 DEF FetchOK, Bursts, B
<1>8. CASE Address(c_flush, ready)
  <2>1. /\ fetch_stage' \in {1, 2} /\ fetch_stage = 1 /\ instr_jalr' = instr_jalr
        /\ pending' = pending /\ next_pc' = next_pc /\ burst' = burst
        /\ flush_pc' = IF c_flush # NoPc THEN c_flush ELSE flush_pc
    BY <1>8 DEF Address, Flushed
  <2>2. fifo_break' = (fifo_break \/ c_flush # NoPc) /\ fifo_break' \in BOOLEAN
    BY <1>8 DEF Address
  <2>3. FetchOK'
    BY <1>1, <1>2, <1>2a, <1>2b, <2>1, <2>2 DEF FetchOK, B
  <2>4. Bursts'
    BY <2>1, <2>2 DEF Bursts
  <2> QED
    BY <1>1, <2>1, <2>3, <2>4 DEF Bursts
<1>9. CASE Stall(c_flush)
  <2>1. /\ fetch_stage' = 2 /\ fetch_stage = 2 /\ instr_jalr' = instr_jalr
        /\ pending' = None /\ next_pc' = next_pc /\ burst' = burst
        /\ flush_pc' = IF c_flush # NoPc THEN c_flush ELSE flush_pc
    BY <1>9 DEF Stall, Flushed
  <2>2. fifo_break' = (fifo_break \/ c_flush # NoPc) /\ fifo_break' \in BOOLEAN
    BY <1>9 DEF Stall
  <2>3. FetchOK'
    BY <1>1, <1>2, <1>2a, <1>2b, <2>1, <2>2 DEF FetchOK, B
  <2>4. Bursts'
    BY <2>1, <2>2 DEF Bursts
  <2> QED
    BY <1>1, <2>1, <2>3, <2>4
<1>10. CASE Beat(c_flush)
  <2> DEFINE instr == program[burst.addr]
  <2> DEFINE kept == ~fifo_break /\ c_flush = NoPc
  <2> DEFINE last == burst.left = 1
  <2> DEFINE jumps == kept /\ instr.kind \in {"jal", "jalr"}
  <2>1. /\ fetch_stage = 2
        /\ fetch_stage' = IF last THEN 0 ELSE 2
        /\ burst' = IF last THEN NoBurst
                    ELSE [addr |-> Plus(burst.addr, 1), left |-> burst.left - 1]
        /\ flush_pc' = IF c_flush # NoPc THEN c_flush ELSE flush_pc
    BY <1>10 DEF Beat, Flushed
  <2>2. /\ fifo_break' = (jumps \/ (~last /\ (fifo_break \/ c_flush # NoPc)))
        /\ fifo_break' \in BOOLEAN
        /\ instr_jalr' = (instr_jalr \/ (kept /\ instr.kind = "jalr"))
        /\ instr_jalr' \in BOOLEAN
    BY <1>10 DEF Beat
  <2>3. /\ pending' = IF kept THEN [pc |-> next_pc, instr |-> instr] ELSE None
        /\ next_pc' = IF ~kept \/ instr.kind = "jalr" THEN next_pc
                      ELSE Plus(next_pc, IF instr.kind = "jal" THEN instr.by ELSE 1)
    BY <1>10 DEF Beat
  <2>4. /\ burst.addr \in Pcs /\ burst.left >= 1
        /\ ~fifo_break => burst.addr = next_pc /\ flush_pc = NoPc
    BY <2>1 DEF Bursts
  <2>5. instr \in Instruction /\ instr.by \in Nat
    BY <1>2, <2>4, ProgramTyped, InstructionParts
  <2>6. kept => pending' \in Fetched /\ InPlace(pending')
    BY <1>2, <2>3, <2>4, <2>5 DEF Fetched, InPlace
  <2>7. next_pc' \in Pcs
    BY <1>2, <2>3, <2>5, PlusTyped
  <2>8. burst' \in B
    <3>1. CASE last
      BY <2>1, <3>1, <1>4, <1>5 DEF NoBurst, OrNone
    <3>2. CASE ~last
      <4>1. burst.left - 1 \in 0..Half
        BY <1>2b, <1>5, <2>4, <3>2
      <4> QED
        BY <2>1, <2>4, <3>2, <4>1, <1>4, PlusTyped DEF OrNone
    <3> QED
      BY <3>1, <3>2
  <2>9. FetchOK'
    <3>1. fetch_stage' \in 0..2 /\ flush_pc' \in OrNone(Pcs) /\ pending' \in Fetched \cup {None}
      BY <1>2, <2>1, <2>3, <2>6
    <3> QED
      BY <1>1, <1>2, <2>2, <2>7, <2>8, <3>1 DEF FetchOK, B
  <2>10. Bursts'
    <3>1. CASE last
      BY <2>1, <3>1 DEF Bursts
    <3>2. CASE ~last
      <4>1. burst'.addr = Plus(burst.addr, 1) /\ burst'.left = burst.left - 1 /\ fetch_stage' = 2
        BY <2>1, <3>2
      <4>2. burst'.addr \in Pcs /\ burst'.left >= 1
        BY <1>2b, <1>5, <2>4, <3>2, <4>1, PlusTyped
      <4>3. ~fifo_break' => kept /\ instr.kind \notin {"jal", "jalr"}
        BY <2>2, <3>2
      <4>4. ~fifo_break' => burst'.addr = next_pc' /\ flush_pc' = NoPc
        BY <2>1, <2>3, <2>4, <4>1, <4>3
      <4> QED
        BY <4>1, <4>2, <4>4 DEF Bursts
    <3> QED
      BY <3>1, <3>2
  <2> QED
    BY <1>1, <2>3, <2>6, <2>9, <2>10
<1> QED
  BY <1>6, <1>7, <1>8, <1>9, <1>10 DEF Fetch

\* As long as no flush is under way, what comes next is the word that comes, or
\* where the words so far lead to.
LEMMA FetchGoesOn ==
    ASSUME FetchOK, Bursts, c_flush = NoPc, NEW ready \in BOOLEAN, Fetch(c_flush, ready)
    PROVE  /\ (IF pending' # None THEN pending'.pc ELSE Onward') = Onward
           /\ pending' # None => LeadsTo(pending', Onward')
<1>1. CASE Request(c_flush)
  BY <1>1 DEF Request, From, Onward
<1>2. CASE Idle(c_flush)
  BY <1>2 DEF Idle, Onward
<1>3. CASE Address(c_flush, ready)
  BY <1>3 DEF Address, Flushed, Onward, Bursts
<1>4. CASE Stall(c_flush)
  BY <1>4 DEF Stall, Flushed, Onward
<1>5. CASE Beat(c_flush)
  <2>1. /\ fetch_stage = 2 /\ flush_pc' = flush_pc
        /\ pending' = IF ~fifo_break THEN [pc |-> next_pc, instr |-> program[burst.addr]]
                      ELSE None
        /\ next_pc' = IF fifo_break \/ program[burst.addr].kind = "jalr" THEN next_pc
                      ELSE Plus(next_pc, IF program[burst.addr].kind = "jal"
                                         THEN program[burst.addr].by ELSE 1)
    BY <1>5 DEF Beat, Flushed
  <2>2. CASE fifo_break
    BY <2>1, <2>2 DEF Onward
  <2>3. CASE ~fifo_break
    <3>1. flush_pc = NoPc
      BY <2>1, <2>3 DEF Bursts
    <3>2. pending' = [pc |-> next_pc, instr |-> program[burst.addr]]
      BY <2>1, <2>3
    <3>3. pending'.pc = next_pc /\ pending'.instr = program[burst.addr]
      BY <3>2
    <3>4. Onward = next_pc /\ Onward' = next_pc'
      BY <2>1, <3>1 DEF Onward
    <3>5. next_pc \in Pcs /\ pending' # None
      BY <3>3, PcsTyped DEF FetchOK, None
    <3> QED
      BY <2>1, <2>3, <3>3, <3>4, <3>5 DEF LeadsTo, Follow
  <2> QED
    BY <2>1, <2>2, <2>3 DEF FetchOK
<1> QED
  BY <1>1, <1>2, <1>3, <1>4, <1>5 DEF Fetch

-----------------------------------------------------------------------------
(* The FIFO between fetch and the decoder.                                 *)

LEMMA FifoStep ==
    ASSUME fifo \in Fifos(Fetched \cup {None}), Wf(fifo), FifoInPlace, PendingInPlace,
           pending \in Fetched \cup {None},
           NEW up \in BOOLEAN, NEW rd \in BOOLEAN, FetchFifo(c_flush, up, rd)
    PROVE  /\ fifo' \in Fifos(Fetched \cup {None})
           /\ c_flush # NoPc \/ up => Wf(fifo') /\ fifo'.counter = 0
           /\ c_flush = NoPc /\ ~up /\ ~Overruns =>
                /\ Wf(fifo')
                /\ fifo'.counter = fifo.counter - Left(fifo, rd) + Came(pending # None)
                /\ \A i \in 1..(fifo.counter - Left(fifo, rd)) :
                     Word(fifo', i) = Word(fifo, i + Left(fifo, rd))
                /\ pending # None => Word(fifo', fifo'.counter) = pending
           /\ \A i \in 1..fifo'.counter : InPlace(Word(fifo', i))
<1> DEFINE V == Fetched \cup {None}
<1> DEFINE wr == pending # None
<1> DEFINE g == Clocked(fifo, rd, wr, pending)
<1>1. fifo \in Fifos(V) /\ pending \in V /\ wr \in BOOLEAN
  OBVIOUS
<1>2. g \in Fifos(V)
  BY <1>1, ClockedTyped
<1>3. fifo.counter \in 0..DATA_DEPTH
  BY <1>1, ContentWords
<1>4. ASSUME NEW f \in Fifos(V), fifo' = Reset(f)
      PROVE  fifo' \in Fifos(V) /\ Wf(fifo') /\ fifo'.counter = 0
  BY <1>4, ResetTyped DEF empty
<1>5. CASE c_flush # NoPc \/ up
  <2>1. \E f \in Fifos(V) : fifo' = Reset(f)
    <3> HIDE DEF V, g
    <3>1. fifo' = Reset(IF c_flush # NoPc THEN fifo ELSE g)
      BY <1>5 DEF FetchFifo, g
    <3> QED
      BY <1>1, <1>2, <3>1
  <2>2. fifo' \in Fifos(V) /\ Wf(fifo') /\ fifo'.counter = 0
    <3> HIDE DEF V
    <3> QED
      BY <1>4, <2>1
  <2> QED
    BY <1>5, <2>2
<1>6. CASE c_flush = NoPc /\ ~up
  <2>1. fifo' = g
    BY <1>6 DEF FetchFifo
  <2>2. CASE ~Overruns
    <3>1. wr => ~full(fifo)
      BY <1>6, <2>2 DEF Overruns
    <3>2. /\ Wf(fifo')
          /\ fifo'.counter = fifo.counter - Left(fifo, rd) + Came(wr)
          /\ \A i \in 1..(fifo.counter - Left(fifo, rd)) :
               Word(fifo', i) = Word(fifo, i + Left(fifo, rd))
          /\ wr => Word(fifo', fifo'.counter) = pending
      <4> HIDE DEF V, wr
      <4> QED
        BY <1>1, <2>1, <3>1, ClockedWords DEF g
    <3>3. ASSUME NEW i \in 1..fifo'.counter
          PROVE  InPlace(Word(fifo', i))
      <4>1. /\ Left(fifo, rd) \in 0..1 /\ Left(fifo, rd) <= fifo.counter
            /\ Came(wr) = IF wr THEN 1 ELSE 0
        BY <1>3 DEF Left, Came, empty
      <4>2. CASE i <= fifo.counter - Left(fifo, rd)
        <5>1. i \in 1..(fifo.counter - Left(fifo, rd)) /\ i + Left(fifo, rd) \in 1..fifo.counter
          BY <1>3, <3>2, <4>1, <4>2
        <5> QED
          BY <3>2, <5>1 DEF FifoInPlace
      <4>3. CASE i > fifo.counter - Left(fifo, rd)
        <5>1. wr /\ i = fifo'.counter
          BY <1>3, <3>2, <4>1, <4>3
        <5> QED
          BY <3>2, <5>1 DEF PendingInPlace
      <4> QED
        BY <1>3, <3>2, <4>1, <4>2, <4>3
    <3> QED
      BY <1>2, <1>6, <2>1, <3>2, <3>3
  <2>3. CASE Overruns
    <3>1. wr /\ full(fifo) /\ fifo.counter = DATA_DEPTH
      BY <2>3 DEF Overruns, full
    <3>2. fifo'.data = fifo.data /\ fifo'.counter = DATA_DEPTH
      <4> HIDE DEF V
      <4> QED
        BY <1>1, <2>1, <3>1, ClockedFull
    <3>3. ASSUME NEW i \in 1..fifo'.counter
          PROVE  InPlace(Word(fifo', i))
      <4>1. Slot(fifo', i) \in Slots
        <5> HIDE DEF V
        <5> QED
          BY <1>2, <2>1, <3>2, SlotTyped
      <4>2. PICK j \in 1..DATA_DEPTH : Slot(fifo, j) = Slot(fifo', i)
        <5> HIDE DEF V
        <5> QED
          BY <1>1, <4>1, FullSlots
      <4>3. Word(fifo', i) = Word(fifo, j)
        BY <3>2, <4>2 DEF Word
      <4> QED
        BY <3>1, <4>3 DEF FifoInPlace
    <3> QED
      BY <1>2, <1>6, <2>1, <2>3, <3>3
  <2> QED
    BY <2>2, <2>3
<1> QED
  BY <1>5, <1>6

\* What the FIFO shows the decoder.
LEMMA ShownInPlace ==
    ASSUME fifo \in Fifos(Fetched \cup {None}), FifoInPlace, ~empty(fifo)
    PROVE  /\ InPlace(rd_data(fifo)) /\ rd_data(fifo) \in Fetched
           /\ rd_data(fifo) = Word(fifo, 1) /\ fifo.counter >= 1
<1>1. rd_data(fifo) = Word(fifo, 1)
  BY OldestShown
<1>2. fifo.counter \in 0..DATA_DEPTH
  BY ContentWords
<1>3. fifo.counter >= 1 /\ 1 \in 1..fifo.counter
  BY <1>2, DepthAssumption DEF empty
<1> QED
  BY <1>1, <1>3 DEF FifoInPlace, InPlace

-----------------------------------------------------------------------------
(* decode.v and alu.v                                                      *)

LEMMA DecodeStep ==
    ASSUME DecodeOK, DecodedInPlace, NEW i_valid \in BOOLEAN, NEW word, NEW o_next \in BOOLEAN,
           i_valid => InPlace(word),
           Squash \/ Decode(i_valid, word, o_next) \/ Wait(i_valid, o_next)
    PROVE  /\ DecodeOK'
           /\ valid' => InPlace(dec') /\ dec'.instr.kind # "bad"
           /\ c_error' => dec'.pc \in Pcs /\ ~valid'
<1>1. CASE Squash
  <2>1. /\ dec' = dec /\ dec_memstrb' = dec_memstrb /\ valid' = FALSE
        /\ c_error' = (c_flush = NoPc) /\ (c_error' => c_error)
    BY <1>1 DEF Squash
  <2> QED
    BY <2>1 DEF DecodeOK, DecodedInPlace
<1>2. CASE Wait(i_valid, o_next)
  <2>1. /\ dec' = dec /\ dec_memstrb' = dec_memstrb /\ c_error' = c_error
        /\ valid' = (valid /\ ~dec_next(o_next)) /\ valid' \in BOOLEAN /\ ~c_error
    BY <1>2 DEF Wait
  <2> QED
    BY <2>1 DEF DecodeOK, DecodedInPlace
<1>3. CASE Decode(i_valid, word, o_next) /\ word.instr.kind = "bad"
  <2>1. /\ c_error' = TRUE /\ valid' = FALSE /\ dec' = [dec EXCEPT !.pc = word.pc]
        /\ dec_memstrb' = dec_memstrb /\ InPlace(word)
    BY <1>3 DEF Decode
  <2>2. word.pc \in Pcs
    BY <2>1, FetchedParts DEF InPlace
  <2>3. dec' \in Fetched /\ dec'.pc = word.pc
    <3>1. CASE dec \in Fetched
      BY <2>1, <2>2, <3>1 DEF Fetched
    <3>2. CASE dec = None
      BY <2>1, <2>2, <3>2, NopTyped DEF Fetched, None
    <3> QED
      BY <3>1, <3>2 DEF DecodeOK
  <2> QED
    BY <2>1, <2>2, <2>3 DEF DecodeOK
<1>4. CASE Decode(i_valid, word, o_next) /\ word.instr.kind # "bad"
  <2>1. /\ dec' = word /\ valid' = TRUE /\ c_error' = c_error /\ ~c_error /\ InPlace(word)
        /\ dec_memstrb' = IF InMemory(word.instr) THEN word.instr.width ELSE dec_memstrb
    BY <1>4 DEF Decode
  <2>2. dec' \in Fetched
    BY <2>1 DEF InPlace
  <2>3. dec_memstrb' \in Widths
    BY <2>1, <2>2, FetchedParts, InstructionParts DEF DecodeOK
  <2> QED
    BY <1>4, <2>1, <2>2, <2>3 DEF DecodeOK
<1> QED
  BY <1>1, <1>2, <1>3, <1>4

\* An instruction that is accepted comes with its target.
LEMMA ComparedTyped ==
    ASSUME dec \in Fetched, Compared
    PROVE  /\ flush' \in OrNone(Pcs) /\ c_flush' \in OrNone(Pcs)
           /\ flush' # NoPc => dec.instr.kind = "branch" /\ flush' = Plus(dec.pc, dec.instr.by)
           /\ c_flush' # NoPc => dec.instr.kind = "jalr" /\ c_flush' \in Pcs
           /\ dec.instr.kind = "jalr" => c_flush' # NoPc
           /\ flush' = NoPc \/ c_flush' = NoPc
<1>1. dec.pc \in Pcs /\ dec.instr.by \in Nat
  BY FetchedParts, InstructionParts
<1>2. Plus(dec.pc, dec.instr.by) \in Pcs
  BY <1>1, PlusTyped
<1> QED
  BY <1>2, PcsTyped DEF Compared, OrNone

LEMMA AluStep ==
    ASSUME DecodeOK, AluOK, DecodedInPlace, Alone, NEW o_next \in BOOLEAN, Alu(o_next)
    PROVE  /\ AluOK'
           /\ shift_stage' = 1 => flush' = NoPc /\ c_flush' = NoPc
           /\ c_flush' # NoPc => flush' = NoPc
<1>1. CASE Accept(o_next)
  <2>1. /\ Accepts(o_next) /\ Compared /\ ex' = dec /\ alu_memstrb' = dec_memstrb
        /\ shift_stage' = IF dec.instr.kind = "shift" THEN 1 ELSE 0
    BY <1>1 DEF Accept
  <2>2. alu_valid' \in BOOLEAN
    BY <1>1 DEF Accept
  <2>3. dec \in Fetched
    BY <2>1 DEF Accepts, dec_valid, DecodedInPlace, InPlace
  <2>4. /\ flush' \in OrNone(Pcs) /\ c_flush' \in OrNone(Pcs)
        /\ flush' # NoPc => dec.instr.kind = "branch"
        /\ c_flush' # NoPc => dec.instr.kind = "jalr"
        /\ flush' = NoPc \/ c_flush' = NoPc
    BY <2>1, <2>3, ComparedTyped
  <2> QED
    BY <2>1, <2>2, <2>3, <2>4 DEF AluOK, DecodeOK
<1>2. CASE Shift(o_next)
  BY <1>2 DEF Shift, AluOK, Alone
<1>3. CASE RaiseFlush(o_next)
  BY <1>3 DEF RaiseFlush, AluOK, Alone, OrNone
<1>4. CASE EndFlush(o_next)
  BY <1>4 DEF EndFlush, AluOK, Alone, OrNone
<1>5. CASE Hold(o_next)
  <2>1. alu_valid' \in BOOLEAN
    BY <1>5 DEF Hold
  <2> QED
    BY <1>5, <2>1 DEF Hold, AluOK, Alone
<1> QED
  BY <1>1, <1>2, <1>3, <1>4, <1>5 DEF Alu

\* The scoreboard.
LEMMA BoardTyped ==
    ASSUME NEW b \in Boards(Regs), NEW rd_en \in BOOLEAN, NEW wr_en \in BOOLEAN, NEW rd \in Regs
    PROVE  BoardReset(b) \in Boards(Regs) /\ Posted(b, rd_en, wr_en, rd) \in Boards(Regs)
<1>1. /\ b.wr_ptr \in Places /\ b.rd_ptr \in Places /\ b.data \in [Places -> Regs]
      /\ b.valid \in [Places -> BOOLEAN] /\ b.counter \in 0..BOARD_DEPTH
  BY DEF Boards
<1>2. 0 \in Places /\ 0 \in 0..BOARD_DEPTH /\ [s \in Places |-> FALSE] \in [Places -> BOOLEAN]
  BY BoardAssumption DEF Places
<1>3. BoardReset(b) \in Boards(Regs)
  BY <1>1, <1>2 DEF BoardReset, EmptyBoard, Boards
<1> DEFINE p == Posted(b, rd_en, wr_en, rd)
<1> DEFINE reads == rd_en /\ b.counter # 0
<1> DEFINE writes == wr_en /\ b.counter # BOARD_DEPTH
<1>4. /\ p = [data |-> p.data, valid |-> p.valid, wr_ptr |-> p.wr_ptr, rd_ptr |-> p.rd_ptr,
              counter |-> p.counter]
      /\ p.data = IF writes THEN [b.data EXCEPT ![b.wr_ptr] = rd] ELSE b.data
      /\ p.valid = [s \in Places |->
                      b.valid[s] # ((reads /\ s = b.rd_ptr) # (writes /\ s = b.wr_ptr))]
      /\ p.wr_ptr = IF writes THEN After(b.wr_ptr) ELSE b.wr_ptr
      /\ p.rd_ptr = IF reads THEN After(b.rd_ptr) ELSE b.rd_ptr
      /\ p.counter = IF rd_en /\ wr_en THEN b.counter
                     ELSE b.counter + (IF writes THEN 1 ELSE 0) - (IF reads THEN 1 ELSE 0)
  BY DEF Posted
<1>5. \A ptr \in Places : After(ptr) \in Places
  BY BoardAssumption DEF After, Places
<1> HIDE DEF p
<1>6. p.data \in [Places -> Regs]
  BY <1>1, <1>4
<1>7. p.valid \in [Places -> BOOLEAN]
  BY <1>4
<1>8. p.wr_ptr \in Places /\ p.rd_ptr \in Places
  BY <1>1, <1>4, <1>5
<1>9. p.counter \in 0..BOARD_DEPTH
  BY <1>1, <1>4, BoardAssumption
<1>10. p \in Boards(Regs)
  BY <1>4, <1>6, <1>7, <1>8, <1>9 DEF Boards
<1> QED
  BY <1>3, <1>10 DEF p

LEMMA PostStep ==
    ASSUME BoardOK, DecodeOK, NEW o_next \in BOOLEAN, NEW i_finish \in BOOLEAN,
           Post(o_next, i_finish)
    PROVE  BoardOK'
<1>1. dec.instr.rd \in Regs
  BY FetchedOrNone, InstructionParts DEF DecodeOK
<1>2. finish \in BOOLEAN /\ board \in Boards(Regs) /\ Accepts(o_next) \in BOOLEAN
  BY DEF BoardOK, Accepts
<1> DEFINE b == Posted(board, finish, Accepts(o_next), dec.instr.rd)
<1>3. b \in Boards(Regs)
  BY <1>1, <1>2, BoardTyped
<1>4. BoardReset(board) \in Boards(Regs) /\ BoardReset(b) \in Boards(Regs)
  BY <1>1, <1>2, <1>3, BoardTyped
<1>5. board' \in {BoardReset(board), BoardReset(b), b} /\ finish' = i_finish
  BY DEF Post
<1> QED
  BY <1>3, <1>4, <1>5 DEF BoardOK

-----------------------------------------------------------------------------
(* wrb.v and the histories                                                 *)

LEMMA WriteBackStep ==
    ASSUME WriteBackOK, AluOK, NEW served \in BOOLEAN, WriteBack(alu_valid, ex, served)
    PROVE  WriteBackOK'
<1>1. /\ access.instr.rd \in Regs /\ ex.instr.rd \in Regs /\ ex \in Fetched \cup {None}
      /\ access \in Fetched \cup {None}
  BY FetchedOrNone, InstructionParts DEF WriteBackOK, AluOK
<1>2. 0 \in Regs /\ alu_valid \in BOOLEAN
  BY DEF Regs, AluOK
<1>3. CASE UNCHANGED wrbVars
  BY <1>3 DEF wrbVars, WriteBackOK
<1>4. CASE Take(alu_valid, ex)
  <2>1. o_finish' \in BOOLEAN /\ o_wr' \in Regs /\ wrb_error' = wrb_error
    BY <1>1, <1>2, <1>4 DEF Take
  <2>2. axi_stage' \in 0..4 /\ access' \in Fetched \cup {None}
    BY <1>1, <1>4 DEF Take, WriteBackOK
  <2>3. awvalid' \in BOOLEAN /\ wvalid' \in BOOLEAN
    <3>1. CASE alu_valid /\ InMemory(ex.instr)
      BY <1>4, <3>1 DEF Take
    <3>2. CASE ~(alu_valid /\ InMemory(ex.instr))
      BY <1>4, <3>2 DEF Take, WriteBackOK
    <3> QED
      BY <3>1, <3>2
  <2> QED
    BY <2>1, <2>2, <2>3 DEF WriteBackOK
<1>5. CASE LoadAddress(served)
  BY <1>5 DEF LoadAddress, WriteBackOK
<1>6. ASSUME NEW resp \in Faults, LoadData(resp) \/ StoreResponse(resp)
      PROVE  WriteBackOK'
  <2>1. CASE Fail
    BY <2>1 DEF Fail, WriteBackOK
  <2>2. ASSUME NEW wr \in Regs, Done(wr) PROVE WriteBackOK'
    BY <2>2 DEF Done, WriteBackOK
  <2>3. Fail \/ Done(access.instr.rd) \/ Done(o_wr)
    BY <1>6 DEF LoadData, StoreResponse
  <2>4. o_wr \in Regs
    BY DEF WriteBackOK
  <2> QED
    BY <1>1, <2>1, <2>2, <2>3, <2>4
<1>7. ASSUME NEW awready \in BOOLEAN, NEW wready \in BOOLEAN, StoreRequest(awready, wready)
      PROVE  WriteBackOK'
  <2>1. awvalid' \in BOOLEAN /\ wvalid' \in BOOLEAN
    BY <1>7 DEF StoreRequest
  <2> QED
    BY <1>7, <2>1 DEF StoreRequest, WriteBackOK
<1> QED
  BY <1>3, <1>4, <1>5, <1>6, <1>7 DEF WriteBack

LEMMA WatchStep ==
    ASSUME WatchOK, DecodeOK, Watch, run' = run
    PROVE  WatchOK'
<1>1. dec.pc \in OrNone(Pcs) /\ NoPc \in OrNone(Pcs)
  BY FetchedOrNone DEF DecodeOK, OrNone
<1>2. owed' \in OrNone(Pcs)
  BY <1>1 DEF Watch, WatchOK
<1>3. lost' \subseteq {"overrun", "forgot", "torn", "ahead", "restarted"}
  BY DEF Watch, WatchOK
<1> QED
  BY <1>2, <1>3 DEF WatchOK

\* The trace port and the error of write-back.
LEMMA OwingStep ==
    ASSUME Owing, Alone, AluOK, WriteBackOK, WatchOK, DecodedInPlace,
           NEW served \in BOOLEAN,
           Alu(wrb_next), WriteBack(alu_valid, ex, served), Watch
    PROVE  Owing'
<1>1. wrb_error' => axi_stage' # 0
  <2>1. CASE UNCHANGED wrbVars
    BY <2>1 DEF wrbVars, Owing
  <2>2. CASE ~wrb_error /\ (Take(alu_valid, ex) \/ LoadAddress(served))
    <3>1. wrb_error' = wrb_error
      BY <2>2 DEF Take, LoadAddress
    <3> QED
      BY <2>2, <3>1
  <2>3. ASSUME NEW resp \in Faults, ~wrb_error, LoadData(resp) \/ StoreResponse(resp)
        PROVE  wrb_error' => axi_stage' # 0
    <3>1. CASE Fail
      BY <2>3, <3>1 DEF LoadData, StoreResponse, Fail
    <3>2. CASE ~Fail
      <4>1. Done(access.instr.rd) \/ Done(o_wr)
        BY <2>3, <3>2 DEF LoadData, StoreResponse
      <4> QED
        BY <2>3, <4>1 DEF Done
    <3> QED
      BY <3>1, <3>2
  <2>4. ASSUME NEW awready \in BOOLEAN, NEW wready \in BOOLEAN, StoreRequest(awready, wready)
        PROVE  wrb_error' => axi_stage' # 0
    BY <2>4 DEF StoreRequest, Owing
  <2> QED
    BY <2>1, <2>2, <2>3, <2>4 DEF WriteBack
<1>2. /\ owed' = IF Accepts(wrb_next) THEN (IF flush' = NoPc THEN dec.pc ELSE NoPc)
                 ELSE IF pc_valid THEN NoPc ELSE owed
      /\ Tears => "torn" \in lost'
      /\ "torn" \in lost => "torn" \in lost'
  BY DEF Watch
<1>3. alu_valid \in BOOLEAN /\ shift_stage \in {0, 1} /\ (pc_valid <=> wrb_next /\ alu_valid)
  BY DEF AluOK, pc_valid
<1>4. CASE Accept(wrb_next)
  <2>1. /\ Accepts(wrb_next) /\ ex' = dec
        /\ shift_stage' = IF dec.instr.kind = "shift" THEN 1 ELSE 0
        /\ alu_valid' <=> dec.instr.kind # "shift" /\ flush' = NoPc
        /\ dec \in Fetched
    BY <1>4 DEF Accept, Accepts, dec_valid, DecodedInPlace, InPlace
  <2>2. flush' # NoPc => dec.instr.kind = "branch"
    BY <1>4, <2>1, ComparedTyped DEF Accept
  <2>3. dec.pc # NoPc
    BY <2>1, FetchedParts, PcsTyped
  <2> QED
    BY <1>1, <1>2, <2>1, <2>2, <2>3 DEF Owing
<1>5. CASE Shift(wrb_next)
  <2>1. ~Accepts(wrb_next) /\ ~pc_valid
    BY <1>3, <1>5 DEF Shift, Accepts, alu_next, Owing
  <2> QED
    BY <1>1, <1>2, <1>5, <2>1 DEF Shift, Owing, Alone
<1>6. CASE RaiseFlush(wrb_next)
  <2>1. ~Accepts(wrb_next) /\ ~pc_valid
    BY <1>3, <1>6 DEF RaiseFlush, Accepts, alu_next, Owing
  <2> QED
    BY <1>1, <1>2, <1>6, <2>1 DEF RaiseFlush, Owing, Alone
<1>7. CASE EndFlush(wrb_next)
  <2>1. ~Accepts(wrb_next) /\ shift_stage = 0 /\ shift_stage' = 0 /\ ~alu_valid' /\ ex' = ex
    BY <1>3, <1>7 DEF EndFlush, Accepts, dec_valid, Alone
  <2>2. ASSUME "torn" \notin lost' PROVE owed' = NoPc
    <3>1. axi_stage = 0 /\ wrb_next /\ "torn" \notin lost
      BY <1>2, <1>7, <2>2 DEF Tears, EndFlush, wrb_next, Owing
    <3> QED
      BY <1>2, <1>3, <2>1, <3>1 DEF Owing
  <2> QED
    BY <1>1, <2>1, <2>2 DEF Owing
<1>8. CASE Hold(wrb_next)
  BY <1>1, <1>2, <1>3, <1>8 DEF Hold, Owing
<1> QED
  BY <1>4, <1>5, <1>6, <1>7, <1>8 DEF Alu

\* The width of a load or store.
LEMMA WidthsStep ==
    ASSUME WidthsGoAlong, Alone, DecodeOK, AluOK, WriteBackOK, DecodedInPlace, ~Over,
           NEW served \in BOOLEAN, NEW i_valid \in BOOLEAN, NEW word,
           Alu(wrb_next), WriteBack(alu_valid, ex, served),
           Squash \/ Decode(i_valid, word, wrb_next) \/ Wait(i_valid, wrb_next)
    PROVE  /\ InDecoder' => dec_memstrb' = dec'.instr.width
           /\ InAlu' => /\ alu_memstrb' = ex'.instr.width
                        /\ InDecoder' \/ dec_memstrb' = alu_memstrb'
           /\ axi_stage' # 0 => InAlu' \/ alu_memstrb' = access'.instr.width
           /\ shift_stage' = 1 \/ flush' # NoPc \/ c_flush' # NoPc => ~InMemory(ex'.instr)
<1>1. /\ InDecoder' => dec_memstrb' = dec'.instr.width
      /\ InDecoder' \/ dec_memstrb' = dec_memstrb
      /\ InDecoder /\ ~InDecoder' => c_flush # NoPc \/ Accepts(wrb_next)
  <2>1. CASE Squash
    BY <2>1 DEF Squash, InDecoder, DecodedInPlace
  <2>2. CASE Wait(i_valid, wrb_next)
    BY <2>2 DEF Wait, InDecoder, WidthsGoAlong, Accepts, dec_valid, dec_next
  <2>3. CASE Decode(i_valid, word, wrb_next)
    <3>1. valid => Accepts(wrb_next)
      BY <2>3 DEF Decode, Accepts, dec_valid, dec_next
    <3>2. CASE word.instr.kind = "bad"
      BY <2>3, <3>1, <3>2 DEF Decode, InDecoder
    <3>3. CASE word.instr.kind # "bad"
      <4>1. /\ dec' = word /\ valid' = TRUE
            /\ dec_memstrb' = IF InMemory(word.instr) THEN word.instr.width ELSE dec_memstrb
        BY <2>3, <3>3 DEF Decode
      <4> QED
        BY <3>1, <4>1 DEF InDecoder
    <3> QED
      BY <3>2, <3>3
  <2> QED
    BY <2>1, <2>2, <2>3
<1>2. axi_stage' # 0 => \/ axi_stage # 0 /\ access' = access
                        \/ axi_stage = 0 /\ access' = ex /\ InAlu
  <2>1. CASE UNCHANGED wrbVars
    BY <2>1 DEF wrbVars, WidthsGoAlong
  <2>2. CASE Take(alu_valid, ex)
    BY <2>2 DEF Take, InAlu
  <2>3. CASE LoadAddress(served)
    BY <2>3 DEF LoadAddress
  <2>4. ASSUME NEW resp \in Faults, LoadData(resp) \/ StoreResponse(resp)
        PROVE  axi_stage' # 0 => axi_stage # 0 /\ access' = access
    BY <2>4 DEF LoadData, StoreResponse, Fail, Done
  <2>5. ASSUME NEW awready \in BOOLEAN, NEW wready \in BOOLEAN, StoreRequest(awready, wready)
        PROVE  axi_stage' # 0 => axi_stage # 0 /\ access' = access
    BY <2>5 DEF StoreRequest
  <2> QED
    BY <2>1, <2>2, <2>3, <2>4, <2>5 DEF WriteBack
<1>3. CASE Accept(wrb_next)
  <2>1. /\ Accepts(wrb_next) /\ ex' = dec /\ alu_memstrb' = dec_memstrb
        /\ shift_stage' = IF dec.instr.kind = "shift" THEN 1 ELSE 0
        /\ alu_valid' <=> dec.instr.kind # "shift" /\ flush' = NoPc
        /\ valid /\ dec \in Fetched
    BY <1>3 DEF Accept, Accepts, dec_valid, DecodedInPlace, InPlace
  <2>2. /\ flush' # NoPc => dec.instr.kind = "branch"
        /\ c_flush' # NoPc => dec.instr.kind = "jalr"
    BY <1>3, <2>1, ComparedTyped DEF Accept
  <2>3. InAlu' <=> InDecoder
    BY <2>1, <2>2 DEF InAlu, InDecoder, InMemory
  <2>4. shift_stage' = 1 \/ flush' # NoPc \/ c_flush' # NoPc => ~InMemory(ex'.instr)
    BY <2>1, <2>2 DEF InMemory
  <2>5. InAlu' => alu_memstrb' = ex'.instr.width /\ (InDecoder' \/ dec_memstrb' = alu_memstrb')
    BY <1>1, <2>1, <2>3 DEF WidthsGoAlong
  <2>6. axi_stage' # 0 => InAlu' \/ alu_memstrb' = access'.instr.width
    <3>1. axi_stage = 0
      BY <2>1 DEF Accepts, alu_next, wrb_next
    <3> QED
      BY <1>2, <2>1, <2>3, <3>1 DEF WidthsGoAlong
  <2> QED
    BY <1>1, <2>4, <2>5, <2>6
<1>4. CASE ~Accepts(wrb_next) /\ (Shift(wrb_next) \/ RaiseFlush(wrb_next) \/ EndFlush(wrb_next)
                                    \/ Hold(wrb_next))
  <2>1. /\ ex' = ex /\ alu_memstrb' = alu_memstrb
        /\ shift_stage' = 1 \/ flush' # NoPc \/ c_flush' # NoPc
             => shift_stage = 1 \/ flush # NoPc \/ c_flush # NoPc
        /\ alu_valid' => alu_valid \/ shift_stage = 1
        /\ alu_valid /\ ~alu_valid' => wrb_next \/ c_flush # NoPc
    <3>1. CASE Shift(wrb_next)
      BY <3>1 DEF Shift
    <3>2. CASE RaiseFlush(wrb_next)
      BY <3>2 DEF RaiseFlush
    <3>3. CASE EndFlush(wrb_next)
      BY <3>3 DEF EndFlush
    <3>4. CASE Hold(wrb_next)
      BY <3>4 DEF Hold
    <3> QED
      BY <1>4, <3>1, <3>2, <3>3, <3>4
  <2>2. InAlu' => InAlu /\ c_flush = NoPc
    BY <2>1 DEF InAlu, WidthsGoAlong
  <2>3. InAlu' => alu_memstrb' = ex'.instr.width /\ (InDecoder' \/ dec_memstrb' = alu_memstrb')
    BY <1>1, <1>4, <2>1, <2>2 DEF WidthsGoAlong
  <2>4. axi_stage' # 0 => InAlu' \/ alu_memstrb' = access'.instr.width
    <3>1. CASE axi_stage # 0 /\ access' = access
      <4>1. InAlu /\ ~InAlu' => FALSE
        BY <2>1, <3>1 DEF InAlu, WidthsGoAlong, wrb_next
      <4> QED
        BY <2>1, <3>1, <4>1 DEF WidthsGoAlong
    <3>2. CASE axi_stage = 0 /\ access' = ex /\ InAlu
      BY <2>1, <3>2 DEF WidthsGoAlong
    <3> QED
      BY <1>2, <3>1, <3>2
  <2>5. shift_stage' = 1 \/ flush' # NoPc \/ c_flush' # NoPc => ~InMemory(ex'.instr)
    BY <2>1 DEF WidthsGoAlong
  <2> QED
    BY <1>1, <2>3, <2>4, <2>5
<1>5. Shift(wrb_next) \/ RaiseFlush(wrb_next) \/ EndFlush(wrb_next) => ~Accepts(wrb_next)
  BY DEF Shift, RaiseFlush, EndFlush, Accepts, alu_next, dec_valid
<1> QED
  BY <1>3, <1>4, <1>5 DEF Alu, Hold

-----------------------------------------------------------------------------
(* The words from fetch to the decoder                                     *)

\* A flush leaves nothing behind but where it goes.
LEMMA FlushClears ==
    ASSUME FetchOK, Bursts, c_flush # NoPc, fifo.counter = 0,
           NEW ready \in BOOLEAN, Fetch(c_flush, ready)
    PROVE  pending' = None /\ Onward' = c_flush
<1>1. CASE Request(c_flush)
  BY <1>1 DEF Request, From, Onward
<1>2. CASE Idle(c_flush)
  BY <1>2, HalfTyped DEF Idle, MayRequest, half
<1>3. CASE Address(c_flush, ready)
  BY <1>3 DEF Address, Flushed, Onward, Bursts
<1>4. CASE Stall(c_flush)
  BY <1>4 DEF Stall, Flushed, Onward
<1>5. CASE Beat(c_flush)
  BY <1>5 DEF Beat, Flushed, Onward
<1> QED
  BY <1>1, <1>2, <1>3, <1>4, <1>5 DEF Fetch

\* Without a flush the words keep their order, and what was behind each of them
\* stays there; d of them leave the FIFO.
LEMMA ThenStep ==
    ASSUME fifo \in Fifos(Fetched \cup {None}), Wf(fifo), FifoInPlace, PendingInPlace,
           FetchOK, Bursts, c_flush = NoPc, c_flush' = NoPc, ~Overruns,
           NEW ready \in BOOLEAN, Fetch(c_flush, ready),
           FetchFifo(c_flush, c_flush' # NoPc, dec_next(wrb_next)),
           NEW d, d = Left(fifo, dec_next(wrb_next))
    PROVE  /\ fifo.counter \in Nat /\ fifo'.counter \in Nat /\ d \in 0..1 /\ d <= fifo.counter
           /\ \A i \in 0..fifo'.counter : i + d <= fifo.counter => Then(i)' = Then(i + d)
           /\ \A i \in 1..fifo'.counter :
                i + d <= fifo.counter => Word(fifo', i) = Word(fifo, i + d)
           /\ \A i \in 1..fifo'.counter :
                i + d > fifo.counter =>
                  pending # None /\ Word(fifo', i) = pending /\ Then(i)' = Onward
           /\ pending' # None => LeadsTo(pending', Onward')
<1> DEFINE n == fifo.counter
<1> DEFINE m == fifo'.counter
<1>1. /\ Wf(fifo') /\ m = n - d + Came(pending # None)
      /\ \A i \in 1..(n - d) : Word(fifo', i) = Word(fifo, i + d)
      /\ pending # None => Word(fifo', m) = pending
  <2>1. dec_next(wrb_next) \in BOOLEAN /\ (c_flush' # NoPc) \in BOOLEAN
    BY DEF dec_next
  <2>2. pending \in Fetched \cup {None}
    BY DEF FetchOK
  <2> QED
    BY <2>1, <2>2, FifoStep
<1>2. n \in Nat /\ d \in 0..1 /\ d <= n
  <2>1. n \in 0..DATA_DEPTH
    BY ContentWords
  <2> QED
    BY <2>1, DepthAssumption DEF Left, empty
<1>3. /\ pending # None => m = n - d + 1
      /\ pending = None => m = n - d
  BY <1>1, <1>2 DEF Came
<1>4. m \in Nat
  BY <1>2, <1>3
<1>5. Behind' = Onward /\ (pending' # None => LeadsTo(pending', Onward'))
  BY FetchGoesOn DEF Behind
<1>6. ASSUME NEW i \in 0..m
      PROVE  /\ Then(i)' = IF i < m THEN Word(fifo', i + 1).pc ELSE Behind'
             /\ \A j \in Nat : Then(j) = IF j < n THEN Word(fifo, j + 1).pc ELSE Behind
  BY DEF Then
<1>7. ASSUME NEW i \in 0..m, i + d <= n
      PROVE  Then(i)' = Then(i + d)
  <2>1. CASE i + d < n
    <3>1. i + 1 \in 1..(n - d) /\ i < m /\ (i + 1) + d = (i + d) + 1 /\ i + d \in Nat
      BY <1>2, <1>3, <2>1
    <3>2. Word(fifo', i + 1) = Word(fifo, (i + d) + 1)
      BY <1>1, <3>1
    <3> QED
      BY <1>6, <2>1, <3>1, <3>2
  <2>2. CASE i + d = n /\ pending # None
    <3>1. i + 1 = m /\ i < m /\ ~(n < n)
      BY <1>2, <1>3, <2>2
    <3> QED
      BY <1>1, <1>2, <1>6, <2>2, <3>1 DEF Behind
  <2>3. CASE i + d = n /\ pending = None
    <3>1. i = m /\ ~(i < m) /\ ~(n < n)
      BY <1>2, <1>3, <2>3
    <3> QED
      BY <1>2, <1>5, <1>6, <2>3, <3>1 DEF Behind
  <2> QED
    BY <1>2, <1>7, <2>1, <2>2, <2>3
<1>8. ASSUME NEW i \in 1..m, i + d <= n
      PROVE  Word(fifo', i) = Word(fifo, i + d)
  <2>1. i \in 1..(n - d)
    BY <1>2, <1>4, <1>8
  <2> QED
    BY <1>1, <2>1
<1>9. ASSUME NEW i \in 1..m, i + d > n
      PROVE  pending # None /\ Word(fifo', i) = pending /\ Then(i)' = Onward
  <2>1. pending # None /\ i = m /\ ~(i < m) /\ i \in 0..m
    BY <1>2, <1>3, <1>9
  <2> QED
    BY <1>1, <1>5, <1>6, <2>1
<1> QED
  BY <1>2, <1>4, <1>5, <1>7, <1>8, <1>9

\* What the decoder does with the word the FIFO shows.
LEMMA DecodeTakes ==
    ASSUME Squash \/ Decode(~empty(fifo), rd_data(fifo), wrb_next) \/ Wait(~empty(fifo), wrb_next),
           c_flush = NoPc, ~c_error, dec \in Fetched \cup {None}
    PROVE  \/ /\ dec_next(wrb_next) /\ ~empty(fifo)
              /\ dec'.pc = rd_data(fifo).pc /\ (valid' => dec' = rd_data(fifo))
              /\ valid' \/ c_error'
           \/ /\ ~(dec_next(wrb_next) /\ ~empty(fifo))
              /\ dec' = dec /\ ~c_error' /\ (valid' <=> valid /\ ~dec_next(wrb_next))
<1>1. CASE Wait(~empty(fifo), wrb_next)
  BY <1>1 DEF Wait
<1>2. CASE Decode(~empty(fifo), rd_data(fifo), wrb_next)
  <2>1. [dec EXCEPT !.pc = rd_data(fifo).pc].pc = rd_data(fifo).pc
    BY DEF Fetched, None
  <2> QED
    BY <1>2, <2>1 DEF Decode
<1>3. ~Squash
  BY DEF Squash
<1> QED
  BY <1>1, <1>2, <1>3

LEMMA ChainStep ==
    ASSUME Chain, fifo \in Fifos(Fetched \cup {None}), Wf(fifo), FifoInPlace, PendingInPlace,
           DecodedInPlace, DecodeOK, FetchOK, Bursts, Alone, ~Overruns,
           c_flush' = NoPc,
           NEW ready \in BOOLEAN, Fetch(c_flush, ready),
           FetchFifo(c_flush, c_flush' # NoPc, dec_next(wrb_next)),
           Squash \/ Decode(~empty(fifo), rd_data(fifo), wrb_next) \/ Wait(~empty(fifo), wrb_next)
    PROVE  /\ valid' => LeadsTo(dec', Then(0)')
           /\ \A i \in 1..fifo'.counter : LeadsTo(Word(fifo', i), Then(i)')
           /\ pending' # None => LeadsTo(pending', Onward')
<1>1. CASE c_flush # NoPc
  <2>1. pending' = None
    BY <1>1, FlushClears DEF Alone
  <2>2. fifo'.counter = 0
    <3>1. fifo' = Reset(fifo)
      BY <1>1 DEF FetchFifo
    <3> QED
      BY <3>1, ResetTyped DEF empty
  <2>3. ~valid'
    BY <1>1 DEF Squash, Decode, Wait
  <2> QED
    BY <2>1, <2>2, <2>3
<1>2. CASE c_flush = NoPc
  <2> DEFINE d == Left(fifo, dec_next(wrb_next))
  <2>1. /\ fifo.counter \in Nat /\ fifo'.counter \in Nat /\ d \in 0..1 /\ d <= fifo.counter
        /\ \A i \in 0..fifo'.counter : i + d <= fifo.counter => Then(i)' = Then(i + d)
        /\ \A i \in 1..fifo'.counter :
             i + d <= fifo.counter => Word(fifo', i) = Word(fifo, i + d)
        /\ \A i \in 1..fifo'.counter :
             i + d > fifo.counter =>
               pending # None /\ Word(fifo', i) = pending /\ Then(i)' = Onward
        /\ pending' # None => LeadsTo(pending', Onward')
    BY <1>2, ThenStep
  <2>2. /\ valid => LeadsTo(dec, Then(0))
        /\ \A i \in 1..fifo.counter : LeadsTo(Word(fifo, i), Then(i))
        /\ pending # None => LeadsTo(pending, Onward)
    BY <1>2 DEF Chain
  <2>3. d = IF dec_next(wrb_next) /\ ~empty(fifo) THEN 1 ELSE 0
    BY DEF Left
  <2> HIDE DEF d
  <2>4. ASSUME NEW i \in 1..fifo'.counter
        PROVE  LeadsTo(Word(fifo', i), Then(i)')
    <3>1. CASE i + d <= fifo.counter
      <4>1. i + d \in 1..fifo.counter /\ i \in 0..fifo'.counter
        BY <2>1, <3>1
      <4>2. Word(fifo', i) = Word(fifo, i + d) /\ Then(i)' = Then(i + d)
        BY <2>1, <3>1, <4>1
      <4> QED
        BY <2>2, <4>1, <4>2
    <3>2. CASE i + d > fifo.counter
      <4>1. pending # None /\ Word(fifo', i) = pending /\ Then(i)' = Onward
        BY <2>1, <3>2
      <4> QED
        BY <2>2, <4>1
    <3> QED
      BY <2>1, <3>1, <3>2
  <2>5. Then(0)' = Then(d)
    <3>1. 0 \in 0..fifo'.counter /\ 0 + d = d /\ 0 + d <= fifo.counter
      BY <2>1
    <3> QED
      BY <2>1, <3>1
  <2>6. ASSUME valid' PROVE LeadsTo(dec', Then(0)')
    <3>1. ~c_error
      BY <1>2, <2>6 DEF Squash, Decode, Wait
    <3>2. CASE dec_next(wrb_next) /\ ~empty(fifo)
      <4>1. dec' = rd_data(fifo)
        BY <1>2, <2>6, <3>1, <3>2, DecodeTakes DEF DecodeOK
      <4>2. rd_data(fifo) = Word(fifo, 1) /\ d = 1
        BY <2>3, <3>2, ShownInPlace
      <4>3. 1 \in 1..fifo.counter
        BY <2>1, <4>2
      <4> QED
        BY <2>2, <2>5, <4>1, <4>2, <4>3
    <3>3. CASE ~(dec_next(wrb_next) /\ ~empty(fifo))
      <4>1. dec' = dec /\ valid
        BY <1>2, <2>6, <3>1, <3>3, DecodeTakes DEF DecodeOK
      <4> QED
        BY <2>2, <2>3, <2>5, <3>3, <4>1
    <3> QED
      BY <3>2, <3>3
  <2> QED
    BY <2>1, <2>4, <2>6
<1> QED
  BY <1>1, <1>2

-----------------------------------------------------------------------------
(* The inductive invariant.                                                *)

LEMMA InitHolds == Init => IInv
<1> SUFFICES ASSUME Init PROVE IInv
  OBVIOUS
<1> USE DEF Init, FetchInit, ExecuteInit, WriteBackInit
<1>1. /\ fifo \in Fifos(Fetched \cup {None}) /\ Wf(fifo) /\ fifo.counter = 0
  <2>1. None \in Fetched \cup {None}
    OBVIOUS
  <2> QED
    BY <2>1, InitFifoTyped DEF empty
<1>2. FetchOK
  <2>1. burst \in [addr: OrNone(Pcs), left: 0..Half]
    BY HalfTyped DEF NoBurst, OrNone
  <2>2. fetch_stage \in 0..2 /\ next_pc \in Pcs /\ flush_pc \in OrNone(Pcs)
    BY PcsTyped DEF OrNone
  <2>3. pending \in Fetched \cup {None} /\ fifo_break \in BOOLEAN /\ instr_jalr \in BOOLEAN
    OBVIOUS
  <2> QED
    BY <2>1, <2>2, <2>3 DEF FetchOK
<1>3. DecodeOK /\ AluOK /\ WriteBackOK
  <2>1. 0 \in Widths /\ 0 \in Regs /\ NoPc \in OrNone(Pcs) /\ 0 \in 0..4
    BY DEF Regs, Widths, OrNone
  <2>2. dec \in Fetched \cup {None} /\ ex \in Fetched \cup {None} /\ access \in Fetched \cup {None}
    OBVIOUS
  <2>3. DecodeOK
    BY <2>1, <2>2 DEF DecodeOK
  <2>4. AluOK
    BY <2>1, <2>2 DEF AluOK
  <2>5. WriteBackOK
    BY <2>1, <2>2 DEF WriteBackOK
  <2> QED
    BY <2>3, <2>4, <2>5
<1>4. BoardOK
  <2>1. 0 \in Places /\ 0 \in 0..BOARD_DEPTH /\ 0 \in Regs
    BY BoardAssumption DEF Places, Regs
  <2>2. /\ [s \in Places |-> 0] \in [Places -> Regs]
        /\ [s \in Places |-> FALSE] \in [Places -> BOOLEAN]
    BY <2>1
  <2> QED
    BY <2>1, <2>2 DEF BoardOK, EmptyBoard, Boards
<1>5. WatchOK
  BY CoreAssumption DEF WatchOK, OrNone
<1>6. TypeOK
  BY <1>1, <1>2, <1>3, <1>4, <1>5, TypeParts
<1>7. PendingInPlace /\ FifoInPlace /\ DecodedInPlace
  BY <1>1 DEF PendingInPlace, FifoInPlace, DecodedInPlace
<1>8. Bursts /\ Alone /\ Chain
  BY <1>1 DEF Bursts, Alone, Chain
<1>9. Owing
  BY DEF Owing, NoPc
<1>10. WidthsGoAlong
  BY DEF WidthsGoAlong, InAlu, InDecoder
<1> QED
  BY <1>1, <1>6, <1>7, <1>8, <1>9, <1>10 DEF IInv

LEMMA Stutters == IInv /\ UNCHANGED vars => IInv'
<1> SUFFICES ASSUME IInv, UNCHANGED vars PROVE IInv'
  OBVIOUS
<1>1. /\ UNCHANGED <<program, fifo, finish, board, run, owed, lost>>
      /\ UNCHANGED fetchVars /\ UNCHANGED decodeVars /\ UNCHANGED aluVars /\ UNCHANGED wrbVars
  BY DEF vars
<1> USE <1>1 DEF fetchVars, decodeVars, aluVars, wrbVars
<1>2. TypeOK'
  BY DEF IInv, TypeOK
<1>3. PendingInPlace' /\ FifoInPlace' /\ DecodedInPlace'
  BY DEF IInv, PendingInPlace, FifoInPlace, DecodedInPlace, InPlace, Word, Slot
<1>4. Over' = Over
  BY DEF Over
<1>5. ~Over => Wf(fifo') /\ Bursts' /\ Chain'
  <2> SUFFICES ASSUME ~Over PROVE Wf(fifo') /\ Bursts' /\ Chain'
    OBVIOUS
  <2>1. Wf(fifo') /\ Bursts'
    BY DEF IInv, Wf, Bursts
  <2>2. Onward' = Onward /\ Behind' = Behind
    BY DEF Onward, Behind
  <2>3. \A i \in Nat : Then(i)' = Then(i)
    BY <2>2 DEF Then, Word, Slot
  <2>4. Chain
    BY DEF IInv
  <2>5. \A i \in 1..fifo.counter : i \in Nat
    OBVIOUS
  <2>6. Chain'
    BY <2>2, <2>3, <2>4, <2>5 DEF Chain, LeadsTo, Follow, Word, Slot
  <2> QED
    BY <2>1, <2>6
<1>6. Alone' /\ Owing'
  BY DEF IInv, Alone, Owing
<1>7. WidthsGoAlong'
  BY <1>4 DEF IInv, WidthsGoAlong, InAlu, InDecoder
<1> QED
  BY <1>2, <1>3, <1>4, <1>5, <1>6, <1>7 DEF IInv

LEMMA ResetKeeps == IInv /\ CoreReset => IInv'
<1> SUFFICES ASSUME IInv, CoreReset PROVE IInv'
  OBVIOUS
<1>1. /\ FetchOK /\ fifo \in Fifos(Fetched \cup {None})
      /\ DecodeOK /\ BoardOK /\ AluOK /\ WriteBackOK /\ WatchOK
  BY TypeParts DEF IInv
<1> USE DEF CoreReset, FetchReset, ExecuteReset, WriteBackReset
<1>2. fifo' \in Fifos(Fetched \cup {None}) /\ Wf(fifo') /\ fifo'.counter = 0
  BY <1>1, ResetTyped DEF empty
<1>3. FetchOK'
  <2>1. fetch_stage' \in 0..2 /\ next_pc' \in Pcs
    BY PcsTyped
  <2>2. instr_jalr' \in BOOLEAN /\ UNCHANGED <<program, fifo_break, flush_pc, pending, burst>>
    OBVIOUS
  <2> QED
    BY <1>1, <2>1, <2>2 DEF FetchOK
<1>4. DecodeOK' /\ AluOK' /\ WriteBackOK'
  BY <1>1 DEF DecodeOK, AluOK, WriteBackOK, OrNone
<1>5. BoardOK'
  <2>1. board \in Boards(Regs)
    BY <1>1 DEF BoardOK
  <2>2. TRUE \in BOOLEAN /\ 0 \in Regs
    BY DEF Regs
  <2>3. BoardReset(board) \in Boards(Regs)
    BY <2>1, <2>2, BoardTyped
  <2> QED
    BY <2>3 DEF BoardOK
<1>6. WatchOK'
  <2>1. run' \in 0..MaxRuns
    BY <1>1, CoreAssumption DEF WatchOK
  <2> QED
    BY <1>1, <2>1 DEF WatchOK, OrNone
<1>7. TypeOK'
  <2>1. TypeOK' <=> /\ FetchOK' /\ fifo' \in Fifos(Fetched \cup {None})
                    /\ DecodeOK' /\ BoardOK' /\ AluOK' /\ WriteBackOK' /\ WatchOK'
    BY DEF TypeOK, FetchOK, DecodeOK, BoardOK, AluOK, WriteBackOK, WatchOK
  <2> QED
    BY <1>2, <1>3, <1>4, <1>5, <1>6, <2>1
<1>8. PendingInPlace'
  BY DEF IInv, PendingInPlace, InPlace
<1>9. FifoInPlace' /\ DecodedInPlace'
  BY <1>2 DEF FifoInPlace, DecodedInPlace
<1>10. ~Over' => Bursts' /\ Chain'
  <2> SUFFICES ASSUME ~Over' PROVE Bursts' /\ Chain'
    OBVIOUS
  <2>1. Quiet
    BY DEF Over
  <2> QED
    BY <1>2, <2>1 DEF Quiet, Bursts, Chain
<1>11. Alone'
  BY DEF Alone
<1>12. Owing'
  BY DEF IInv, Owing
<1>13. WidthsGoAlong'
  <2>1. ~Over' => axi_stage' = 0
    BY DEF Over, Quiet
  <2> QED
    BY <2>1 DEF WidthsGoAlong, InAlu, InDecoder
<1> QED
  BY <1>2, <1>7, <1>8, <1>9, <1>10, <1>11, <1>12, <1>13 DEF IInv

\* A clock, device by device.
LEMMA TickParts ==
    ASSUME IInv, NEW fetched \in BOOLEAN, NEW served \in BOOLEAN, Tick(fetched, served)
    PROVE  /\ FetchOK /\ fifo \in Fifos(Fetched \cup {None})
           /\ DecodeOK /\ BoardOK /\ AluOK /\ WriteBackOK /\ WatchOK
           /\ ~Over /\ Wf(fifo) /\ Bursts /\ Chain
           /\ Fetch(c_flush, fetched) /\ Alu(wrb_next) /\ WriteBack(alu_valid, ex, served)
           /\ FetchFifo(c_flush, c_flush' # NoPc, dec_next(wrb_next))
           /\ Squash \/ Decode(~empty(fifo), rd_data(fifo), wrb_next)
                     \/ Wait(~empty(fifo), wrb_next)
           /\ Post(wrb_next, o_finish) /\ Watch /\ run' = run
           /\ (~Over' => ~Overruns) /\ (Overruns => Over')
<1>1. TypeOK
  BY DEF IInv
<1>2. (~Over' => ~Overruns) /\ (Overruns => Over')
  BY DEF Tick, Watch, Over
<1> QED
  BY <1>1, <1>2, TypeParts DEF IInv, Tick

LEMMA TickKeeps ==
    ASSUME IInv, NEW fetched \in BOOLEAN, NEW served \in BOOLEAN, Tick(fetched, served)
    PROVE  IInv'
<1>1. /\ FetchOK /\ fifo \in Fifos(Fetched \cup {None})
      /\ DecodeOK /\ BoardOK /\ AluOK /\ WriteBackOK /\ WatchOK
      /\ ~Over /\ Wf(fifo) /\ Bursts /\ Chain
  BY TickParts
<1>2. /\ Fetch(c_flush, fetched) /\ Alu(wrb_next) /\ WriteBack(alu_valid, ex, served)
      /\ FetchFifo(c_flush, c_flush' # NoPc, dec_next(wrb_next))
      /\ Squash \/ Decode(~empty(fifo), rd_data(fifo), wrb_next)
                \/ Wait(~empty(fifo), wrb_next)
  BY TickParts
<1>3. Post(wrb_next, o_finish) /\ Watch /\ run' = run /\ (~Over' => ~Overruns)
  BY TickParts
<1>4. /\ PendingInPlace /\ FifoInPlace /\ DecodedInPlace
      /\ Alone /\ Owing /\ WidthsGoAlong
  BY DEF IInv
<1>5. c_flush \in OrNone(Pcs) /\ (c_flush # NoPc => fifo.counter = 0) /\ wrb_next \in BOOLEAN
  BY <1>1, <1>4 DEF AluOK, Alone, wrb_next
<1>6. /\ FetchOK' /\ Bursts' /\ program' = program
      /\ pending' # None => InPlace(pending')
  BY <1>1, <1>2, <1>4, <1>5, FetchStep
<1>7. /\ fifo' \in Fifos(Fetched \cup {None})
      /\ c_flush # NoPc \/ c_flush' # NoPc => Wf(fifo') /\ fifo'.counter = 0
      /\ c_flush = NoPc /\ ~(c_flush' # NoPc) /\ ~Overruns => Wf(fifo')
      /\ \A i \in 1..fifo'.counter : InPlace(Word(fifo', i))
  <2>1. dec_next(wrb_next) \in BOOLEAN /\ (c_flush' # NoPc) \in BOOLEAN
    BY DEF dec_next
  <2>2. pending \in Fetched \cup {None}
    BY <1>1 DEF FetchOK
  <2> QED
    BY <1>1, <1>2, <1>4, <2>1, <2>2, FifoStep
<1>8. /\ DecodeOK'
      /\ valid' => InPlace(dec') /\ dec'.instr.kind # "bad"
      /\ c_error' => dec'.pc \in Pcs /\ ~valid'
  <2>1. ~empty(fifo) => InPlace(rd_data(fifo))
    BY <1>1, <1>4, ShownInPlace
  <2>2. (~empty(fifo)) \in BOOLEAN
    OBVIOUS
  <2> QED
    BY <1>1, <1>2, <1>4, <1>5, <2>1, <2>2, DecodeStep
<1>9. /\ AluOK'
      /\ shift_stage' = 1 => flush' = NoPc /\ c_flush' = NoPc
      /\ c_flush' # NoPc => flush' = NoPc
  BY <1>1, <1>2, <1>4, <1>5, AluStep
<1>10. BoardOK' /\ WriteBackOK' /\ WatchOK'
  <2>1. o_finish \in BOOLEAN
    BY <1>1 DEF WriteBackOK
  <2> QED
    BY <1>1, <1>2, <1>3, <1>5, <2>1, PostStep, WriteBackStep, WatchStep
<1>11. TypeOK'
  <2>1. TypeOK' <=> /\ FetchOK' /\ fifo' \in Fifos(Fetched \cup {None})
                    /\ DecodeOK' /\ BoardOK' /\ AluOK' /\ WriteBackOK' /\ WatchOK'
    BY DEF TypeOK, FetchOK, DecodeOK, BoardOK, AluOK, WriteBackOK, WatchOK
  <2> QED
    BY <1>6, <1>7, <1>8, <1>9, <1>10, <2>1
<1>12. PendingInPlace' /\ FifoInPlace' /\ DecodedInPlace'
  BY <1>6, <1>7, <1>8 DEF PendingInPlace, FifoInPlace, DecodedInPlace, InPlace
<1>13. ~Over' => Wf(fifo')
  BY <1>3, <1>7
<1>14. Alone'
  BY <1>7, <1>9 DEF Alone
<1>15. Owing'
  BY <1>1, <1>2, <1>3, <1>4, OwingStep
<1>16. WidthsGoAlong'
  <2>1. (~empty(fifo)) \in BOOLEAN
    OBVIOUS
  <2>2. /\ InDecoder' => dec_memstrb' = dec'.instr.width
        /\ InAlu' => /\ alu_memstrb' = ex'.instr.width
                     /\ InDecoder' \/ dec_memstrb' = alu_memstrb'
        /\ axi_stage' # 0 => InAlu' \/ alu_memstrb' = access'.instr.width
        /\ shift_stage' = 1 \/ flush' # NoPc \/ c_flush' # NoPc => ~InMemory(ex'.instr)
    BY <1>1, <1>2, <1>4, <2>1, WidthsStep
  <2> QED
    BY <2>2 DEF WidthsGoAlong
<1>17. ~Over' => Chain'
  <2> SUFFICES ASSUME ~Over', c_flush' = NoPc
               PROVE  /\ valid' => LeadsTo(dec', Then(0)')
                      /\ \A i \in 1..fifo'.counter : LeadsTo(Word(fifo', i), Then(i)')
                      /\ pending' # None => LeadsTo(pending', Onward')
    BY DEF Chain
  <2>1. ~Overruns
    BY <1>3
  <2> QED
    BY <1>1, <1>2, <1>4, <2>1, ChainStep
<1> QED
  BY <1>6, <1>11, <1>12, <1>13, <1>14, <1>15, <1>16, <1>17 DEF IInv

LEMMA Inductive == Spec => []IInv
<1>1. IInv /\ [Next]_vars => IInv'
  <2> SUFFICES ASSUME IInv, [Next]_vars PROVE IInv'
    OBVIOUS
  <2>1. CASE UNCHANGED vars
    BY <2>1, Stutters
  <2>2. CASE Ended
    BY <2>2, Stutters DEF Ended
  <2>3. CASE CoreReset
    BY <2>3, ResetKeeps
  <2>4. ASSUME NEW fetched \in BOOLEAN, NEW served \in BOOLEAN, Tick(fetched, served)
        PROVE  IInv'
    BY <2>4, TickKeeps
  <2> QED
    BY <2>1, <2>2, <2>3, <2>4 DEF Next
<1> QED
  BY InitHolds, <1>1, PTL DEF Spec

-----------------------------------------------------------------------------
\* The registers of the whole pipeline, the scoreboard and the histories keep
\* their ranges, whatever the program is and the memory does.
THEOREM TypeCorrect == Spec => []TypeOK
<1>1. IInv => TypeOK
  BY DEF IInv
<1> QED
  BY <1>1, Inductive, PTL

(* Flushes and jumps at any clock: what is on its way to the decoder is    *)
(* the word of the address it goes by.                                     *)
THEOREM WordsAlwaysInPlace == Spec => []WordsInPlace
<1>1. IInv => WordsInPlace
  <2> SUFFICES ASSUME IInv PROVE WordsInPlace
    OBVIOUS
  <2>1. fifo \in Fifos(Fetched \cup {None}) /\ PendingInPlace /\ FifoInPlace
    BY DEF IInv, TypeOK
  <2>2. ASSUME NEW i \in DOMAIN Content(fifo)
        PROVE  Content(fifo)[i].instr = program[Content(fifo)[i].pc]
    <3>1. i \in 1..fifo.counter /\ Content(fifo)[i] = Word(fifo, i)
      BY <2>1, ContentWords
    <3> QED
      BY <2>1, <3>1 DEF FifoInPlace, InPlace
  <2> QED
    BY <2>1, <2>2 DEF WordsInPlace, PendingInPlace, InPlace
<1> QED
  BY <1>1, Inductive, PTL

(* The trace port shows every instruction but a taken branch, once, before *)
(* the next one is executed, unless a flush meets a load or a store.       *)
THEOREM AlwaysShownOnce == Spec => []ShownOnce
<1>1. IInv => ShownOnce
  <2> SUFFICES ASSUME IInv, "torn" \notin lost
               PROVE  /\ pc_valid => owed = pc
                      /\ Accepts(wrb_next) => owed = NoPc \/ pc_valid
    BY DEF ShownOnce
  <2>1. Owing
    BY DEF IInv
  <2> QED
    BY <2>1 DEF Owing, pc_valid, pc, Accepts, alu_next
<1> QED
  BY <1>1, Inductive, PTL

(* A load gets the width it was decoded with, unless another load or store *)
(* has entered the ALU behind it.                                          *)
THEOREM WidthAlwaysItsOwn == Spec => WidthIsItsOwn
<1>1. IInv /\ [Next]_vars =>
        [axi_stage = 2 /\ axi_stage' = 0 /\ ~(alu_valid /\ InMemory(ex.instr))
           => alu_memstrb = access.instr.width]_vars
  <2> SUFFICES ASSUME IInv, Next, axi_stage = 2, axi_stage' = 0, ~InAlu
               PROVE  alu_memstrb = access.instr.width
    BY DEF InAlu
  <2>1. ~Over
    <3>1. CASE Ended
      BY <3>1 DEF Ended, vars, wrbVars
    <3>2. CASE CoreReset
      BY <3>2 DEF CoreReset
    <3>3. CASE \E fetched, served \in BOOLEAN : Tick(fetched, served)
      BY <3>3 DEF Tick
    <3> QED
      BY <3>1, <3>2, <3>3 DEF Next
  <2>2. WidthsGoAlong
    BY DEF IInv
  <2> QED
    BY <2>1, <2>2 DEF WidthsGoAlong
<1> QED
  BY <1>1, Inductive, PTL DEF Spec, WidthIsItsOwn

-----------------------------------------------------------------------------
(* The pipeline implements the machine.                                    *)

HereIs ==
    Here = IF flush # NoPc THEN flush
           ELSE IF c_flush # NoPc THEN c_flush
           ELSE IF valid \/ c_error THEN dec.pc
           ELSE Then(0)

LEMMA HereThen == IInv => HereIs /\ Here \in Pcs
<1> SUFFICES ASSUME IInv PROVE HereIs /\ Here \in Pcs
  OBVIOUS
<1>1. fifo \in Fifos(Fetched \cup {None}) /\ FetchOK /\ AluOK /\ FifoInPlace
      /\ DecodedInPlace /\ PendingInPlace
  BY TypeParts DEF IInv
<1>2. fifo.counter \in Nat
  <2>1. fifo.counter \in 0..DATA_DEPTH
    BY <1>1, ContentWords
  <2> QED
    BY <2>1, DepthAssumption
<1>3. Then(0) = IF ~empty(fifo) THEN rd_data(fifo).pc
                ELSE IF pending # None THEN pending.pc
                ELSE IF flush_pc # NoPc THEN flush_pc
                ELSE next_pc
  <2>1. Then(0) = IF 0 < fifo.counter THEN Word(fifo, 0 + 1).pc ELSE Behind
    BY DEF Then
  <2>2. CASE empty(fifo)
    BY <2>1, <2>2 DEF empty, Behind, Onward
  <2>3. CASE ~empty(fifo)
    BY <1>1, <1>2, <2>1, <2>3, ShownInPlace DEF empty
  <2> QED
    BY <2>2, <2>3
<1>4. Then(0) \in Pcs
  <2>1. ~empty(fifo) => rd_data(fifo).pc \in Pcs
    BY <1>1, ShownInPlace, FetchedParts
  <2>2. pending # None => pending.pc \in Pcs
    BY <1>1, FetchedParts DEF PendingInPlace, InPlace
  <2>3. flush_pc # NoPc => flush_pc \in Pcs
    BY <1>1 DEF FetchOK, OrNone
  <2> QED
    BY <1>1, <1>3, <2>1, <2>2, <2>3 DEF FetchOK
<1>5. HereIs
  BY <1>3 DEF Here, HereIs
<1>6. /\ flush # NoPc => flush \in Pcs
      /\ c_flush # NoPc => c_flush \in Pcs
      /\ valid \/ c_error => dec.pc \in Pcs
  BY <1>1, FetchedParts DEF AluOK, OrNone, DecodedInPlace, InPlace
<1> QED
  BY <1>4, <1>5, <1>6 DEF HereIs

\* What the decoder is shown, and what stays when it takes nothing.
LEMMA ShownThen ==
    ASSUME fifo \in Fifos(Fetched \cup {None}), FifoInPlace, ~empty(fifo)
    PROVE  Then(0) = rd_data(fifo).pc
<1>1. rd_data(fifo) = Word(fifo, 1) /\ fifo.counter >= 1
  BY ShownInPlace
<1>2. fifo.counter \in 0..DATA_DEPTH
  BY ContentWords
<1>3. 0 < fifo.counter /\ 0 + 1 = 1
  BY <1>1, <1>2, DepthAssumption
<1> QED
  BY <1>1, <1>3 DEF Then

LEMMA ThenStays ==
    ASSUME fifo \in Fifos(Fetched \cup {None}), Wf(fifo), FifoInPlace, PendingInPlace,
           FetchOK, Bursts, c_flush = NoPc, c_flush' = NoPc, ~Overruns,
           NEW ready \in BOOLEAN, Fetch(c_flush, ready),
           FetchFifo(c_flush, c_flush' # NoPc, dec_next(wrb_next)),
           ~(dec_next(wrb_next) /\ ~empty(fifo))
    PROVE  Then(0)' = Then(0)
<1> DEFINE d == Left(fifo, dec_next(wrb_next))
<1>1. d = 0
  BY DEF Left
<1>2. /\ fifo.counter \in Nat /\ fifo'.counter \in Nat
      /\ \A i \in 0..fifo'.counter : i + d <= fifo.counter => Then(i)' = Then(i + d)
  BY ThenStep
<1> HIDE DEF d
<1>3. 0 \in 0..fifo'.counter /\ 0 + d = 0 /\ 0 + d <= fifo.counter
  BY <1>1, <1>2
<1> QED
  BY <1>2, <1>3

LEMMA SuccessorsAre ==
    ASSUME NEW i, NEW at
    PROVE  Abstract!Successors(i, at) =
             IF i.kind = "jalr" THEN Pcs
             ELSE IF i.kind = "jal" THEN {Plus(at, i.by)}
             ELSE {Plus(at, 1)} \cup IF i.kind = "branch" THEN {Plus(at, i.by)} ELSE {}
BY DEF Abstract!Successors, Abstract!Plus, Plus, Abstract!Pcs, Pcs

\* An instruction that is accepted is the one that is due, and the next one is
\* where it leads to.
LEMMA AcceptExecutes ==
    ASSUME IInv, IInv', NEW fetched \in BOOLEAN, NEW served \in BOOLEAN, Tick(fetched, served),
           ~Overruns, Accept(wrb_next)
    PROVE  /\ Here = dec.pc /\ ex'.pc = dec.pc /\ program[dec.pc].kind # "bad"
           /\ Here' \in Abstract!Successors(program[dec.pc], dec.pc)
<1>1. /\ FetchOK /\ fifo \in Fifos(Fetched \cup {None}) /\ DecodeOK /\ AluOK
      /\ Wf(fifo) /\ Bursts /\ Chain /\ Fetch(c_flush, fetched)
      /\ FetchFifo(c_flush, c_flush' # NoPc, dec_next(wrb_next))
      /\ Squash \/ Decode(~empty(fifo), rd_data(fifo), wrb_next)
                \/ Wait(~empty(fifo), wrb_next)
  BY TickParts
<1>2. PendingInPlace /\ FifoInPlace /\ DecodedInPlace
  BY DEF IInv
<1>3. /\ Accepts(wrb_next) /\ Compared /\ ex' = dec /\ flush = NoPc /\ c_flush = NoPc
      /\ valid /\ InPlace(dec) /\ dec.instr.kind # "bad" /\ ~c_error /\ dec \in Fetched
  BY <1>2 DEF Accept, Accepts, alu_next, dec_valid, DecodedInPlace, InPlace
<1>4. Here = dec.pc /\ program[dec.pc] = dec.instr
  BY <1>3, HereThen DEF HereIs, InPlace
<1>5. /\ flush' # NoPc => dec.instr.kind = "branch" /\ flush' = Plus(dec.pc, dec.instr.by)
      /\ c_flush' # NoPc => dec.instr.kind = "jalr" /\ c_flush' \in Pcs
      /\ dec.instr.kind = "jalr" => c_flush' # NoPc
      /\ flush' = NoPc \/ c_flush' = NoPc
  BY <1>3, ComparedTyped
<1>6. Here' = IF flush' # NoPc THEN flush'
              ELSE IF c_flush' # NoPc THEN c_flush'
              ELSE IF valid' \/ c_error' THEN dec'.pc
              ELSE Then(0)'
  <2>1. HereIs'
    BY HereThen, PTL
  <2> QED
    BY <2>1 DEF HereIs
<1>7. CASE flush' # NoPc
  BY <1>3, <1>4, <1>5, <1>6, <1>7, SuccessorsAre
<1>8. CASE c_flush' # NoPc
  BY <1>3, <1>4, <1>5, <1>6, <1>8, SuccessorsAre
<1>9. CASE flush' = NoPc /\ c_flush' = NoPc
  <2>1. dec.instr.kind # "jalr" /\ LeadsTo(dec, Then(0))
    BY <1>1, <1>3, <1>5, <1>9 DEF Chain
  <2>2. Then(0) = Follow(dec)
    BY <2>1 DEF LeadsTo
  <2>3. dec_next(wrb_next)
    BY <1>3 DEF Accepts, dec_valid, dec_next
  <2>4. Here' = Then(0)
    <3>1. CASE ~empty(fifo)
      <4>1. dec'.pc = rd_data(fifo).pc /\ (valid' \/ c_error')
        BY <1>1, <1>3, <2>3, <3>1, DecodeTakes DEF DecodeOK
      <4>2. Then(0) = rd_data(fifo).pc
        BY <1>1, <1>2, <3>1, ShownThen
      <4> QED
        BY <1>6, <1>9, <4>1, <4>2
    <3>2. CASE empty(fifo)
      <4>1. ~valid' /\ ~c_error'
        BY <1>1, <1>3, <2>3, <3>2, DecodeTakes DEF DecodeOK
      <4>2. Then(0)' = Then(0)
        BY <1>1, <1>2, <1>3, <1>9, <3>2, ThenStays
      <4> QED
        BY <1>6, <1>9, <4>1, <4>2
    <3> QED
      BY <3>1, <3>2
  <2> QED
    BY <1>3, <1>4, <2>1, <2>2, <2>4, SuccessorsAre DEF Follow
<1> QED
  BY <1>3, <1>4, <1>7, <1>8, <1>9

\* A clock that accepts nothing changes neither what is due nor what was last.
LEMMA OtherwiseStays ==
    ASSUME IInv, IInv', NEW fetched \in BOOLEAN, NEW served \in BOOLEAN, Tick(fetched, served),
           ~Overruns, ~Accept(wrb_next)
    PROVE  Here' = Here /\ ex' = ex
<1>1. /\ FetchOK /\ fifo \in Fifos(Fetched \cup {None}) /\ DecodeOK /\ AluOK
      /\ Wf(fifo) /\ Bursts /\ Chain /\ Fetch(c_flush, fetched)
      /\ FetchFifo(c_flush, c_flush' # NoPc, dec_next(wrb_next)) /\ Alu(wrb_next)
      /\ Squash \/ Decode(~empty(fifo), rd_data(fifo), wrb_next)
                \/ Wait(~empty(fifo), wrb_next)
  BY TickParts
<1>2. PendingInPlace /\ FifoInPlace /\ DecodedInPlace /\ Alone
  BY DEF IInv
<1>3. HereIs /\ HereIs'
  <2>1. HereIs'
    BY HereThen, PTL
  <2> QED
    BY <2>1, HereThen
<1>4. \/ Shift(wrb_next) \/ RaiseFlush(wrb_next) \/ EndFlush(wrb_next) \/ Hold(wrb_next)
  BY <1>1 DEF Alu
<1>5. CASE flush # NoPc
  <2>1. ex' = ex
    BY <1>4 DEF Shift, RaiseFlush, EndFlush, Hold
  <2>2. \/ flush' = flush
        \/ flush' = NoPc /\ c_flush' = flush
    BY <1>2, <1>4, <1>5 DEF Shift, RaiseFlush, EndFlush, Hold, Alone
  <2> QED
    BY <1>3, <1>5, <2>1, <2>2 DEF HereIs
<1>6. CASE flush = NoPc /\ c_flush # NoPc
  <2>1. ex' = ex /\ flush' = NoPc /\ c_flush' = NoPc
    BY <1>2, <1>4, <1>6 DEF Shift, RaiseFlush, EndFlush, Hold, Alone
  <2>2. ~valid' /\ ~c_error'
    BY <1>1, <1>6 DEF Squash, Decode, Wait
  <2>3. pending' = None /\ Onward' = c_flush
    BY <1>1, <1>2, <1>6, FlushClears DEF Alone
  <2>4. fifo'.counter = 0
    <3>1. fifo' = Reset(fifo)
      BY <1>1, <1>6 DEF FetchFifo
    <3> QED
      BY <1>1, <3>1, ResetTyped DEF empty
  <2>5. Then(0)' = c_flush
    <3>1. Then(0)' = IF 0 < fifo'.counter THEN Word(fifo', 0 + 1).pc ELSE Behind'
      BY DEF Then
    <3> QED
      BY <2>3, <2>4, <3>1 DEF Behind
  <2> QED
    BY <1>3, <1>6, <2>1, <2>2, <2>5 DEF HereIs
<1>7. CASE flush = NoPc /\ c_flush = NoPc
  <2>1. ex' = ex /\ flush' = NoPc /\ c_flush' = NoPc
    BY <1>4, <1>7 DEF Shift, RaiseFlush, EndFlush, Hold
  <2>2. ~Accepts(wrb_next)
    BY <1>4 DEF Shift, RaiseFlush, EndFlush, Hold, Accepts, alu_next, dec_valid
  <2>3. CASE c_error
    <3>1. dec' = dec /\ c_error'
      BY <1>1, <1>7, <2>3 DEF Squash, Decode, Wait
    <3> QED
      BY <1>3, <1>7, <2>1, <2>3, <3>1 DEF HereIs
  <2>4. CASE valid
    <3>1. ~c_error
      BY <1>2, <2>4 DEF DecodedInPlace
    <3>2. ~dec_next(wrb_next)
      BY <1>7, <2>2, <2>4 DEF Accepts, dec_valid, dec_next
    <3>3. dec' = dec /\ valid'
      BY <1>1, <1>7, <2>4, <3>1, <3>2, DecodeTakes DEF DecodeOK
    <3> QED
      BY <1>3, <1>7, <2>1, <2>4, <3>3 DEF HereIs
  <2>5. CASE ~valid /\ ~c_error
    <3>1. Here = Then(0)
      BY <1>3, <1>7, <2>5 DEF HereIs
    <3>2. CASE dec_next(wrb_next) /\ ~empty(fifo)
      <4>1. dec'.pc = rd_data(fifo).pc /\ (valid' \/ c_error')
        BY <1>1, <1>7, <2>5, <3>2, DecodeTakes DEF DecodeOK
      <4>2. Then(0) = rd_data(fifo).pc
        BY <1>1, <1>2, <3>2, ShownThen
      <4> QED
        BY <1>3, <2>1, <3>1, <4>1, <4>2 DEF HereIs
    <3>3. CASE ~(dec_next(wrb_next) /\ ~empty(fifo))
      <4>1. ~valid' /\ ~c_error'
        BY <1>1, <1>7, <2>5, <3>3, DecodeTakes DEF DecodeOK
      <4>2. Then(0)' = Then(0)
        BY <1>1, <1>2, <1>7, <2>1, <3>3, ThenStays
      <4> QED
        BY <1>3, <2>1, <3>1, <4>1, <4>2 DEF HereIs
    <3> QED
      BY <3>2, <3>3
  <2> QED
    BY <2>3, <2>4, <2>5
<1> QED
  BY <1>5, <1>6, <1>7

(* Bursts, jumps followed ahead and flushes at any clock lose, repeat or   *)
(* reorder no instruction, and none is executed on the wrong path; a reset *)
(* of a quiet core starts the program again, and nothing else does.        *)
THEOREM PipelineImplementsMachine == Spec => ImplementsMachine
<1>1. Init => Abstract!Init
  <2> SUFFICES ASSUME Init PROVE Abstract!Init
    OBVIOUS
  <2>1. ~Over /\ program \in Programs /\ run = 0
    BY DEF Init, FetchInit, Over
  <2>2. ex.pc = NoPc
    BY DEF Init, ExecuteInit, None
  <2>3. Here = 0
    BY DEF Init, FetchInit, ExecuteInit, Here, InitFifo, empty
  <2> QED
    BY <2>1, <2>2, <2>3 DEF Abstract!Init, Abstract!NoPc, NoPc
<1>2. IInv /\ IInv' /\ [Next]_vars => [Abstract!Next]_(Abstract!vars)
  <2> SUFFICES ASSUME IInv, IInv', [Next]_vars
               PROVE  Abstract!Next \/ UNCHANGED Abstract!vars
    OBVIOUS
  <2>1. Here \in Pcs /\ Here # NoPc
    BY HereThen, PcsTyped
  <2>2. ASSUME UNCHANGED vars PROVE UNCHANGED Abstract!vars
    BY <2>2 DEF vars, fetchVars, decodeVars, aluVars, Abstract!vars, Over, Here, empty, rd_data
  <2>3. ASSUME Over', program' = program
        PROVE  Abstract!Break
    BY <2>3 DEF Abstract!Break, Abstract!NoPc, NoPc
  <2>4. ASSUME CoreReset PROVE Abstract!Next \/ UNCHANGED Abstract!vars
    <3>1. program' = program /\ ~Over
      BY <2>4 DEF CoreReset, FetchReset
    <3>2. CASE Over'
      BY <2>3, <3>1, <3>2 DEF Abstract!Next
    <3>3. CASE ~Over'
      <4>1. Quiet
        BY <2>4, <3>3 DEF CoreReset, Over
      <4>2. /\ fifo' = Reset(fifo) /\ pending' = None /\ flush_pc' = NoPc /\ next_pc' = 0
            /\ flush' = NoPc /\ c_flush' = NoPc /\ ~valid' /\ ~c_error' /\ ex' = ex
            /\ run' = run + 1
        BY <2>4, <4>1 DEF CoreReset, FetchReset, ExecuteReset, Quiet
      <4>3. empty(fifo')
        BY <4>2, ResetTyped DEF IInv, TypeOK
      <4>4. Here' = 0
        BY <4>2, <4>3 DEF Here
      <4> QED
        BY <2>1, <3>1, <3>3, <4>2, <4>4 DEF Abstract!Next, Abstract!Restart, Abstract!NoPc, NoPc
    <3> QED
      BY <3>2, <3>3
  <2>5. ASSUME NEW fetched \in BOOLEAN, NEW served \in BOOLEAN, Tick(fetched, served)
        PROVE  Abstract!Next \/ UNCHANGED Abstract!vars
    <3>1. program' = program /\ run' = run /\ ~Over /\ (Overruns => Over')
      BY <2>5, TickParts DEF Tick, Fetch
    <3>2. CASE Over'
      BY <2>3, <3>1, <3>2 DEF Abstract!Next
    <3>3. CASE ~Over' /\ Accept(wrb_next)
      <4>1. /\ Here = dec.pc /\ ex'.pc = dec.pc /\ program[dec.pc].kind # "bad"
            /\ Here' \in Abstract!Successors(program[dec.pc], dec.pc)
        BY <2>5, <3>1, <3>3, AcceptExecutes
      <4> QED
        BY <2>1, <3>1, <3>3, <4>1 DEF Abstract!Next, Abstract!Execute, Abstract!NoPc, NoPc
    <3>4. CASE ~Over' /\ ~Accept(wrb_next)
      <4>1. Here' = Here /\ ex' = ex
        BY <2>5, <3>1, <3>4, OtherwiseStays
      <4> QED
        BY <3>1, <3>4, <4>1 DEF Abstract!vars
    <3> QED
      BY <3>2, <3>3, <3>4
  <2> QED
    BY <2>2, <2>4, <2>5 DEF Next, Ended
<1> QED
  BY <1>1, <1>2, Inductive, PTL DEF Spec, ImplementsMachine, Abstract!Spec

-----------------------------------------------------------------------------
(* The scoreboard: what it holds is what is executing.                     *)

\* How far a place is ahead of the read pointer; the place of the i-th
\* destination, the oldest first; and the destination.
Offset(b, s) == IF s >= b.rd_ptr THEN s - b.rd_ptr ELSE s + BOARD_DEPTH - b.rd_ptr
Spot(b, i) == (b.rd_ptr + i - 1) % BOARD_DEPTH
Dst(b, i) == b.data[Spot(b, i)]

\* The valid places are those of the destinations, and they are counted.
Held(b) == {s \in Places : b.valid[s]}
Ringed(b) ==
    /\ b.wr_ptr = (b.rd_ptr + b.counter) % BOARD_DEPTH
    /\ \A s \in Places : b.valid[s] <=> Offset(b, s) < b.counter
    /\ b.counter = Cardinality(Held(b))

\* The instructions in flight: one in the ALU, one in write-back, one that has
\* left it and one whose end the scoreboard is told of.
One(p) == IF p THEN 1 ELSE 0
InExecute == alu_valid \/ shift_stage = 1 \/ flush # NoPc
Even ==
    /\ board.counter = One(InExecute) + One(axi_stage # 0) + One(o_finish) + One(finish)
    /\ InExecute => Dst(board, board.counter) = ex.instr.rd
    /\ axi_stage # 0 =>
          /\ ~o_finish
          /\ Dst(board, board.counter - One(InExecute)) = access.instr.rd
    /\ o_wr # 0 => o_finish /\ Dst(board, board.counter - One(InExecute)) = o_wr

\* Behind a flush or a reset: ends are told of that nothing waits for, until
\* the first instruction comes.
Aftermath ==
    /\ board.counter = 0
    /\ ~InExecute /\ axi_stage = 0 /\ ~valid
    /\ o_finish => fifo.counter = 0

InStep ==
    "torn" \notin lost =>
        /\ Ringed(board)
        /\ c_flush # NoPc \/ "restarted" \in lost => board.counter = 0
        /\ "restarted" \in lost => ~valid
        /\ c_flush = NoPc /\ "restarted" \notin lost => Even \/ Aftermath

-----------------------------------------------------------------------------
(* The ring.                                                               *)

\* How far s is ahead of r in a ring of depth D.
Ahead(D, r, s) == IF s >= r THEN s - r ELSE s + D - r

\* With c places taken from r on, d of which are given up at r and k taken at
\* W, just behind them, the places taken are again those from R on.
AheadKeeps(D, r, c, d, k, R, W) ==
    /\ W \in 0..(D - 1)
    /\ c < D => ~(Ahead(D, r, W) < c)
    /\ c >= 1 => Ahead(D, r, r) < c
    /\ \A s \in 0..(D - 1) :
         (Ahead(D, r, s) < c /\ ~(d = 1 /\ s = r)) \/ (k = 1 /\ s = W)
            <=> Ahead(D, R, s) < c - d + k

LEMMA AheadRing ==
    ASSUME NEW D \in Nat \ {0}, NEW r \in 0..(D - 1), NEW c \in 0..D,
           NEW d \in 0..1, NEW k \in 0..1, d <= c, k = 1 => c < D,
           NEW R, R = (r + d) % D, NEW W, W = (r + c) % D
    PROVE  AheadKeeps(D, r, c, d, k, R, W)
<1>1. /\ R = IF r + d < D THEN r + d ELSE r + d - D
      /\ W = IF r + c < D THEN r + c ELSE r + c - D
  <2> DEFINE x == r + d
  <2> DEFINE y == r + c
  <2>1. x \in Nat /\ x < 2 * D /\ y \in Nat /\ y < 2 * D /\ R = x % D /\ W = y % D
    OBVIOUS
  <2>2. /\ R = IF x < D THEN x ELSE x - D
        /\ W = IF y < D THEN y ELSE y - D
    <3> HIDE DEF x, y
    <3>1. x % D = IF x < D THEN x ELSE x - D
      BY <2>1, Wraps
    <3>2. y % D = IF y < D THEN y ELSE y - D
      BY <2>1, Wraps
    <3> QED
      BY <2>1, <3>1, <3>2
  <2> QED
    BY <2>2
<1>2. R \in 0..(D - 1) /\ W \in 0..(D - 1)
  BY <1>1
<1>3. c < D => ~(Ahead(D, r, W) < c)
  BY <1>1, <1>2 DEF Ahead
<1>4. c >= 1 => Ahead(D, r, r) < c
  BY DEF Ahead
<1>5. ASSUME NEW s \in 0..(D - 1)
      PROVE  (Ahead(D, r, s) < c /\ ~(d = 1 /\ s = r)) \/ (k = 1 /\ s = W)
                <=> Ahead(D, R, s) < c - d + k
  <2>1. CASE d = 0
    BY <1>1, <1>2, <2>1 DEF Ahead
  <2>2. CASE d = 1
    BY <1>1, <1>2, <2>2 DEF Ahead
  <2> QED
    BY <2>1, <2>2
<1> QED
  BY <1>2, <1>3, <1>4, <1>5 DEF AheadKeeps

LEMMA PlacesFinite == IsFiniteSet(Places) /\ \A S \in SUBSET Places : IsFiniteSet(S)
<1>1. IsFiniteSet(0..(BOARD_DEPTH - 1))
  BY FS_Interval, BoardAssumption
<1> QED
  BY <1>1, FS_Subset DEF Places

\* A clock of the scoreboard that refuses nothing and reads no empty ring.
LEMMA PostedRing ==
    ASSUME NEW b \in Boards(Regs), Ringed(b), NEW rd_en \in BOOLEAN, NEW wr_en \in BOOLEAN,
           NEW rd \in Regs, rd_en => b.counter >= 1, wr_en => b.counter < BOARD_DEPTH,
           NEW p, p = Posted(b, rd_en, wr_en, rd)
    PROVE  /\ Ringed(p) /\ p.counter = b.counter - One(rd_en) + One(wr_en)
           /\ \A i \in 1..(b.counter - One(rd_en)) : Dst(p, i) = Dst(b, i + One(rd_en))
           /\ wr_en => Dst(p, p.counter) = rd
<1> DEFINE D == BOARD_DEPTH
<1> DEFINE r == b.rd_ptr
<1> DEFINE c == b.counter
<1> DEFINE W == b.wr_ptr
<1> DEFINE R == p.rd_ptr
<1> DEFINE d == One(rd_en)
<1> DEFINE k == One(wr_en)
<1>1. /\ r \in 0..(D - 1) /\ c \in 0..D /\ D \in Nat \ {0} /\ W \in Places
      /\ b.data \in [Places -> Regs] /\ b.valid \in [Places -> BOOLEAN]
  BY BoardAssumption DEF Boards, Places
<1>2. d \in 0..1 /\ k \in 0..1 /\ d <= c /\ (k = 1 => c < D)
      /\ (d = 1 <=> rd_en) /\ (k = 1 <=> wr_en)
  BY <1>1 DEF One
<1>3. (rd_en /\ b.counter # 0 <=> rd_en) /\ (wr_en /\ b.counter # BOARD_DEPTH <=> wr_en)
  BY <1>1
<1>4. /\ p.data = IF wr_en THEN [b.data EXCEPT ![W] = rd] ELSE b.data
      /\ p.valid = [s \in Places |->
                      b.valid[s] # ((rd_en /\ b.counter # 0 /\ s = r)
                                      # (wr_en /\ b.counter # BOARD_DEPTH /\ s = W))]
      /\ p.wr_ptr = IF wr_en THEN After(W) ELSE W
      /\ R = IF rd_en THEN After(r) ELSE r
      /\ p.counter = IF rd_en /\ wr_en THEN c
                     ELSE c + (IF wr_en THEN 1 ELSE 0) - (IF rd_en THEN 1 ELSE 0)
  BY <1>3 DEF Posted
<1>5. p.counter = c - d + k
  BY <1>1, <1>4 DEF One
<1>6. R = (r + d) % D
  <2>1. r % D = r /\ r + 0 = r
    BY <1>1, Placed
  <2> QED
    BY <1>4, <2>1 DEF One, After
<1>7. p.wr_ptr = (W + k) % D
  <2>1. W % D = W /\ W + 0 = W
    BY <1>1, Placed DEF Places
  <2> QED
    BY <1>4, <2>1 DEF One, After
<1>8. W = (r + c) % D
  BY DEF Ringed
<1>9. RingKeeps(D, r, c, d, k, R, W) /\ AheadKeeps(D, r, c, d, k, R, W)
  <2> HIDE DEF D, r, c, d, k, R, W
  <2> QED
    BY <1>1, <1>2, <1>6, <1>8, Ring, AheadRing
<1>10. /\ \A i \in 1..(c - d) : Spot(p, i) = Spot(b, i + d)
       /\ c < D => \A i \in 1..c : Spot(b, i) # W
       /\ k = 1 => Spot(p, c - d + k) = W
       /\ p.wr_ptr = (R + (c - d + k)) % D
  <2> HIDE DEF c, d, k, W
  <2> QED
    BY <1>7, <1>9, Zenon DEF RingKeeps, Spot, r, R, D
<1>11. ASSUME NEW i \in 1..(c - d)
       PROVE  Dst(p, i) = Dst(b, i + d)
  <2>1. i + d \in 1..c
    <3> HIDE DEF c, d
    <3> QED
      BY <1>1, <1>2
  <2>2. Spot(p, i) = Spot(b, i + d) /\ (wr_en => Spot(b, i + d) # W)
    BY <1>2, <1>10, <2>1
  <2> QED
    BY <1>1, <1>4, <2>2 DEF Dst
<1>12. wr_en => Dst(p, p.counter) = rd
  <2>1. wr_en => Spot(p, p.counter) = W
    BY <1>2, <1>5, <1>10
  <2>2. wr_en => p.data = [b.data EXCEPT ![W] = rd]
    BY <1>4
  <2>3. W \in Places /\ b.data \in [Places -> Regs]
    BY <1>1
  <2>4. wr_en => p.data[W] = rd
    <3> HIDE DEF W
    <3> QED
      BY <2>2, <2>3
  <2> QED
    BY <2>1, <2>4 DEF Dst
<1>13. \A s \in Places : b.valid[s] <=> Ahead(D, r, s) < c
  BY DEF Ringed, Offset, Ahead
<1>14. /\ \A s \in Places : (Ahead(D, r, s) < c /\ ~(d = 1 /\ s = r)) \/ (k = 1 /\ s = W)
                              <=> Ahead(D, R, s) < c - d + k
       /\ c < D => ~b.valid[W]
       /\ c >= 1 => b.valid[r]
  BY <1>1, <1>9, <1>13, Zenon DEF AheadKeeps, Places
<1>15. \A s \in Places : p.valid[s] <=> (b.valid[s] /\ ~(rd_en /\ s = r)) \/ (wr_en /\ s = W)
  <2>1. (wr_en => ~b.valid[W]) /\ (rd_en => b.valid[r])
    BY <1>1, <1>2, <1>14
  <2>2. ASSUME NEW s \in Places
        PROVE  p.valid[s] <=> (b.valid[s] /\ ~(rd_en /\ s = r)) \/ (wr_en /\ s = W)
    <3>1. p.valid[s] <=> (b.valid[s] # ((rd_en /\ s = r) # (wr_en /\ s = W)))
      BY <1>3, <1>4
    <3>2. b.valid[s] \in BOOLEAN
      BY <1>1
    <3> QED
      BY <2>1, <3>1, <3>2
  <2> QED
    BY <2>2
<1>16. \A s \in Places : p.valid[s] <=> Offset(p, s) < p.counter
  <2> HIDE DEF c, d, k
  <2> QED
    BY <1>2, <1>5, <1>13, <1>14, <1>15 DEF Offset, Ahead
<1>17. p.counter = Cardinality(Held(p))
  <2>1. Held(p) = (Held(b) \ (IF rd_en THEN {r} ELSE {})) \cup (IF wr_en THEN {W} ELSE {})
    BY <1>1, <1>15 DEF Held, Places
  <2>2. c = Cardinality(Held(b)) /\ IsFiniteSet(Held(b))
    BY PlacesFinite DEF Ringed, Held
  <2> DEFINE H == Held(b) \ (IF rd_en THEN {r} ELSE {})
  <2>3. IsFiniteSet(H) /\ Cardinality(H) = c - d
    <3>1. rd_en => r \in Held(b)
      BY <1>1, <1>14 DEF Held, Places
    <3>2. IsFiniteSet(Held(b) \ {r})
          /\ Cardinality(Held(b) \ {r}) = IF r \in Held(b) THEN Cardinality(Held(b)) - 1
                                          ELSE Cardinality(Held(b))
      BY <2>2, FS_RemoveElement
    <3>3. ~rd_en => H = Held(b)
      OBVIOUS
    <3>4. rd_en => H = Held(b) \ {r}
      OBVIOUS
    <3>5. c - 0 = c
      BY <1>1
    <3> HIDE DEF H
    <3> QED
      BY <2>2, <3>1, <3>2, <3>3, <3>4, <3>5 DEF One
  <2>4. wr_en => W \notin H
    BY <1>2, <1>14 DEF Held
  <2>5. /\ IsFiniteSet(H \cup {W})
        /\ Cardinality(H \cup {W}) = IF W \in H THEN Cardinality(H) ELSE Cardinality(H) + 1
    <3> HIDE DEF H
    <3> QED
      BY <2>3, FS_AddElement
  <2>6. ~wr_en => Held(p) = H
    BY <2>1
  <2>7. wr_en => Held(p) = H \cup {W}
    BY <2>1
  <2> HIDE DEF H
  <2> QED
    BY <1>1, <1>2, <1>5, <2>3, <2>4, <2>5, <2>6, <2>7, SMTT(30) DEF One
<1>18. Ringed(p)
  BY <1>5, <1>10, <1>16, <1>17 DEF Ringed
<1> QED
  BY <1>5, <1>11, <1>12, <1>18

\* An empty ring.
LEMMA ResetRing ==
    ASSUME NEW b \in Boards(Regs), NEW p, p = BoardReset(b)
    PROVE  Ringed(p) /\ p.counter = 0
<1>1. /\ p.counter = 0 /\ p.wr_ptr = 0 /\ p.rd_ptr = 0
      /\ \A s \in Places : ~p.valid[s]
  BY DEF BoardReset, EmptyBoard
<1>2. 0 % BOARD_DEPTH = 0 /\ 0 + 0 = 0
  BY BoardAssumption, Placed
<1>3. ASSUME NEW s \in Places PROVE ~(Offset(p, s) < 0)
  BY <1>1, BoardAssumption DEF Offset, Places
<1>4. Held(p) = {}
  BY <1>1 DEF Held
<1> QED
  BY <1>1, <1>2, <1>3, <1>4, FS_EmptySet DEF Ringed


\* A read of an empty ring is refused.
LEMMA RefusedRing ==
    ASSUME NEW b \in Boards(Regs), Ringed(b), b.counter = 0,
           NEW rd_en \in BOOLEAN, NEW wr_en \in BOOLEAN, ~wr_en,
           NEW rd \in Regs, NEW p, p = Posted(b, rd_en, wr_en, rd)
    PROVE  Ringed(p) /\ p.counter = 0
<1>1. p = Posted(b, wr_en, wr_en, rd)
  BY DEF Posted
<1>2. Ringed(p) /\ p.counter = b.counter - One(wr_en) + One(wr_en)
  BY <1>1, PostedRing
<1>3. One(wr_en) = 0
  BY DEF One
<1> QED
  BY <1>2, <1>3

\* A destination is held in a valid place.
LEMMA SpotHeld ==
    ASSUME NEW b \in Boards(Regs), Ringed(b), NEW i \in 1..b.counter
    PROVE  Spot(b, i) \in Places /\ b.valid[Spot(b, i)]
<1> DEFINE D == BOARD_DEPTH
<1> DEFINE x == b.rd_ptr + i - 1
<1>1. /\ b.rd_ptr \in 0..(D - 1) /\ b.counter \in 0..D /\ D \in Nat \ {0}
      /\ i - 1 < b.counter /\ i - 1 \in Nat
  BY BoardAssumption DEF Boards, Places
<1>2. x \in Nat /\ x < 2 * D /\ x - b.rd_ptr = i - 1
  BY <1>1
<1>3. Spot(b, i) = IF x < D THEN x ELSE x - D
  <2>1. Spot(b, i) = x % D
    BY DEF Spot
  <2> HIDE DEF x, D
  <2> QED
    BY <1>1, <1>2, <2>1, Wraps
<1>4. Spot(b, i) \in Places
  BY <1>1, <1>2, <1>3 DEF Places
<1>5. Offset(b, Spot(b, i)) < b.counter
  <2> HIDE DEF x
  <2> QED
    BY <1>1, <1>2, <1>3 DEF Offset
<1> QED
  BY <1>4, <1>5 DEF Ringed

-----------------------------------------------------------------------------
(* The stages.                                                             *)

\* Of the ALU's instructions one leaves when write-back takes it, and one comes
\* when the decoder's is accepted.
Taken == axi_stage = 0 /\ alu_valid

LEMMA ExecuteGoesOn ==
    ASSUME AluOK, DecodedInPlace, Alone, Owing, Alu(wrb_next), c_flush = NoPc, c_flush' = NoPc
    PROVE  /\ Accepts(wrb_next) => /\ InExecute' /\ ex' = dec
                                   /\ axi_stage = 0 /\ (InExecute <=> Taken)
           /\ ~Accepts(wrb_next) => /\ InExecute' <=> InExecute /\ ~Taken
                                    /\ ex' = ex
<1>1. /\ alu_valid \in BOOLEAN /\ shift_stage \in {0, 1}
      /\ wrb_next <=> axi_stage = 0
      /\ shift_stage = 1 \/ flush # NoPc => ~alu_valid
  BY DEF AluOK, wrb_next, Owing
<1>2. CASE Accept(wrb_next)
  <2>1. /\ Accepts(wrb_next) /\ shift_stage = 0 /\ flush = NoPc /\ axi_stage = 0 /\ ex' = dec
    BY <1>1, <1>2 DEF Accept, Accepts, alu_next
  <2>2. InExecute'
    BY <1>2 DEF Accept, InExecute
  <2> QED
    BY <2>1, <2>2 DEF InExecute, Taken
<1>3. CASE Shift(wrb_next)
  <2>1. ~Accepts(wrb_next)
    BY <1>3 DEF Shift, Accepts, alu_next
  <2> QED
    BY <1>1, <1>3, <2>1 DEF Shift, InExecute, Taken
<1>4. CASE RaiseFlush(wrb_next)
  BY <1>4 DEF RaiseFlush
<1>5. CASE EndFlush(wrb_next)
  BY <1>5 DEF EndFlush
<1>6. CASE Hold(wrb_next)
  BY <1>1, <1>6 DEF Hold, InExecute, Taken
<1> QED
  BY <1>2, <1>3, <1>4, <1>5, <1>6 DEF Alu

\* Write-back has one instruction at a time, and says so when it leaves.
LEMMA WriteBackGoesOn ==
    ASSUME WriteBackOK, AluOK, Owing, NEW served \in BOOLEAN, WriteBack(alu_valid, ex, served),
           axi_stage # 0 => ~o_finish /\ o_wr = 0
    PROVE  /\ ~Taken /\ axi_stage = 0 => axi_stage' = 0 /\ ~o_finish' /\ o_wr' = 0
           /\ Taken => \/ axi_stage' # 0 /\ access' = ex /\ ~o_finish' /\ o_wr' = 0
                       \/ axi_stage' = 0 /\ o_finish' /\ o_wr' \in {ex.instr.rd, 0}
           /\ axi_stage # 0 => \/ axi_stage' # 0 /\ access' = access /\ ~o_finish' /\ o_wr' = 0
                               \/ axi_stage' = 0 /\ o_finish' /\ o_wr' \in {access.instr.rd, 0}
           /\ Taken /\ ~InMemory(ex.instr) => axi_stage' = 0
<1>1. alu_valid \in BOOLEAN /\ (wrb_error => axi_stage # 0)
  BY DEF AluOK, Owing
<1>2. CASE UNCHANGED wrbVars /\ axi_stage # 0
  BY <1>2 DEF wrbVars, Taken
<1>3. CASE Take(alu_valid, ex)
  <2>1. axi_stage = 0 /\ (Taken <=> alu_valid)
    BY <1>3 DEF Take, Taken
  <2>2. CASE alu_valid /\ InMemory(ex.instr)
    <3>1. axi_stage' # 0 /\ access' = ex
      BY <1>3, <2>2 DEF Take
    <3>2. ~o_finish' /\ o_wr' = 0
      BY <1>3, <2>2 DEF Take
    <3> QED
      BY <2>1, <2>2, <3>1, <3>2
  <2>3. CASE alu_valid /\ ~InMemory(ex.instr)
    BY <1>3, <2>1, <2>3 DEF Take
  <2>4. CASE ~alu_valid
    BY <1>3, <2>1, <2>4 DEF Take
  <2> QED
    BY <1>1, <2>2, <2>3, <2>4
<1>4. CASE LoadAddress(served)
  BY <1>4 DEF LoadAddress, Taken
<1>5. ASSUME NEW resp \in Faults, LoadData(resp) \/ StoreResponse(resp)
      PROVE  /\ axi_stage # 0
             /\ \/ axi_stage' # 0 /\ access' = access /\ ~o_finish' /\ o_wr' = 0
                \/ axi_stage' = 0 /\ o_finish' /\ o_wr' \in {access.instr.rd, 0}
  <2>1. axi_stage # 0
    BY <1>5 DEF LoadData, StoreResponse
  <2>2. CASE Fail
    BY <2>1, <2>2 DEF Fail
  <2>3. CASE Done(access.instr.rd)
    BY <2>1, <2>3 DEF Done
  <2>4. CASE Done(o_wr)
    BY <2>1, <2>4 DEF Done
  <2> QED
    BY <1>5, <2>1, <2>2, <2>3, <2>4 DEF LoadData, StoreResponse
<1>6. ASSUME NEW awready \in BOOLEAN, NEW wready \in BOOLEAN, StoreRequest(awready, wready)
      PROVE  /\ axi_stage # 0
             /\ axi_stage' # 0 /\ access' = access /\ ~o_finish' /\ o_wr' = 0
  BY <1>6 DEF StoreRequest
<1> QED
  BY <1>1, <1>2, <1>3, <1>4, <1>5, <1>6 DEF WriteBack, Taken

\* Without a flush the scoreboard keeps count of the instructions in flight.
LEMMA EvenStep ==
    ASSUME BOARD_DEPTH >= 4,
           AluOK, DecodeOK, BoardOK, WriteBackOK, DecodedInPlace, Alone, Owing,
           Ringed(board), Even, c_flush = NoPc, c_flush' = NoPc,
           NEW served \in BOOLEAN,
           Alu(wrb_next), WriteBack(alu_valid, ex, served), Post(wrb_next, o_finish)
    PROVE  Ringed(board') /\ Even'
<1> DEFINE acc == Accepts(wrb_next)
<1> DEFINE rd == dec.instr.rd
<1> DEFINE n == board.counter
<1> DEFINE f == One(finish)
<1> DEFINE A == One(InExecute)
<1> DEFINE M == One(axi_stage # 0)
<1> DEFINE O == One(o_finish)
<1> DEFINE e == One(Taken)
<1>1. /\ board \in Boards(Regs) /\ n \in 0..BOARD_DEPTH /\ finish \in BOOLEAN
      /\ rd \in Regs /\ acc \in BOOLEAN /\ o_finish \in BOOLEAN
      /\ finish' = o_finish /\ board' = Posted(board, finish, acc, rd)
  <2>1. rd \in Regs
    BY FetchedOrNone, InstructionParts DEF DecodeOK
  <2>2. board \in Boards(Regs) /\ n \in 0..BOARD_DEPTH /\ finish \in BOOLEAN
    BY DEF BoardOK, Boards
  <2>3. acc \in BOOLEAN /\ o_finish \in BOOLEAN
    BY DEF Accepts, WriteBackOK
  <2> QED
    BY <2>1, <2>2, <2>3 DEF Post
<1>2. /\ acc => InExecute' /\ ex' = dec /\ axi_stage = 0 /\ (InExecute <=> Taken)
      /\ ~acc => (InExecute' <=> InExecute /\ ~Taken) /\ ex' = ex
  BY ExecuteGoesOn
<1>3. /\ ~Taken /\ axi_stage = 0 => axi_stage' = 0 /\ ~o_finish' /\ o_wr' = 0
      /\ Taken => \/ axi_stage' # 0 /\ access' = ex /\ ~o_finish' /\ o_wr' = 0
                  \/ axi_stage' = 0 /\ o_finish' /\ o_wr' \in {ex.instr.rd, 0}
      /\ axi_stage # 0 => \/ axi_stage' # 0 /\ access' = access /\ ~o_finish' /\ o_wr' = 0
                          \/ axi_stage' = 0 /\ o_finish' /\ o_wr' \in {access.instr.rd, 0}
  <2>1. axi_stage # 0 => ~o_finish /\ o_wr = 0
    BY DEF Even
  <2> QED
    BY <2>1, WriteBackGoesOn
<1>4. /\ n = A + M + O + f
      /\ A \in 0..1 /\ M \in 0..1 /\ O \in 0..1 /\ f \in 0..1 /\ e \in 0..1
      /\ (A = 1 <=> InExecute) /\ (M = 1 <=> axi_stage # 0) /\ (O = 1 <=> o_finish)
      /\ (f = 1 <=> finish) /\ (e = 1 <=> Taken)
  BY <1>1 DEF Even, One
<1>5. (Taken => InExecute /\ M = 0) /\ (M = 1 => O = 0)
  BY <1>4 DEF Taken, InExecute, Even, One
<1>6. (finish => n >= 1) /\ (acc => n < BOARD_DEPTH)
  <2>1. acc => M = 0
    BY <1>2, <1>4
  <2>2. n \in Nat /\ BOARD_DEPTH \in Nat
    BY <1>1, BoardAssumption
  <2> HIDE DEF acc, A, M, O, f, e, n
  <2>3. finish => n >= 1
    BY <1>4
  <2>4. M = 0 => n < BOARD_DEPTH
    BY <1>4, <2>2
  <2> QED
    BY <2>1, <2>3, <2>4
<1>7. /\ Ringed(board') /\ board'.counter = n - f + One(acc)
      /\ \A i \in 1..(n - f) : Dst(board', i) = Dst(board, i + f)
      /\ acc => Dst(board', board'.counter) = rd
  <2> HIDE DEF acc, rd
  <2> QED
    BY <1>1, <1>6, PostedRing
<1>8. /\ InExecute => Dst(board, n) = ex.instr.rd
      /\ axi_stage # 0 => Dst(board, n - A) = access.instr.rd
      /\ o_wr # 0 => o_finish /\ Dst(board, n - A) = o_wr
  BY DEF Even
<1> DEFINE q == n - f - (A - e)
<1>9. /\ One(axi_stage' # 0) + One(o_finish') = e + M
      /\ One(InExecute') = A - e + One(acc)
      /\ board'.counter - One(InExecute') = q
  <2>1. One(axi_stage' # 0) + One(o_finish') = e + M
    BY <1>3, <1>4, <1>5 DEF One
  <2>2. One(InExecute') = A - e + One(acc)
    BY <1>1, <1>2, <1>4, <1>5 DEF One
  <2>3. One(acc) \in 0..1
    BY DEF One
  <2> HIDE DEF acc, A, e, f
  <2> QED
    BY <1>1, <1>4, <1>7, <2>1, <2>2, <2>3
<1>10. board'.counter = One(InExecute') + One(axi_stage' # 0) + One(o_finish') + One(finish')
  <2> DEFINE A2 == One(InExecute')
  <2> DEFINE M2 == One(axi_stage' # 0)
  <2> DEFINE O2 == One(o_finish')
  <2> DEFINE k == One(acc)
  <2>1. One(finish') = O
    BY <1>1
  <2>2. k \in 0..1 /\ M2 \in 0..1 /\ O2 \in 0..1 /\ A2 = A - e + k /\ M2 + O2 = e + M
        /\ board'.counter = n - f + k
    BY <1>7, <1>9 DEF One
  <2>3. n = A + M + O + f /\ A \in 0..1 /\ M \in 0..1 /\ O \in 0..1 /\ f \in 0..1 /\ e \in 0..1
    BY <1>4
  <2>4. board'.counter = A2 + M2 + O2 + O
    <3> HIDE DEF A2, M2, O2, k, A, e, f, M, O, n
    <3> QED
      BY <2>2, <2>3
  <2> QED
    BY <2>1, <2>4
<1>11. /\ Taken => q \in 1..(n - f) /\ q + f = n
       /\ axi_stage # 0 => q \in 1..(n - f) /\ q + f = n - A
  <2> HIDE DEF A, e, f, M, O
  <2> QED
    BY <1>1, <1>4, <1>5
<1>12. /\ Taken => Dst(board', q) = ex.instr.rd
       /\ axi_stage # 0 => Dst(board', q) = access.instr.rd
  <2> HIDE DEF A, f, q, n
  <2> QED
    BY <1>5, <1>7, <1>8, <1>11
<1>13. InExecute' => Dst(board', board'.counter) = ex'.instr.rd
  <2>1. CASE acc
    BY <1>2, <1>7, <2>1
  <2>2. CASE ~acc /\ InExecute'
    <3>1. InExecute /\ ex' = ex /\ n - f \in 1..(n - f) /\ n - f + f = n
          /\ board'.counter = n - f
      <4>1. InExecute /\ ex' = ex /\ One(acc) = 0
        BY <1>2, <2>2 DEF One
      <4> HIDE DEF acc, A, f, M, O
      <4> QED
        BY <1>1, <1>4, <1>7, <4>1
    <3> HIDE DEF f, n
    <3> QED
      BY <1>7, <1>8, <3>1
  <2> QED
    BY <2>1, <2>2
<1>14. axi_stage' # 0 => ~o_finish' /\ Dst(board', q) = access'.instr.rd
  <2> HIDE DEF q
  <2> QED
    BY <1>3, <1>12 DEF Taken
<1>15. o_wr' # 0 => o_finish' /\ Dst(board', q) = o_wr'
  <2> HIDE DEF q
  <2> QED
    BY <1>3, <1>12 DEF Taken
<1>16. Even'
  <2> HIDE DEF q
  <2> QED
    BY <1>9, <1>10, <1>13, <1>14, <1>15 DEF Even
<1> QED
  BY <1>7, <1>16

\* Behind a flush or a reset nothing is executed until the ends of what was in
\* flight have been told of.
LEMMA AftermathStep ==
    ASSUME AluOK, DecodeOK, BoardOK, WriteBackOK, Owing, fifo \in Fifos(Fetched \cup {None}),
           Ringed(board), Aftermath, c_flush = NoPc,
           NEW served \in BOOLEAN, NEW word,
           Alu(wrb_next), WriteBack(alu_valid, ex, served), Post(wrb_next, o_finish),
           Squash \/ Decode(~empty(fifo), word, wrb_next) \/ Wait(~empty(fifo), wrb_next)
    PROVE  Ringed(board') /\ c_flush' = NoPc /\ (Even' \/ Aftermath')
<1>1. /\ board.counter = 0 /\ ~valid /\ axi_stage = 0 /\ ~Taken /\ ~InExecute
      /\ ~alu_valid /\ shift_stage = 0 /\ flush = NoPc /\ ~Accepts(wrb_next)
  BY DEF Aftermath, InExecute, Taken, Accepts, dec_valid, AluOK
<1>2. Hold(wrb_next)
  BY <1>1 DEF Alu, Accept, Shift, RaiseFlush, EndFlush
<1>3. ~InExecute' /\ c_flush' = NoPc
  BY <1>1, <1>2 DEF Hold, InExecute
<1>4. axi_stage' = 0 /\ ~o_finish' /\ o_wr' = 0
  BY <1>1, WriteBackGoesOn
<1>5. Ringed(board') /\ board'.counter = 0
  <2> DEFINE acc == Accepts(wrb_next)
  <2>1. dec.instr.rd \in Regs
    BY FetchedOrNone, InstructionParts DEF DecodeOK
  <2>2. board \in Boards(Regs) /\ finish \in BOOLEAN /\ acc \in BOOLEAN /\ ~acc
    BY <1>1 DEF BoardOK, Accepts
  <2>3. board' = Posted(board, finish, acc, dec.instr.rd)
    BY <1>3 DEF Post
  <2> HIDE DEF acc
  <2> QED
    BY <1>1, <2>1, <2>2, <2>3, RefusedRing
<1>6. CASE o_finish
  <2>1. empty(fifo)
    BY <1>6 DEF Aftermath, empty
  <2>2. ~valid'
    BY <1>1, <2>1 DEF Squash, Decode, Wait
  <2> QED
    BY <1>3, <1>4, <1>5, <2>2 DEF Aftermath
<1>7. CASE ~o_finish
  <2>1. ~finish'
    BY <1>7 DEF Post
  <2>2. One(InExecute') = 0 /\ One(axi_stage' # 0) = 0 /\ One(o_finish') = 0 /\ One(finish') = 0
    BY <1>3, <1>4, <2>1 DEF One
  <2> QED
    BY <1>3, <1>4, <1>5, <2>2 DEF Even
<1> QED
  BY <1>3, <1>5, <1>6, <1>7

\* The clock of a flush itself.
LEMMA FlushStep ==
    ASSUME AluOK, BoardOK, WriteBackOK, Alone, Owing, WidthsGoAlong, c_flush # NoPc, axi_stage = 0,
           fifo'.counter = 0, NEW served \in BOOLEAN, NEW word,
           Alu(wrb_next), WriteBack(alu_valid, ex, served), Post(wrb_next, o_finish),
           Squash \/ Decode(~empty(fifo), word, wrb_next) \/ Wait(~empty(fifo), wrb_next)
    PROVE  Ringed(board') /\ Aftermath'
<1>1. flush = NoPc /\ shift_stage = 0 /\ ~InMemory(ex.instr)
  BY DEF Alone, AluOK, WidthsGoAlong
<1>2. EndFlush(wrb_next)
  BY <1>1 DEF Alu, Accept, Accepts, dec_valid, Shift, RaiseFlush, Hold
<1>3. ~InExecute'
  BY <1>1, <1>2 DEF EndFlush, InExecute
<1>4. ~valid'
  BY DEF Squash, Decode, Wait
<1>5. axi_stage' = 0
  BY <1>1, WriteBackGoesOn DEF Taken
<1>6. Ringed(board') /\ board'.counter = 0
  BY ResetRing DEF Post, BoardOK
<1> QED
  BY <1>3, <1>4, <1>5, <1>6 DEF Aftermath

LEMMA InStepInit == Init => InStep
<1> SUFFICES ASSUME Init PROVE InStep
  OBVIOUS
<1>1. IInv
  BY InitHolds
<1>2. /\ ~valid /\ axi_stage = 0 /\ ~o_finish /\ lost = {} /\ c_flush = NoPc /\ ~InExecute
      /\ board = EmptyBoard
  BY DEF Init, ExecuteInit, WriteBackInit, InExecute
<1>3. board \in Boards(Regs)
  BY <1>1 DEF IInv, TypeOK
<1>4. board = BoardReset(board)
  BY <1>2 DEF BoardReset, EmptyBoard
<1>5. Ringed(board) /\ board.counter = 0
  BY <1>3, <1>4, ResetRing
<1> QED
  BY <1>2, <1>5 DEF InStep, Aftermath

LEMMA InStepReset == IInv /\ InStep /\ CoreReset => InStep'
<1> SUFFICES ASSUME IInv, CoreReset PROVE InStep'
  OBVIOUS
<1>1. /\ board' = BoardReset(board) /\ ~valid' /\ ~o_finish' /\ axi_stage' = axi_stage
      /\ c_flush' = NoPc /\ ~InExecute'
      /\ lost' = IF Quiet THEN lost ELSE lost \cup {"restarted"}
  BY DEF CoreReset, ExecuteReset, WriteBackReset, InExecute
<1>2. board \in Boards(Regs)
  BY DEF IInv, TypeOK
<1>3. Ringed(board') /\ board'.counter = 0
  BY <1>1, <1>2, ResetRing
<1>4. "restarted" \notin lost' => axi_stage' = 0
  BY <1>1 DEF Quiet
<1> QED
  BY <1>1, <1>3, <1>4 DEF InStep, Aftermath

LEMMA InStepTick ==
    ASSUME BOARD_DEPTH >= 4, IInv, InStep,
           NEW fetched \in BOOLEAN, NEW served \in BOOLEAN, Tick(fetched, served)
    PROVE  InStep'
<1>1. /\ DecodeOK /\ BoardOK /\ AluOK /\ WriteBackOK
      /\ fifo \in Fifos(Fetched \cup {None}) /\ ~Over /\ Wf(fifo)
      /\ Alu(wrb_next) /\ WriteBack(alu_valid, ex, served)
      /\ FetchFifo(c_flush, c_flush' # NoPc, dec_next(wrb_next))
      /\ Squash \/ Decode(~empty(fifo), rd_data(fifo), wrb_next) \/ Wait(~empty(fifo), wrb_next)
      /\ Post(wrb_next, o_finish) /\ Watch
  BY TickParts
<1>2. Alone /\ Owing /\ WidthsGoAlong /\ DecodedInPlace /\ PendingInPlace /\ FifoInPlace
  BY DEF IInv
<1>3. /\ "torn" \notin lost' => "torn" \notin lost /\ ~Tears
      /\ "restarted" \notin lost /\ "restarted" \notin lost'
  BY <1>1 DEF Watch, Over
<1> SUFFICES ASSUME "torn" \notin lost'
             PROVE  /\ Ringed(board')
                    /\ c_flush' # NoPc => board'.counter = 0
                    /\ c_flush' = NoPc => Even' \/ Aftermath'
  BY <1>3 DEF InStep
<1>4. /\ Ringed(board) /\ (c_flush # NoPc => board.counter = 0)
      /\ c_flush = NoPc => Even \/ Aftermath
  BY <1>3 DEF InStep
<1>5. CASE c_flush # NoPc
  <2>1. axi_stage = 0
    BY <1>3, <1>5 DEF Tears
  <2>2. fifo'.counter = 0
    <3>1. dec_next(wrb_next) \in BOOLEAN /\ (c_flush' # NoPc) \in BOOLEAN
      BY DEF dec_next
    <3>2. pending \in Fetched \cup {None}
      BY DEF IInv, TypeOK
    <3> QED
      BY <1>1, <1>2, <1>5, <3>1, <3>2, FifoStep
  <2>3. Ringed(board') /\ Aftermath'
    BY <1>1, <1>2, <1>5, <2>1, <2>2, FlushStep
  <2>4. c_flush' = NoPc
    BY <1>1, <1>2, <1>5 DEF Alu, Accept, Accepts, dec_valid, Shift, RaiseFlush, EndFlush, Hold, Alone
  <2> QED
    BY <2>3, <2>4
<1>6. CASE c_flush = NoPc /\ Aftermath
  BY <1>1, <1>2, <1>4, <1>6, AftermathStep
<1>7. CASE c_flush = NoPc /\ Even /\ c_flush' = NoPc
  BY <1>1, <1>2, <1>4, <1>7, EvenStep
<1>8. CASE c_flush = NoPc /\ Even /\ c_flush' # NoPc
  <2> DEFINE b == Posted(board, finish, Accepts(wrb_next), dec.instr.rd)
  <2>1. dec.instr.rd \in Regs
    BY <1>1, FetchedOrNone, InstructionParts DEF DecodeOK
  <2>2. board \in Boards(Regs) /\ finish \in BOOLEAN /\ Accepts(wrb_next) \in BOOLEAN
    BY <1>1 DEF BoardOK, Accepts
  <2>3. b \in Boards(Regs)
    BY <2>1, <2>2, BoardTyped
  <2>4. board' = BoardReset(b)
    BY <1>1, <1>8 DEF Post
  <2> HIDE DEF b
  <2>5. Ringed(board') /\ board'.counter = 0
    BY <2>3, <2>4, ResetRing
  <2> QED
    BY <1>8, <2>5
<1> QED
  BY <1>4, <1>5, <1>6, <1>7, <1>8

LEMMA InStepStays == InStep /\ UNCHANGED vars => InStep'
BY DEF InStep, vars, fetchVars, decodeVars, aluVars, wrbVars, Even, Aftermath, InExecute

LEMMA StepByStep == ASSUME BOARD_DEPTH >= 4 PROVE Spec => [](IInv /\ InStep)
<1>1. IInv /\ InStep /\ [Next]_vars => InStep'
  <2> SUFFICES ASSUME IInv, InStep, [Next]_vars PROVE InStep'
    OBVIOUS
  <2>1. CASE UNCHANGED vars
    BY <2>1, InStepStays
  <2>2. CASE Ended
    BY <2>2, InStepStays DEF Ended
  <2>3. CASE CoreReset
    BY <2>3, InStepReset
  <2>4. ASSUME NEW fetched \in BOOLEAN, NEW served \in BOOLEAN, Tick(fetched, served)
        PROVE  InStep'
    BY <2>4, InStepTick
  <2> QED
    BY <2>1, <2>2, <2>3, <2>4 DEF Next
<1> QED
  BY InStepInit, Inductive, <1>1, PTL DEF Spec

-----------------------------------------------------------------------------
(* The scoreboard of the code has four places: it is never full, refuses   *)
(* no destination, and counts the places it compares, unless a flush has   *)
(* met a load or a store.                                                  *)
THEOREM BoardAlwaysHolds == ASSUME BOARD_DEPTH >= 4 PROVE Spec => []BoardHolds
<1>1. IInv /\ InStep => BoardHolds
  <2> SUFFICES ASSUME IInv, InStep, "torn" \notin lost
               PROVE  /\ board.counter < BOARD_DEPTH
                      /\ board.counter = Cardinality({s \in Places : board.valid[s]})
    BY DEF BoardHolds
  <2>1. Ringed(board) /\ (board.counter = 0 \/ Even)
    BY DEF InStep, Aftermath
  <2>2. board.counter = 0 \/ board.counter \in 0..3
    BY <2>1 DEF Even, One
  <2>3. board.counter < BOARD_DEPTH
    BY <2>2, BoardAssumption
  <2> QED
    BY <2>1, <2>3 DEF Ringed, Held
<1> QED
  BY <1>1, StepByStep, PTL

(* No instruction reads a register an earlier one is still to write,       *)
(* unless a flush has met a load or a store.                               *)
THEOREM OperandsAlwaysFresh == ASSUME BOARD_DEPTH >= 4 PROVE Spec => []OperandsFresh
<1>1. IInv /\ InStep => OperandsFresh
  <2> SUFFICES ASSUME IInv, InStep, Accepts(wrb_next), "torn" \notin lost,
                      NEW r \in Operands(dec.instr), Executing(r)
               PROVE  FALSE
    BY DEF OperandsFresh
  <2>1. valid /\ c_flush = NoPc /\ axi_stage = 0 /\ ~fifo_result
    BY DEF Accepts, dec_valid, alu_next, wrb_next
  <2>2. Ringed(board) /\ Even
    BY <2>1 DEF InStep, Aftermath
  <2>3. board \in Boards(Regs) /\ board.counter \in Nat
    BY DEF IInv, TypeOK, Boards
  <2>4. r # 0
    BY DEF Operands
  <2>5. \E i \in 1..board.counter : Dst(board, i) = r
    <3>1. CASE InExecute /\ ex.instr.rd = r
      <4>1. board.counter \in 1..board.counter
        BY <2>2, <3>1 DEF Even, One
      <4> QED
        BY <2>2, <3>1, <4>1 DEF Even
    <3>2. CASE o_wr = r
      <4>1. board.counter - One(InExecute) \in 1..board.counter
        BY <2>2, <2>4, <3>2 DEF Even, One
      <4> QED
        BY <2>2, <2>4, <3>2, <4>1 DEF Even
    <3> QED
      BY <2>1, <3>1, <3>2 DEF Executing, InExecute
  <2>6. Awaited(board, Operands(dec.instr))
    BY <2>2, <2>3, <2>4, <2>5, SpotHeld DEF Awaited, Dst
  <2> QED
    BY <2>1, <2>6 DEF fifo_result
<1> QED
  BY <1>1, StepByStep, PTL
=============================================================================
