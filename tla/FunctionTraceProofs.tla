------------------------ MODULE FunctionTraceProofs ------------------------
(***************************************************************************)
(* Proofs about FunctionTrace, for every size of the table and of the ring *)
(* and every set of addresses: its variables keep their types, the symbol  *)
(* table holds what the host sent, a read pops once, and a tracer of at    *)
(* most four stages, whose core is held in reset while the host writes,    *)
(* implements the unit of TraceUnit.                                       *)
(***************************************************************************)
EXTENDS FunctionTraceImpl, TLAPS, WellFoundedInduction, FiniteSetTheorems,
        SequenceTheorems

\* The bits of the bus's handshake take part in the typing of the table, and the
\* handshake in its contents: the three are inductive together.
IInv == TypeOK /\ HandshakeInv /\ TableHoldsSent

-----------------------------------------------------------------------------
(* Lemmas about the operators.                                             *)

\* A bank is part of the table.
LEMMA BankInTable ==
  ASSUME NEW j \in Levels
  PROVE  Bank(j) \subseteq Slots
<1>1. /\ Banks \in Nat /\ BankSize \in Nat /\ j \in Int
      /\ 0 <= j /\ j + 1 <= Banks
  BY TraceAssumption DEF Levels
<1>2. (j + 1) * BankSize <= Banks * BankSize
  BY <1>1
<1>3. (j + 1) * BankSize = j * BankSize + BankSize /\ 0 <= j * BankSize
  BY <1>1
<1> QED
  BY <1>1, <1>2, <1>3 DEF Bank, Slots, NSym

\* A set of numbers that is not empty has a first element.
LEMMA FirstIsThere ==
  ASSUME NEW S, S \subseteq Nat, S # {}
  PROVE  First(S) \in S /\ \A y \in S : First(S) <= y
<1>1. PICK x \in S : \A y \in S : ~ (<<y, x>> \in OpToRel(<, Nat))
  BY NatLessThanWellFounded, WFMin
<1>2. ASSUME NEW y \in S PROVE x <= y
  <2>1. ~ (<<y, x>> \in {ss \in Nat \X Nat : ss[1] < ss[2]})
    BY <1>1 DEF OpToRel
  <2>2. ~ (y < x)
    BY <2>1
  <2> QED
    BY <2>2
<1> QED
  BY <1>2 DEF First

\* A stage turns an event into an event.
LEMMA LookedUpIsEvent ==
  ASSUME NEW j \in Levels, NEW e \in Event
  PROVE  LookedUp(j, e) \in Event
<1>1. Hits(j, e.pc) \subseteq Slots
  BY BankInTable DEF Hits
<1>2. Slots \subseteq Nat
  BY DEF Slots
<1>3. CASE e.en /\ Hits(j, e.pc) # {}
  <2>1. First(Hits(j, e.pc)) \in Slots
    BY <1>1, <1>2, <1>3, FirstIsThere
  <2> QED
    BY <2>1, <1>3 DEF LookedUp, Event
<1>4. CASE ~(e.en /\ Hits(j, e.pc) # {})
  BY <1>4 DEF LookedUp
<1> QED
  BY <1>3, <1>4

\* What enters the pipeline is an event.
LEMMA EnteringIsEvent ==
  ASSUME NEW in \in Retired
  PROVE  Entering(in) \in Event
<1>1. NSym \in Nat \ {0}
  BY TraceAssumption DEF NSym
<1> QED
  BY <1>1 DEF Entering, Event, Retired, Slots

\* The pointers stay in the ring.
LEMMA SuccInRing ==
  ASSUME NEW p \in Ring
  PROVE  Succ(p) \in Ring
BY TraceAssumption DEF Succ, Ring

\* A reset event is an event.
LEMMA InitTyped == Init => TypeOK
<1> SUFFICES ASSUME Init PROVE TypeOK
  OBVIOUS
<1>1. NSym \in Nat \ {0}
  BY TraceAssumption DEF NSym
<1>2. stage \in [Levels -> Event]
  BY <1>1, TraceAssumption DEF Init, Event, Slots
<1>3. mark \in [Ring -> Mark]
  BY <1>1, TraceAssumption DEF Init, Mark, Slots
<1>4. /\ symbol_array \in [Slots -> Addrs] /\ symbol_valid \in [Slots -> BOOLEAN]
      /\ counter \in 0..NSym
      /\ mark_write_counter \in Ring
      /\ mark_read_counter_perf \in Ring /\ mark_read_counter_symbol \in Ring
      /\ reg_symbol_input \in Addrs /\ sent \in Seq(Addrs)
  BY <1>1, TraceAssumption DEF Init, Ring
<1>5. /\ axi_write_channel_address \in WriteRegs
      /\ araddr \in ReadRegs /\ awaddr \in WriteRegs /\ wdata \in Payload(awaddr)
  BY DEF Init, WriteRegs, ReadRegs, RunReg, Payload
<1>6. /\ symbol_en \in BOOLEAN /\ arready \in BOOLEAN /\ rvalid \in BOOLEAN
      /\ awready \in BOOLEAN /\ wready \in BOOLEAN /\ bvalid \in BOOLEAN
      /\ arvalid \in BOOLEAN /\ awvalid \in BOOLEAN /\ wvalid \in BOOLEAN
      /\ wowed \in BOOLEAN
  BY DEF Init
<1>7. reg_system_run \in {0, 1} /\ rdata \in Int
  BY DEF Init
<1> QED
  BY <1>2, <1>3, <1>4, <1>5, <1>6, <1>7, Zenon DEF TypeOK

\* The reset state satisfies the invariant.
LEMMA InitInv == Init => IInv
<1> SUFFICES ASSUME Init PROVE IInv
  OBVIOUS
<1>1. HandshakeInv
  BY DEF Init, HandshakeInv
<1>2. TableHoldsSent
  BY TraceAssumption DEF Init, TableHoldsSent, Stored, NSym, Slots
<1> QED
  BY <1>1, <1>2, InitTyped DEF IInv

-----------------------------------------------------------------------------
(* One lemma per group of variables that a step must keep typed.           *)

\* The data a write puts on the bus belong to its register.
LEMMA WriteTyped ==
  ASSUME TypeOK, HandshakeInv, AxiWrite
  PROVE  /\ reg_system_run' \in {0, 1} /\ reg_symbol_input' \in Addrs
         /\ symbol_en' \in BOOLEAN /\ sent' \in Seq(Addrs)
         /\ awready' \in BOOLEAN /\ wready' \in BOOLEAN /\ bvalid' \in BOOLEAN
         /\ axi_write_channel_address' \in WriteRegs
<1> USE DEF TypeOK
<1>1. CASE AcceptAddress
  BY <1>1 DEF AcceptAddress, regVars
<1>2. CASE AcceptData
  <2>1. axi_write_channel_address = awaddr
    BY <1>2 DEF AcceptData, HandshakeInv
  <2>2. CASE axi_write_channel_address = SymbolReg
    <3>1. wdata \in Addrs
      BY <2>1, <2>2 DEF Payload, SymbolReg, RunReg
    <3>2. /\ reg_symbol_input' = wdata /\ symbol_en' = TRUE /\ sent' = Append(sent, wdata)
          /\ reg_system_run' = reg_system_run
      BY <1>2, <2>2 DEF AcceptData, WriteRegister, SymbolReg, RunReg
    <3>3. sent' \in Seq(Addrs)
      BY <3>1, <3>2
    <3> QED
      BY <1>2, <3>1, <3>2, <3>3 DEF AcceptData
  <2>3. CASE axi_write_channel_address = RunReg
    <3>1. wdata = 1
      BY <2>1, <2>3 DEF Payload
    <3>2. reg_system_run' = 1 /\ UNCHANGED <<reg_symbol_input, symbol_en, sent>>
      BY <1>2, <2>3, <3>1 DEF AcceptData, WriteRegister, SymbolReg, RunReg
    <3> QED
      BY <1>2, <3>2 DEF AcceptData
  <2> QED
    BY <2>2, <2>3 DEF WriteRegs
<1>3. CASE AnswerWrite
  BY <1>3 DEF AnswerWrite, regVars
<1>4. CASE EndWrite
  BY <1>4 DEF EndWrite, regVars
<1> QED
  BY <1>1, <1>2, <1>3, <1>4 DEF AxiWrite

\* A pop leaves the pointers in the ring.
LEMMA ReadTyped ==
  ASSUME TypeOK, AxiRead
  PROVE  /\ arready' \in BOOLEAN /\ rvalid' \in BOOLEAN /\ rdata' \in Int
         /\ mark_read_counter_perf' \in Ring /\ mark_read_counter_symbol' \in Ring
<1> USE DEF TypeOK
<1>1. CASE AcceptRead
  <2>1. ReadRegister /\ arready' = TRUE /\ UNCHANGED rvalid
    BY <1>1 DEF AcceptRead
  <2>2. \A k \in Ring : mark[k].perf \in Int /\ mark[k].symbol \in Int
    <3>1. \A m \in Mark : m.perf \in Perfs /\ m.symbol \in Slots
      BY DEF Mark
    <3>2. Perfs \subseteq Int /\ Slots \subseteq Int
      BY TraceAssumption DEF Slots
    <3> QED
      BY <3>1, <3>2
  <2>3. reg_system_run \in Int /\ counter \in Int
        /\ mark_write_counter - mark_read_counter_perf \in Int
    BY TraceAssumption DEF Ring, NSym
  <2>4. CASE Show(reg_system_run) \/ Show(counter)
               \/ Show(mark_write_counter - mark_read_counter_perf)
    BY <2>1, <2>3, <2>4 DEF Show
  <2>5. CASE PopPerf
    BY <2>1, <2>2, <2>5, SuccInRing DEF PopPerf
  <2>6. CASE PopMark
    BY <2>1, <2>2, <2>6, SuccInRing DEF PopMark
  <2> QED
    BY <2>1, <2>4, <2>5, <2>6, Zenon DEF ReadRegister
<1>2. CASE AnswerRead
  BY <1>2 DEF AnswerRead, popVars
<1>3. CASE EndRead
  BY <1>3 DEF EndRead, popVars
<1> QED
  BY <1>1, <1>2, <1>3 DEF AxiRead

\* The host raises well-formed requests.
LEMMA HostTyped ==
  ASSUME TypeOK, HostRead, HostWrite
  PROVE  /\ arvalid' \in BOOLEAN /\ araddr' \in ReadRegs
         /\ awvalid' \in BOOLEAN /\ awaddr' \in WriteRegs
         /\ wvalid' \in BOOLEAN /\ wdata' \in Payload(awaddr)' /\ wowed' \in BOOLEAN
<1>1. arvalid' \in BOOLEAN /\ araddr' \in ReadRegs
  BY TraceAssumption DEF HostRead, TypeOK
<1>2. awvalid' \in BOOLEAN /\ wvalid' \in BOOLEAN /\ wowed' \in BOOLEAN
  BY DEF HostWrite, TypeOK
<1>3. awaddr' \in WriteRegs /\ wdata' \in Payload(awaddr)'
  BY TraceAssumption DEF HostWrite, TypeOK, Payload
<1> QED
  BY <1>1, <1>2, <1>3

\* The table, the pipeline and the ring.
LEMMA DataTyped ==
  ASSUME TypeOK, SymbolFifo, MarkFifo, NEW in \in Retired, PcPipeline(in)
  PROVE  /\ counter' \in 0..NSym
         /\ symbol_array' \in [Slots -> Addrs] /\ symbol_valid' \in [Slots -> BOOLEAN]
         /\ stage' \in [Levels -> Event]
         /\ mark' \in [Ring -> Mark] /\ mark_write_counter' \in Ring
<1> USE DEF TypeOK
<1>1. NSym \in Nat /\ Banks \in Nat \ {0}
  BY TraceAssumption DEF NSym
<1>2. /\ counter' \in 0..NSym
      /\ symbol_array' \in [Slots -> Addrs] /\ symbol_valid' \in [Slots -> BOOLEAN]
  <2>1. CASE symbol_en /\ counter < NSym
    <3>1. counter \in Slots /\ counter + 1 \in 0..NSym
      BY <1>1, <2>1 DEF Slots
    <3>2. /\ counter' = counter + 1
          /\ symbol_array' = [symbol_array EXCEPT ![counter] = reg_symbol_input]
          /\ symbol_valid' = [symbol_valid EXCEPT ![counter] = TRUE]
      BY <2>1 DEF SymbolFifo
    <3> QED
      BY <3>1, <3>2
  <2>2. CASE ~(symbol_en /\ counter < NSym)
    BY <2>2 DEF SymbolFifo, symbolVars
  <2> QED
    BY <2>1, <2>2
<1>3. stage' \in [Levels -> Event]
  <2>1. ASSUME NEW j \in Levels
        PROVE  (IF j = 0 THEN Entering(in) ELSE stage[j - 1]) \in Event
    <3>1. j # 0 => j - 1 \in Levels
      BY <1>1 DEF Levels
    <3> QED
      BY <3>1, EnteringIsEvent
  <2>2. ASSUME NEW j \in Levels
        PROVE  LookedUp(j, IF j = 0 THEN Entering(in) ELSE stage[j - 1]) \in Event
    BY <2>1, LookedUpIsEvent
  <2> QED
    BY <2>2 DEF PcPipeline
<1>4. mark' \in [Ring -> Mark] /\ mark_write_counter' \in Ring
  <2>1. Leaving \in Event
    BY <1>1 DEF Leaving, Levels
  <2>2. [perf |-> Leaving.perf, symbol |-> Leaving.symbol] \in Mark
    BY <2>1 DEF Event, Mark
  <2> QED
    BY <2>2, SuccInRing DEF MarkFifo, markVars
<1> QED
  BY <1>2, <1>3, <1>4

\* A clock edge keeps the types.
LEMMA TickTyped == TypeOK /\ HandshakeInv /\ Tick => TypeOK'
<1> SUFFICES ASSUME TypeOK, HandshakeInv, Tick PROVE TypeOK'
  OBVIOUS
<1>1. PICK in \in Retired : /\ SymbolFifo /\ PcPipeline(in) /\ MarkFifo
                           /\ AxiRead /\ AxiWrite /\ HostRead /\ HostWrite
  BY DEF Tick, Edge
<1> QED
  BY <1>1, WriteTyped, ReadTyped, HostTyped, DataTyped, Zenon DEF TypeOK

-----------------------------------------------------------------------------
(* The handshakes.                                                         *)

\* The read side: a ready is one clock long, a response follows it.
LEMMA ReadHandshake ==
  ASSUME TypeOK, HandshakeInv, AxiRead, HostRead
  PROVE  /\ arready' => arvalid' /\ ~rvalid'
         /\ rvalid' => ~arvalid'
<1> USE DEF TypeOK, HandshakeInv, HostRead
<1>1. CASE AcceptRead
  BY <1>1 DEF AcceptRead
<1>2. CASE AnswerRead
  BY <1>2 DEF AnswerRead
<1>3. CASE EndRead
  BY <1>3 DEF EndRead
<1> QED
  BY <1>1, <1>2, <1>3 DEF AxiRead

\* The write side: address, then data, then response.
LEMMA WriteHandshake ==
  ASSUME TypeOK, HandshakeInv, AxiWrite, HostWrite
  PROVE  /\ awready' => awvalid'
         /\ wready' => wvalid' /\ ~awvalid'
         /\ wowed' => ~wvalid' /\ ~bvalid'
         /\ bvalid' => ~awvalid' /\ ~wvalid'
<1> USE DEF TypeOK, HandshakeInv, HostWrite, Writing
<1>1. CASE AcceptAddress
  BY <1>1 DEF AcceptAddress
<1>2. CASE AcceptData
  BY <1>2 DEF AcceptData
<1>3. CASE AnswerWrite
  BY <1>3 DEF AnswerWrite
<1>4. CASE EndWrite
  BY <1>4 DEF EndWrite
<1> QED
  BY <1>1, <1>2, <1>3, <1>4 DEF AxiWrite

\* The address register holds the address of the write in progress.
LEMMA AddressHeld ==
  ASSUME TypeOK, HandshakeInv, AxiWrite, HostWrite
  PROVE  (awready' \/ (~awvalid' /\ (wvalid' \/ wowed')))
           => axi_write_channel_address' = awaddr'
<1> USE DEF TypeOK, HandshakeInv, HostWrite, Writing
<1>1. CASE AcceptAddress
  BY <1>1 DEF AcceptAddress
<1>2. CASE AcceptData
  BY <1>2 DEF AcceptData
<1>3. CASE AnswerWrite
  BY <1>3 DEF AnswerWrite
<1>4. CASE EndWrite
  BY <1>4 DEF EndWrite
<1> QED
  BY <1>1, <1>2, <1>3, <1>4 DEF AxiWrite

\* symbol_en is the clock after symbol data were taken, and those data are the
\* last the host sent.
LEMMA SymbolEnExact ==
  ASSUME TypeOK, HandshakeInv, AxiWrite
  PROVE  /\ symbol_en' <=> wready' /\ axi_write_channel_address' = SymbolReg
         /\ symbol_en' => sent' # << >> /\ reg_symbol_input' = sent'[Len(sent')]
<1> USE DEF TypeOK, HandshakeInv
<1>1. CASE AcceptAddress
  BY <1>1 DEF AcceptAddress, regVars
<1>2. CASE AcceptData
  <2>1. CASE axi_write_channel_address = SymbolReg
    BY <1>2, <2>1 DEF AcceptData, WriteRegister, Payload, SymbolReg, RunReg
  <2>2. CASE axi_write_channel_address # SymbolReg
    BY <1>2, <2>2 DEF AcceptData, WriteRegister
  <2> QED
    BY <2>1, <2>2
<1>3. CASE AnswerWrite
  BY <1>3 DEF AnswerWrite, regVars
<1>4. CASE EndWrite
  BY <1>4 DEF EndWrite, regVars
<1> QED
  BY <1>1, <1>2, <1>3, <1>4 DEF AxiWrite

\* A clock edge keeps the handshakes.
LEMMA TickHandshake == TypeOK /\ HandshakeInv /\ Tick => HandshakeInv'
<1> SUFFICES ASSUME TypeOK, HandshakeInv, Tick PROVE HandshakeInv'
  OBVIOUS
<1>1. AxiRead /\ AxiWrite /\ HostRead /\ HostWrite
  BY DEF Tick, Edge
<1> QED
  BY <1>1, ReadHandshake, WriteHandshake, AddressHeld, SymbolEnExact, Zenon DEF HandshakeInv

-----------------------------------------------------------------------------
(* The table.                                                              *)

\* What a clock edge does to the history: symbol data are appended to it when
\* symbol_en rises, and symbol_en is down before.
LEMMA SentGrows ==
  ASSUME TypeOK, HandshakeInv, AxiWrite, HostWrite
  PROVE  \/ ~symbol_en /\ symbol_en' /\ (\E a \in Addrs : sent' = Append(sent, a))
         \/ symbol_en /\ ~symbol_en' /\ sent' = sent
         \/ ~symbol_en /\ ~symbol_en' /\ sent' = sent
<1> USE DEF TypeOK, HandshakeInv
<1>1. CASE AcceptAddress
  BY <1>1 DEF AcceptAddress, regVars
<1>2. CASE AcceptData
  <2>1. CASE axi_write_channel_address = SymbolReg
    BY <1>2, <2>1 DEF AcceptData, WriteRegister, Payload, SymbolReg, RunReg
  <2>2. CASE axi_write_channel_address # SymbolReg
    BY <1>2, <2>2 DEF AcceptData, WriteRegister
  <2> QED
    BY <2>1, <2>2
<1>3. CASE AnswerWrite
  BY <1>3 DEF AnswerWrite, regVars
<1>4. CASE EndWrite
  BY <1>4 DEF EndWrite, regVars
<1> QED
  BY <1>1, <1>2, <1>3, <1>4 DEF AxiWrite

\* A clock edge keeps the table equal to what was sent.
LEMMA TickTable ==
  ASSUME TypeOK, HandshakeInv, TableHoldsSent, SymbolFifo, AxiWrite, HostWrite
  PROVE  TableHoldsSent'
<1>1. /\ NSym \in Nat /\ Len(sent) \in Nat /\ sent \in Seq(Addrs) /\ counter \in 0..NSym
      /\ symbol_array \in [Slots -> Addrs] /\ symbol_valid \in [Slots -> BOOLEAN]
      /\ symbol_en \in BOOLEAN
  BY TraceAssumption DEF NSym, TypeOK
<1>2. symbol_en => Len(sent) > 0 /\ reg_symbol_input = sent[Len(sent)]
  BY <1>1 DEF HandshakeInv
<1>3. CASE symbol_en
  <2>1. ~symbol_en' /\ sent' = sent
    BY <1>3, SentGrows
  <2>2. CASE counter < NSym
    <3>1. counter \in Slots /\ counter + 1 = Len(sent)
      BY <1>1, <1>2, <1>3, <2>2 DEF Slots, TableHoldsSent, Stored
    <3>2. /\ counter' = counter + 1
          /\ symbol_array' = [symbol_array EXCEPT ![counter] = sent[Len(sent)]]
          /\ symbol_valid' = [symbol_valid EXCEPT ![counter] = TRUE]
      BY <1>2, <1>3, <2>2 DEF SymbolFifo
    <3>3. counter' = IF Stored' < NSym THEN Stored' ELSE NSym
      BY <1>1, <2>1, <2>2, <3>1, <3>2 DEF Stored, NSym
    <3>4. ASSUME NEW i \in Slots
          PROVE  /\ symbol_valid'[i] <=> i < counter'
                 /\ i < counter' => symbol_array'[i] = sent'[i + 1]
      <4>1. CASE i = counter
        BY <1>1, <2>1, <3>1, <3>2, <4>1
      <4>2. CASE i # counter
        <5>1. symbol_valid'[i] = symbol_valid[i] /\ symbol_array'[i] = symbol_array[i]
          BY <1>1, <3>2, <4>2
        <5>2. i < counter' <=> i < counter
          BY <1>1, <3>2, <4>2 DEF Slots
        <5> QED
          BY <2>1, <5>1, <5>2 DEF TableHoldsSent
      <4> QED
        BY <4>1, <4>2
    <3> QED
      BY <3>3, <3>4 DEF TableHoldsSent, NSym, Slots
  <2>3. CASE ~(counter < NSym)
    <3>1. counter = NSym /\ UNCHANGED symbolVars /\ Len(sent) > NSym
      BY <1>1, <1>2, <1>3, <2>3 DEF SymbolFifo, TableHoldsSent, Stored
    <3> QED
      BY <1>1, <1>3, <2>1, <3>1 DEF TableHoldsSent, Stored, symbolVars, NSym, Slots
  <2> QED
    BY <2>2, <2>3
<1>4. CASE ~symbol_en
  <2>1. UNCHANGED symbolVars
    BY <1>4 DEF SymbolFifo
  <2>2. Stored' = Stored /\ Stored = Len(sent)
    <3>1. CASE symbol_en'
      <4>1. PICK a \in Addrs : sent' = Append(sent, a)
        BY <1>4, <3>1, SentGrows
      <4>2. Len(sent') = Len(sent) + 1
        BY <1>1, <4>1
      <4> QED
        BY <1>1, <1>4, <3>1, <4>2 DEF Stored
    <3>2. CASE ~symbol_en'
      <4>1. sent' = sent
        BY <1>4, <3>2, SentGrows
      <4> QED
        BY <1>1, <1>4, <3>2, <4>1 DEF Stored
    <3> QED
      BY <3>1, <3>2
  <2>3. ASSUME NEW i \in Slots, i < counter
        PROVE  sent'[i + 1] = sent[i + 1]
    <3>1. i + 1 \in 1..Len(sent)
      BY <1>1, <2>2, <2>3 DEF TableHoldsSent, Slots
    <3>2. sent' = sent \/ \E a \in Addrs : sent' = Append(sent, a)
      BY SentGrows
    <3> QED
      BY <1>1, <3>1, <3>2
  <2> QED
    BY <2>1, <2>2, <2>3 DEF TableHoldsSent, symbolVars, NSym, Slots
<1> QED
  BY <1>1, <1>3, <1>4

-----------------------------------------------------------------------------
\* Every clock edge, and every stutter, keeps the invariant.
LEMMA TickInv == IInv /\ [Tick]_vars => IInv'
<1> SUFFICES ASSUME IInv, [Tick]_vars PROVE IInv'
  OBVIOUS
<1>1. CASE Tick
  <2>1. SymbolFifo /\ AxiWrite /\ HostWrite
    BY <1>1 DEF Tick, Edge
  <2> QED
    BY <1>1, <2>1, TickTyped, TickHandshake, TickTable DEF IInv
<1>2. CASE UNCHANGED vars
  BY <1>2 DEF IInv, TypeOK, HandshakeInv, TableHoldsSent, Stored, vars, symbolVars, markVars,
              readVars, writeVars, hostVars
<1> QED
  BY <1>1, <1>2

\* The tracer's registers keep their widths and ranges: the table's counter never
\* passes the table, the pointers never leave the ring.
THEOREM TypeCorrect == Spec => []TypeOK
<1>1. IInv => TypeOK
  BY DEF IInv
<1> QED
  BY <1>1, InitInv, TickInv, PTL DEF Spec

\* The bus handshakes are four-phase, and symbol_en is one clock long.
THEOREM Handshakes == Spec => []HandshakeInv
<1>1. IInv => HandshakeInv
  BY DEF IInv
<1> QED
  BY <1>1, InitInv, TickInv, PTL DEF Spec

\* The symbol table holds the first symbols the host sent, each once and in order,
\* whatever the core and the read channel do.
THEOREM TableExact == Spec => []TableHoldsSent
<1>1. IInv => TableHoldsSent
  BY DEF IInv
<1> QED
  BY <1>1, InitInv, TickInv, PTL DEF Spec

\* A read access pops once: while its answer is on the way or on the bus, the data
\* and the read pointers stand still.
THEOREM PopsOnce == Spec => ReadIsOnce
<1>1. ASSUME IInv, [Tick]_vars, arready \/ rvalid
      PROVE  UNCHANGED popVars
  <2>1. CASE Tick
    <3>1. AxiRead
      BY <2>1 DEF Tick, Edge
    <3>2. ~ AcceptRead
      BY <1>1 DEF IInv, HandshakeInv, AcceptRead
    <3> QED
      BY <3>1, <3>2 DEF AxiRead, AnswerRead, EndRead
  <2>2. CASE UNCHANGED vars
    BY <2>2 DEF vars, readVars, popVars
  <2> QED
    BY <1>1, <2>1, <2>2
<1> QED
  BY <1>1, InitInv, TickInv, PTL DEF Spec, ReadIsOnce

-----------------------------------------------------------------------------
(* The tracer implements the unit of TraceUnit.  First the stages, which   *)
(* are counted from the one whose hit leaves first.                        *)

\* As many places after moving a set of places by one.
LEMMA Moved ==
  ASSUME NEW A \in SUBSET Int, IsFiniteSet(A), NEW B, B = {i + 1 : i \in A}
  PROVE  IsFiniteSet(B) /\ Cardinality(B) = Cardinality(A)
<1> DEFINE f == [i \in A |-> i + 1]
<1>1. f \in Bijection(A, B)
  <2>1. f \in [A -> B]
    OBVIOUS
  <2>2. \A i, k \in A : f[i] = f[k] => i = k
    OBVIOUS
  <2>3. \A b \in B : \E i \in A : f[i] = b
    OBVIOUS
  <2> QED
    BY <2>1, <2>2, <2>3 DEF Bijection, Injection, Surjection, IsInjective
<1> QED
  BY <1>1, FS_Bijection DEF ExistsBijection

\* Levels are numbers.
LEMMA LevelsAreInts == Levels \subseteq Int
BY TraceAssumption DEF Levels

\* Levels are few.
LEMMA LevelsFinite ==
  ASSUME NEW S \in SUBSET Levels
  PROVE  IsFiniteSet(S) /\ Cardinality(S) \in Nat /\ Cardinality(S) <= Banks
<1>1. IsFiniteSet(Levels) /\ Cardinality(Levels) = Banks
  BY FS_Interval, TraceAssumption DEF Levels
<1> QED
  BY <1>1, FS_Subset, FS_CardinalityType

\* The ranks of a set of stages are the numbers up to its size, the later stage
\* first.
LEMMA Ranked ==
  ASSUME NEW S \in SUBSET Levels
  PROVE  /\ \A j \in S : Rank(S, j) \in 1..Cardinality(S)
         /\ \A i, j \in S : i < j => Rank(S, j) < Rank(S, i)
<1>1. ASSUME NEW j \in S
      PROVE  Rank(S, j) \in 1..Cardinality(S)
  <2> DEFINE R == {i \in S : j <= i}
  <2>1. /\ IsFiniteSet(R) /\ Cardinality(R) \in Nat /\ Cardinality(R) <= Cardinality(S)
    BY LevelsFinite, FS_Subset
  <2>2. j \in R
    BY LevelsAreInts
  <2>3. Cardinality(R) # 0
    BY <2>1, <2>2, FS_EmptySet
  <2> QED
    BY <2>1, <2>3, LevelsFinite DEF Rank
<1>2. ASSUME NEW i \in S, NEW j \in S, i < j
      PROVE  Rank(S, j) < Rank(S, i)
  <2> DEFINE R == {k \in S : j <= k}
             Q == {k \in S : i <= k}
  <2>0. i \in Int /\ j \in Int /\ S \subseteq Int
    BY LevelsAreInts
  <2>1. R \in SUBSET Q /\ i \in Q /\ i \notin R
    <3>1. \A k \in S : j <= k => i <= k
      BY <1>2, <2>0
    <3>2. ~ (j <= i) /\ i <= i
      BY <1>2, <2>0
    <3> QED
      BY <3>1, <3>2
  <2>2. IsFiniteSet(Q) /\ Cardinality(Q) \in Nat /\ Cardinality(R) \in Nat
    BY LevelsFinite
  <2>3. Cardinality(R) <= Cardinality(Q) /\ Cardinality(R) # Cardinality(Q)
    BY <2>1, <2>2, FS_Subset
  <2> QED
    BY <2>2, <2>3 DEF Rank
<1> QED
  BY <1>1, <1>2

\* Each number up to its size is the rank of one stage.
LEMMA NthIsThere ==
  ASSUME NEW S \in SUBSET Levels
  PROVE  /\ \A k \in 1..Cardinality(S) : Nth(S, k) \in S /\ Rank(S, Nth(S, k)) = k
         /\ \A j \in S : Nth(S, Rank(S, j)) = j
<1> DEFINE n == Cardinality(S)
           f == [j \in S |-> Rank(S, j)]
<1>0. n \in Nat /\ IsFiniteSet(S)
  BY LevelsFinite
<1>1. f \in [S -> 1..n]
  BY Ranked
<1>2. ASSUME NEW i \in S, NEW j \in S, Rank(S, i) = Rank(S, j)
      PROVE  i = j
  <2>1. i \in Int /\ j \in Int /\ Rank(S, i) \in Int
    BY Ranked, LevelsAreInts
  <2> QED
    BY <2>1, <1>2, Ranked
<1>3. f \in Injection(S, 1..n)
  BY <1>1, <1>2 DEF Injection, IsInjective
<1>4. IsFiniteSet(1..n) /\ Cardinality(1..n) = n
  BY <1>0, FS_Interval
<1>5. f \in Surjection(S, 1..n)
  BY <1>3, <1>4, FS_Injection
<1>6. \A k \in 1..n : \E j \in S : Rank(S, j) = k
  BY <1>5 DEF Surjection
<1> QED
  BY <1>2, <1>6, Ranked DEF Nth

\* A set of stages that is not empty has a last one.
LEMMA LastIsThere ==
  ASSUME NEW S \in SUBSET Levels, S # {}
  PROVE  Last(S) \in S /\ \A j \in S : j <= Last(S)
<1> DEFINE m == Nth(S, 1)
<1>1. Cardinality(S) \in Nat /\ Cardinality(S) # 0
  BY LevelsFinite, FS_EmptySet
<1>2. m \in S /\ Rank(S, m) = 1
  BY <1>1, NthIsThere
<1>3. ASSUME NEW j \in S PROVE j <= m
  <2>1. j \in Int /\ m \in Int /\ Rank(S, j) \in Int /\ 1 <= Rank(S, j)
    <3>1. Cardinality(S) \in Int /\ Rank(S, j) \in 1..Cardinality(S)
      BY <1>1, Ranked
    <3>2. j \in Int /\ m \in Int
      BY <1>2, LevelsAreInts
    <3> QED
      BY <3>1, <3>2
  <2> QED
    BY <1>2, <2>1, Ranked
<1> QED
  BY <1>2, <1>3 DEF Last

\* It is the only stage of the set no other passes.
LEMMA LastIs ==
  ASSUME NEW S \in SUBSET Levels, NEW m \in S, \A j \in S : j <= m
  PROVE  Last(S) = m
<1>1. Last(S) \in S /\ m <= Last(S) /\ Last(S) <= m
  BY LastIsThere
<1>2. Last(S) \in Int /\ m \in Int
  BY <1>1, LevelsAreInts
<1> QED
  BY <1>1, <1>2

-----------------------------------------------------------------------------
\* The stages S of one clock, moved by one, are the stages T of the next, but for
\* the last, which leaves, and the first, which enters.
Shifts(S, T) == \A j, k \in Levels : k = j + 1 => (j \in S <=> k \in T)
Goes(S) == IF Banks - 1 \in S THEN 1 ELSE 0
Comes(T) == IF 0 \in T THEN 1 ELSE 0

\* As the stages move, the one to leave is counted first, the one to enter last, and
\* the others keep their order.
LEMMA FlightMoves ==
  ASSUME NEW S \in SUBSET Levels, NEW T \in SUBSET Levels, Shifts(S, T)
  PROVE  /\ Cardinality(T) = Cardinality(S) - Goes(S) + Comes(T)
         /\ \A k \in 1..(Cardinality(S) - Goes(S)) :
              /\ Nth(S, k + Goes(S)) + 1 \in Levels
              /\ Nth(T, k) = Nth(S, k + Goes(S)) + 1
         /\ Comes(T) = 1 => Nth(T, Cardinality(T)) = 0
         /\ Goes(S) = 1 => Nth(S, 1) = Banks - 1
<1> DEFINE U == S \ {Banks - 1}
           W == T \ {0}
<1>0. Banks \in Nat \ {0} /\ S \subseteq Int /\ T \subseteq Int
  BY TraceAssumption DEF Levels
<1>1. U \in SUBSET Levels /\ W \in SUBSET Levels
  OBVIOUS
<1>2. W = {i + 1 : i \in U}
  <2>1. ASSUME NEW i \in U PROVE i + 1 \in W
    <3>1. i \in Levels /\ i + 1 \in Levels /\ i + 1 # 0
      BY <1>0 DEF Levels
    <3> QED
      BY <3>1 DEF Shifts
  <2>2. ASSUME NEW k \in W PROVE k - 1 \in U /\ (k - 1) + 1 = k
    <3>1. k \in Levels /\ k - 1 \in Levels /\ (k - 1) + 1 = k /\ k - 1 # Banks - 1
      BY <1>0 DEF Levels
    <3> QED
      BY <3>1 DEF Shifts
  <2> QED
    BY <2>1, <2>2
<1>3. Cardinality(W) = Cardinality(U)
  BY <1>0, <1>1, <1>2, LevelsFinite, Moved
<1>4. Cardinality(U) = Cardinality(S) - Goes(S)
  BY LevelsFinite, FS_RemoveElement DEF Goes
<1>5. Cardinality(W) = Cardinality(T) - Comes(T)
  BY LevelsFinite, FS_RemoveElement DEF Comes
<1>6. Cardinality(T) = Cardinality(S) - Goes(S) + Comes(T)
  BY <1>3, <1>4, <1>5, LevelsFinite DEF Goes, Comes
<1>7. ASSUME Comes(T) = 1 PROVE Nth(T, Cardinality(T)) = 0
  <2>0. \A i \in T : 0 <= i
    BY DEF Levels
  <2>1. 0 \in T /\ {i \in T : 0 <= i} = T
    BY <1>7, <2>0 DEF Comes
  <2>2. Rank(T, 0) = Cardinality(T)
    BY <2>1 DEF Rank
  <2> QED
    BY <2>1, <2>2, NthIsThere
<1>8. ASSUME Banks - 1 \in S
      PROVE  Rank(S, Banks - 1) = 1 /\ Nth(S, 1) = Banks - 1
  <2>0. \A i \in S : Banks - 1 <= i <=> i = Banks - 1
    BY <1>0 DEF Levels
  <2>1. {i \in S : Banks - 1 <= i} = {Banks - 1}
    BY <1>8, <2>0
  <2>2. Rank(S, Banks - 1) = 1
    BY <2>1, FS_Singleton DEF Rank
  <2> QED
    BY <1>8, <2>2, NthIsThere
<1>9. ASSUME NEW j \in U
      PROVE  j + 1 \in T /\ Rank(T, j + 1) = Rank(S, j) - Goes(S)
  <2>1. j \in Levels /\ j + 1 \in Levels /\ j + 1 # 0 /\ j + 1 - 1 = j /\ j # Banks - 1
    BY <1>0 DEF Levels
  <2>2. j + 1 \in T
    BY <2>1 DEF Shifts
  <2> DEFINE P == {i \in U : j <= i}
             Q == {i \in T : j + 1 <= i}
             R == {i \in S : j <= i}
  <2>3. Q = {i + 1 : i \in P}
    <3>1. ASSUME NEW i \in Q PROVE i - 1 \in P /\ (i - 1) + 1 = i
      <4>1. i \in Levels /\ i - 1 \in Levels /\ i - 1 # Banks - 1 /\ j <= i - 1
            /\ i = (i - 1) + 1
        BY <1>0, <2>1 DEF Levels
      <4> QED
        BY <4>1 DEF Shifts
    <3>2. ASSUME NEW i \in P PROVE i + 1 \in Q
      <4>1. i \in Levels /\ i + 1 \in Levels /\ j + 1 <= i + 1
        BY <1>0, <2>1 DEF Levels
      <4> QED
        BY <4>1 DEF Shifts
    <3> QED
      BY <3>1, <3>2
  <2>4. P \in SUBSET Levels /\ Q \in SUBSET Levels /\ R \in SUBSET Levels /\ P \in SUBSET Int
    BY <1>0
  <2>5. Cardinality(Q) = Cardinality(P)
    BY <2>3, <2>4, LevelsFinite, Moved
  <2>6. P = R \ {Banks - 1}
    OBVIOUS
  <2>7. Banks - 1 \in R <=> Banks - 1 \in S
    BY <1>0, <2>1 DEF Levels
  <2>8. Cardinality(P) = Cardinality(R) - Goes(S)
    <3>1. IsFiniteSet(R) /\ Cardinality(R) \in Nat
      BY <2>4, LevelsFinite
    <3>2. Cardinality(R \ {Banks - 1})
            = IF Banks - 1 \in R THEN Cardinality(R) - 1 ELSE Cardinality(R)
      BY <3>1, FS_RemoveElement
    <3> HIDE DEF P, R
    <3> QED
      BY <2>6, <2>7, <3>1, <3>2 DEF Goes
  <2> QED
    BY <2>2, <2>5, <2>8 DEF Rank
<1>10. ASSUME NEW k \in 1..(Cardinality(S) - Goes(S))
       PROVE  /\ Nth(S, k + Goes(S)) + 1 \in Levels
              /\ Nth(T, k) = Nth(S, k + Goes(S)) + 1
  <2> DEFINE g == k + Goes(S)
             j == Nth(S, g)
  <2>1. k \in Nat \ {0} /\ Goes(S) \in {0, 1} /\ Cardinality(S) \in Nat
    BY LevelsFinite DEF Goes
  <2>2. g \in 1..Cardinality(S) /\ g - Goes(S) = k
    BY <2>1
  <2>3. j \in S /\ Rank(S, j) = g
    BY <2>2, NthIsThere
  <2>4. j # Banks - 1
    BY <2>1, <2>3, <1>8 DEF Goes
  <2>5. j \in U
    BY <2>3, <2>4
  <2> HIDE DEF j, g
  <2>6. j + 1 \in T /\ Rank(T, j + 1) = k
    BY <1>9, <2>2, <2>3, <2>5
  <2>7. Nth(T, k) = j + 1
    BY <2>6, NthIsThere
  <2> QED
    BY <2>6, <2>7 DEF j, g
<1> QED
  BY <1>6, <1>7, <1>8, <1>10 DEF Goes

-----------------------------------------------------------------------------
(* The table: what the banks find is what the unit looks up.               *)

\* Every slot of the table is in one bank, the one TraceUnit computes.
LEMMA BankOfSlot ==
  ASSUME NEW i \in Slots
  PROVE  /\ i \div BankSize \in Levels
         /\ i \in Bank(i \div BankSize)
         /\ \A j \in Levels : i \in Bank(j) => j = i \div BankSize
<1> DEFINE q == i \div BankSize
<1>1. /\ Banks \in Nat \ {0} /\ BankSize \in Nat \ {0} /\ i \in Nat
      /\ i < Banks * BankSize
  BY TraceAssumption DEF Slots, NSym
<1>2. q \in Nat /\ q * BankSize <= i /\ i < q * BankSize + BankSize
  BY <1>1
<1> HIDE DEF q
<1>3. i \in Bank(q)
  BY <1>1, <1>2 DEF Bank
<1>4. q \in Levels
  <2>1. CASE Banks <= q
    <3>1. Banks * BankSize <= q * BankSize
      BY <1>1, <1>2, <2>1
    <3> QED
      BY <1>1, <1>2, <3>1
  <2> QED
    BY <1>1, <1>2, <2>1 DEF Levels
<1>5. ASSUME NEW j \in Levels, i \in Bank(j) PROVE j = q
  <2>1. j \in Int /\ j * BankSize <= i /\ i < j * BankSize + BankSize
    BY <1>1, <1>5, LevelsAreInts DEF Bank
  <2>2. CASE j + 1 <= q
    <3>1. (j + 1) * BankSize <= q * BankSize
      BY <1>1, <1>2, <2>1, <2>2
    <3>2. (j + 1) * BankSize = j * BankSize + BankSize
      BY <1>1, <2>1
    <3> QED
      BY <1>1, <1>2, <2>1, <3>1, <3>2
  <2>3. CASE q + 1 <= j
    <3>1. (q + 1) * BankSize <= j * BankSize
      BY <1>1, <1>2, <2>1, <2>3
    <3>2. (q + 1) * BankSize = q * BankSize + BankSize
      BY <1>1, <1>2
    <3> QED
      BY <1>1, <1>2, <2>1, <3>1, <3>2
  <2> QED
    BY <1>2, <2>1, <2>2, <2>3
<1> QED
  BY <1>3, <1>4, <1>5 DEF q

\* A program counter the table holds is held by a bank.
LEMMA HeldByBank ==
  ASSUME NEW pc
  PROVE  Held(pc) <=> \E j \in Levels : Hits(j, pc) # {}
<1>1. ASSUME Held(pc) PROVE \E j \in Levels : Hits(j, pc) # {}
  <2>1. PICK i \in Slots : symbol_valid[i] /\ symbol_array[i] = pc
    BY <1>1 DEF Held
  <2>2. i \in Hits(i \div BankSize, pc)
    BY <2>1, BankOfSlot DEF Hits
  <2> QED
    BY <2>2, BankOfSlot
<1>2. ASSUME NEW j \in Levels, Hits(j, pc) # {} PROVE Held(pc)
  BY <1>2, BankInTable DEF Hits, Held
<1> QED
  BY <1>1, <1>2

\* What the unit looks up is what the banks find.
LEMMA FoundIsLookup ==
  ASSUME TypeOK, TableHoldsSent, NEW pc
  PROVE  /\ Unit!Known(Table, pc) <=> Held(pc)
         /\ Held(pc) => Found(pc) \in Slots /\ Unit!Lookup(Table, pc) = Found(pc)
<1>0. counter \in 0..NSym /\ NSym \in Nat /\ BankSize \in Nat \ {0}
  BY TraceAssumption DEF TypeOK, NSym
<1>1. DOMAIN Table = 1..counter /\ \A i \in 1..counter : Table[i] = symbol_array[i - 1]
  BY DEF Table
<1>2. \A i \in Slots : symbol_valid[i] <=> i < counter
  BY DEF TableHoldsSent
<1>3. \A i \in 1..counter : i - 1 \in Slots /\ i - 1 < counter
  BY <1>0 DEF Slots
<1>4. \A i \in Slots : i < counter => i + 1 \in 1..counter /\ (i + 1) - 1 = i
  BY <1>0 DEF Slots
<1>5. ASSUME Unit!Known(Table, pc) PROVE Held(pc)
  <2>1. PICK i \in 1..counter : Table[i] = pc
    BY <1>1, <1>5 DEF Unit!Known
  <2>2. symbol_valid[i - 1] /\ symbol_array[i - 1] = pc /\ i - 1 \in Slots
    BY <1>1, <1>2, <1>3, <2>1
  <2> QED
    BY <2>2 DEF Held
<1>6. ASSUME Held(pc) PROVE Unit!Known(Table, pc)
  <2>1. PICK i \in Slots : symbol_valid[i] /\ symbol_array[i] = pc
    BY <1>6 DEF Held
  <2>2. i + 1 \in 1..counter /\ Table[i + 1] = pc
    BY <1>1, <1>2, <1>4, <2>1
  <2> QED
    BY <1>1, <2>2 DEF Unit!Known
<1>7. ASSUME Held(pc)
      PROVE  Found(pc) \in Slots /\ Unit!Lookup(Table, pc) = Found(pc)
  <2> DEFINE H == {j \in Levels : Hits(j, pc) # {}}
             b == Last(H)
             f == First(Hits(b, pc))
             Best(i) == /\ Table[i] = pc
                        /\ \A k \in DOMAIN Table :
                             Table[k] = pc => \/ Unit!BankOf(k) < Unit!BankOf(i)
                                              \/ Unit!BankOf(k) = Unit!BankOf(i) /\ i <= k
  <2>1. b \in Levels /\ Hits(b, pc) # {} /\ \A j \in H : j <= b
    <3>1. H \in SUBSET Levels /\ H # {}
      BY <1>7, HeldByBank
    <3>2. b \in H /\ \A j \in H : j <= b
      BY <3>1, LastIsThere
    <3> QED
      BY <3>2
  <2>2. Hits(b, pc) \subseteq Slots /\ Slots \subseteq Nat
    <3>1. Bank(b) \subseteq Slots
      BY <2>1, BankInTable
    <3> QED
      BY <1>0, <3>1 DEF Hits, Slots
  <2>3. f \in Hits(b, pc) /\ \A i \in Hits(b, pc) : f <= i
    BY <2>1, <2>2, FirstIsThere
  <2> HIDE DEF b, f
  <2>4. f \in Slots /\ symbol_valid[f] /\ symbol_array[f] = pc /\ f \div BankSize = b
    BY <2>1, <2>2, <2>3, BankOfSlot DEF Hits
  <2>5. f + 1 \in 1..counter /\ (f + 1) - 1 = f /\ Table[f + 1] = pc
    BY <1>1, <1>2, <1>4, <2>4
  <2>6. ASSUME NEW k \in 1..counter, Table[k] = pc
        PROVE  /\ k - 1 \in Slots /\ (k - 1) \div BankSize \in Levels
               /\ \/ (k - 1) \div BankSize < b
                  \/ (k - 1) \div BankSize = b /\ f + 1 <= k
    <3> DEFINE i == k - 1
               q == i \div BankSize
    <3>1. i \in Slots /\ symbol_valid[i] /\ symbol_array[i] = pc
      BY <1>1, <1>2, <1>3, <2>6
    <3>2. q \in Levels /\ i \in Hits(q, pc)
      BY <3>1, BankOfSlot DEF Hits
    <3>3. q <= b
      BY <2>1, <3>2
    <3>4. q \in Int /\ b \in Int
      BY <3>2, <2>1, LevelsAreInts
    <3>5. CASE q = b
      <4>1. f <= i
        BY <2>3, <3>2, <3>5
      <4> QED
        BY <3>1, <3>2, <3>5, <4>1, <2>2, <2>4
    <3> QED
      BY <3>1, <3>2, <3>3, <3>4, <3>5
  <2>7. f + 1 \in DOMAIN Table /\ Best(f + 1)
    BY <1>1, <2>4, <2>5, <2>6 DEF Unit!BankOf, Unit!Index
  <2>8. ASSUME NEW i \in DOMAIN Table, Best(i) PROVE i = f + 1
    <3>1. /\ i \in 1..counter /\ Table[i] = pc /\ i \in Int /\ f + 1 \in Int
      BY <1>0, <1>1, <2>5, <2>8
    <3>2. \/ (i - 1) \div BankSize < b
          \/ (i - 1) \div BankSize = b /\ f + 1 <= i
      BY <2>6, <3>1
    <3>3. \/ b < (i - 1) \div BankSize
          \/ b = (i - 1) \div BankSize /\ i <= f + 1
      BY <2>4, <2>5, <2>7, <2>8 DEF Unit!BankOf, Unit!Index
    <3>4. b \in Int /\ (i - 1) \div BankSize \in Int
      BY <2>1, <2>6, <3>1, LevelsAreInts
    <3> QED
      BY <3>1, <3>2, <3>3, <3>4
  <2>9. (CHOOSE i \in DOMAIN Table : Best(i)) = f + 1
    BY <2>7, <2>8
  <2>10. Unit!Lookup(Table, pc) = (f + 1) - 1
    BY <2>9 DEF Unit!Lookup, Unit!Index
  <2>11. Found(pc) = f
    BY DEF Found, f, b
  <2> QED
    BY <2>4, <2>5, <2>10, <2>11
<1> QED
  BY <1>5, <1>6, <1>7

-----------------------------------------------------------------------------
(* The pipeline: what a stage has found, and why no lookup is under way    *)
(* when the table changes.                                                 *)

\* The pipeline is four stages at most, as in the code, and the core is held in
\* reset while the table is written.
HeldInReset == CoreHeld = TRUE /\ Banks <= 4

\* Since no PC retires while a write is in progress, the events of before are the
\* further down the pipeline the further the write has come: when symbol_en is
\* up, the only stage that can hold one is the last.
Drained ==
    /\ awvalid /\ awready => \A j \in Levels : stage[j].en => 1 <= j
    /\ ~awvalid /\ (wvalid \/ wowed) /\ ~wready => \A j \in Levels : stage[j].en => 2 <= j
    /\ wready => \A j \in Levels : stage[j].en => 3 <= j

\* The banks up to stage j that hold a PC, and what they have found for an event
\* that is in it.
Passed(j, pc) == {k \in 0..j : Hits(k, pc) # {}}
SearchedEvent(j, e) ==
    IF e.en
    THEN /\ e.valid <=> Passed(j, e.pc) # {}
         /\ e.valid => e.symbol = First(Hits(Last(Passed(j, e.pc)), e.pc))
    ELSE ~e.valid
Searched == \A j \in Levels : SearchedEvent(j, stage[j])

PipeInv == IInv /\ Drained /\ Searched

\* A clock moves every event one stage on.
LEMMA EventsMove ==
  ASSUME TypeOK, NEW in \in Retired, PcPipeline(in)
  PROVE  /\ 0 \in Levels
         /\ stage'[0] = LookedUp(0, Entering(in))
         /\ \A j, k \in Levels : k = j + 1 => stage'[k] = LookedUp(k, stage[j])
<1>1. 0 \in Levels /\ Levels \subseteq Int
  BY TraceAssumption DEF Levels
<1>2. \A j, k \in Levels : k = j + 1 => k # 0 /\ k - 1 = j
  BY <1>1 DEF Levels
<1> QED
  BY <1>1, <1>2 DEF PcPipeline

\* A lookup leaves the event's PC and time stamp alone.
LEMMA LookupKeeps ==
  ASSUME NEW e \in Event, NEW j
  PROVE  /\ LookedUp(j, e).en = e.en /\ LookedUp(j, e).pc = e.pc
         /\ LookedUp(j, e).perf = e.perf
BY DEF LookedUp, Event

\* While a write is in progress every event is a stage further than it was.
LEMMA Drains ==
  ASSUME TypeOK, HeldInReset, Writing, NEW in \in Retired, Core(in), PcPipeline(in),
         NEW n \in Int, \A j \in Levels : stage[j].en => n <= j
  PROVE  \A j \in Levels : stage'[j].en => n + 1 <= j
<1> SUFFICES ASSUME NEW k \in Levels, stage'[k].en PROVE n + 1 <= k
  OBVIOUS
<1>1. ~in.valid
  BY DEF Core, HeldInReset
<1>2. CASE k = 0
  <2>1. stage'[0].en = Entering(in).en
    BY EventsMove, EnteringIsEvent, LookupKeeps
  <2> QED
    BY <1>1, <1>2, <2>1 DEF Entering
<1>3. CASE k # 0
  <2>1. k - 1 \in Levels /\ k = (k - 1) + 1
    BY <1>3, TraceAssumption DEF Levels
  <2>2. stage'[k] = LookedUp(k, stage[k - 1]) /\ stage[k - 1] \in Event
    BY <2>1, EventsMove DEF TypeOK
  <2>3. stage[k - 1].en
    BY <2>2, LookupKeeps
  <2>4. n <= k - 1 /\ k \in Int
    BY <2>1, <2>3, LevelsAreInts
  <2> QED
    BY <2>4
<1> QED
  BY <1>2, <1>3

\* A clock keeps the pipeline as drained as the write has come far.
LEMMA TickDrained ==
  ASSUME TypeOK, HandshakeInv, Drained, HeldInReset, AxiWrite, HostWrite,
         NEW in \in Retired, Core(in), PcPipeline(in)
  PROVE  Drained'
<1> USE DEF TypeOK, HandshakeInv
<1>0. /\ awvalid \in BOOLEAN /\ wvalid \in BOOLEAN /\ wowed \in BOOLEAN
      /\ awready \in BOOLEAN /\ wready \in BOOLEAN
      /\ Levels' = Levels
  BY DEF Levels
<1>1. \A j \in Levels : stage[j].en => 0 <= j
  BY TraceAssumption DEF Levels
<1>2. ASSUME awvalid', awready'
      PROVE  \A j \in Levels : stage'[j].en => 1 <= j
  <2>1. awvalid
    BY <1>2 DEF AxiWrite, AcceptAddress, AcceptData, AnswerWrite, EndWrite
  <2>2. \A j \in Levels : stage'[j].en => 0 + 1 <= j
    BY <1>1, <2>1, Drains DEF Writing
  <2> QED
    BY <2>2
<1>3. ASSUME ~awvalid', wvalid' \/ wowed', ~wready'
      PROVE  \A j \in Levels : stage'[j].en => 2 <= j
  <2>1. CASE awvalid
    <3>1. awready
      BY <1>3, <2>1 DEF HostWrite, Writing
    <3>2. \A j \in Levels : stage'[j].en => 1 + 1 <= j
      BY <2>1, <3>1, Drains DEF Writing, Drained
    <3> QED
      BY <3>2
  <2>2. CASE ~awvalid
    <3>1. (wvalid \/ wowed) /\ ~wready
      BY <1>3, <2>2 DEF HostWrite, Writing
    <3>2. \A j \in Levels : stage'[j].en => 2 + 1 <= j
      BY <2>2, <3>1, Drains DEF Writing, Drained
    <3>3. \A j \in Levels : 2 + 1 <= j => 2 <= j
      BY LevelsAreInts
    <3> QED
      BY <3>2, <3>3
  <2> QED
    BY <2>1, <2>2
<1>4. ASSUME wready'
      PROVE  \A j \in Levels : stage'[j].en => 3 <= j
  <2>1. CASE wready
    <3>1. awvalid
      BY <1>4, <2>1 DEF AxiWrite, AcceptAddress, AcceptData, AnswerWrite, EndWrite
    <3> QED
      BY <2>1, <3>1
  <2>2. CASE ~wready
    <3>1. ~awvalid /\ wvalid
      BY <1>4, <2>2 DEF AxiWrite, AcceptAddress, AcceptData, AnswerWrite, EndWrite
    <3>2. \A j \in Levels : stage'[j].en => 2 + 1 <= j
      BY <2>2, <3>1, Drains DEF Writing, Drained
    <3> QED
      BY <3>2
  <2> QED
    BY <2>1, <2>2
<1> QED
  BY <1>0, <1>2, <1>3, <1>4 DEF Drained

\* An event that has passed a bank has what the bank found.
LEMMA LookupSearches ==
  ASSUME NEW j \in Levels, NEW e \in Event,
         IF j = 0 THEN ~e.valid ELSE SearchedEvent(j - 1, e)
  PROVE  SearchedEvent(j, LookedUp(j, e))
<1> DEFINE pc == e.pc
           P == Passed(j, pc)
           Q == IF j = 0 THEN {} ELSE Passed(j - 1, pc)
<1>0. e.valid \in BOOLEAN /\ e.en \in BOOLEAN /\ j \in Int /\ 0 <= j /\ Levels \subseteq Int
  BY LevelsAreInts DEF Event, Levels
<1>1. CASE ~e.en
  BY <1>0, <1>1 DEF LookedUp, SearchedEvent
<1>2. CASE e.en
  <2>1. e.valid <=> Q # {}
    BY <1>2 DEF SearchedEvent
  <2>2. e.valid => e.symbol = First(Hits(Last(Q), pc))
    BY <1>2 DEF SearchedEvent
  <2>3. P \in SUBSET Levels
    <3>1. \A k \in 0..j : k \in Levels
      BY <1>0, TraceAssumption DEF Levels
    <3> QED
      BY <3>1 DEF Passed
  <2>4. P = Q \cup (IF Hits(j, pc) # {} THEN {j} ELSE {})
    <3>1. \A k \in 0..j : k = j \/ (j # 0 /\ k \in 0..(j - 1))
      BY <1>0
    <3>2. j # 0 => 0..(j - 1) \subseteq 0..j
      BY <1>0
    <3>3. j \in 0..j
      BY <1>0
    <3> QED
      BY <3>1, <3>2, <3>3 DEF Passed
  <2>5. CASE Hits(j, pc) # {}
    <3>1. j \in P /\ \A k \in P : k <= j
      BY <1>0, <2>4, <2>5 DEF Passed
    <3>2. Last(P) = j
      BY <2>3, <3>1, LastIs
    <3>3. /\ LookedUp(j, e).en /\ LookedUp(j, e).pc = pc /\ LookedUp(j, e).valid = TRUE
          /\ LookedUp(j, e).symbol = First(Hits(j, pc))
      BY <1>2, <2>5 DEF LookedUp, Event
    <3> HIDE DEF P, pc
    <3> QED
      BY <3>1, <3>2, <3>3 DEF SearchedEvent, P
  <2>6. CASE Hits(j, pc) = {}
    <3>1. P = Q
      BY <2>4, <2>6
    <3>2. LookedUp(j, e) = e
      BY <2>6 DEF LookedUp
    <3> HIDE DEF Q
    <3> QED
      BY <1>2, <2>1, <2>2, <3>1, <3>2 DEF SearchedEvent
  <2> QED
    BY <2>5, <2>6
<1> QED
  BY <1>0, <1>1, <1>2

\* Events of one clock after another, with the table as it was.
LEMMA TickSearched ==
  ASSUME TypeOK, HandshakeInv, Drained, Searched, HeldInReset, SymbolFifo,
         NEW in \in Retired, Core(in), PcPipeline(in)
  PROVE  Searched'
<1>0. /\ Levels' = Levels /\ Levels \subseteq Int /\ 0 \in Levels
      /\ \A j \in Levels : Bank(j)' = Bank(j)
  BY LevelsAreInts, EventsMove DEF Levels, Bank
<1>1. CASE symbol_en
  <2>1. wready /\ Writing
    BY <1>1 DEF HandshakeInv, Writing
  <2>2. \A j \in Levels : stage'[j].en => 3 + 1 <= j
    BY <2>1, Drains DEF Drained
  <2>3. \A j \in Levels : ~ (3 + 1 <= j)
    BY TraceAssumption DEF Levels, HeldInReset
  <2>4. \A j \in Levels : ~stage'[j].en
    BY <2>2, <2>3
  <2>5. ASSUME NEW k \in Levels PROVE ~stage'[k].valid
    <3>1. CASE k = 0
      <4>1. /\ stage'[0] = LookedUp(0, Entering(in)) /\ Entering(in) \in Event
            /\ ~Entering(in).valid
        BY EventsMove, EnteringIsEvent DEF Entering
      <4>2. ~Entering(in).en
        BY <2>4, <3>1, <4>1, LookupKeeps
      <4> QED
        BY <3>1, <4>1, <4>2 DEF LookedUp
    <3>2. CASE k # 0
      <4>1. k - 1 \in Levels /\ k = (k - 1) + 1
        BY <3>2, TraceAssumption DEF Levels
      <4>2. stage'[k] = LookedUp(k, stage[k - 1]) /\ stage[k - 1] \in Event
        BY <4>1, EventsMove DEF TypeOK
      <4>3. ~stage[k - 1].en
        BY <2>4, <4>2, LookupKeeps
      <4>4. ~stage[k - 1].valid
        BY <4>1, <4>3 DEF Searched, SearchedEvent
      <4> QED
        BY <4>2, <4>3, <4>4 DEF LookedUp
    <3> QED
      BY <3>1, <3>2
  <2> QED
    BY <1>0, <2>4, <2>5 DEF Searched, SearchedEvent
<1>2. CASE ~symbol_en
  <2>1. UNCHANGED symbolVars
    BY <1>2 DEF SymbolFifo
  <2>2. ASSUME NEW j, NEW pc PROVE Hits(j, pc)' = Hits(j, pc)
    BY <2>1 DEF Hits, symbolVars, Bank
  <2>3. ASSUME NEW j, NEW pc PROVE Passed(j, pc)' = Passed(j, pc)
    BY <2>2 DEF Passed
  <2>4. ASSUME NEW k \in Levels PROVE SearchedEvent(k, stage'[k])
    <3>1. CASE k = 0
      <4>1. /\ stage'[0] = LookedUp(0, Entering(in)) /\ Entering(in) \in Event
            /\ ~Entering(in).valid
        BY EventsMove, EnteringIsEvent DEF Entering
      <4> QED
        BY <3>1, <4>1, LookupSearches
    <3>2. CASE k # 0
      <4>1. k - 1 \in Levels /\ k = (k - 1) + 1
        BY <3>2, TraceAssumption DEF Levels
      <4>2. stage'[k] = LookedUp(k, stage[k - 1]) /\ stage[k - 1] \in Event
        BY <4>1, EventsMove DEF TypeOK
      <4>3. SearchedEvent(k - 1, stage[k - 1])
        BY <4>1 DEF Searched
      <4> QED
        BY <3>2, <4>2, <4>3, LookupSearches
    <3> QED
      BY <3>1, <3>2
  <2>5. ASSUME NEW k \in Levels PROVE SearchedEvent(k, stage[k])'
    BY <2>2, <2>3, <2>4 DEF SearchedEvent
  <2> QED
    BY <1>0, <2>5 DEF Searched
<1> QED
  BY <1>1, <1>2 DEF TypeOK

\* Every clock edge, and every stutter, keeps what is known of the pipeline.
LEMMA TickPipe == HeldInReset /\ PipeInv /\ [Tick]_vars => PipeInv'
<1> SUFFICES ASSUME HeldInReset, PipeInv, [Tick]_vars PROVE PipeInv'
  OBVIOUS
<1>1. CASE Tick
  <2>1. PICK in \in Retired : Edge(in)
    BY <1>1 DEF Tick
  <2>2. IInv'
    BY <1>1, TickInv DEF PipeInv
  <2>3. /\ TypeOK /\ HandshakeInv /\ Drained /\ Searched
        /\ SymbolFifo /\ AxiWrite /\ HostWrite /\ Core(in) /\ PcPipeline(in)
    BY <2>1 DEF PipeInv, IInv, Edge
  <2>4. Drained' /\ Searched'
    BY <2>3, TickDrained, TickSearched
  <2> QED
    BY <2>2, <2>4 DEF PipeInv
<1>2. CASE UNCHANGED vars
  <2>1. Drained'
    BY <1>2 DEF PipeInv, Drained, Levels, vars, readVars, writeVars, hostVars
  <2>2. UNCHANGED <<stage, symbolVars>>
    BY <1>2 DEF vars
  <2>3. ASSUME NEW j, NEW e PROVE SearchedEvent(j, e)' <=> SearchedEvent(j, e)
    BY <2>2 DEF SearchedEvent, Passed, Hits, Bank, symbolVars
  <2>4. Searched'
    BY <2>2, <2>3 DEF PipeInv, Searched, Levels
  <2>5. IInv'
    BY <1>2, TickInv DEF PipeInv
  <2> QED
    BY <2>1, <2>4, <2>5 DEF PipeInv
<1> QED
  BY <1>1, <1>2

\* The pipeline is empty after the reset.
LEMMA InitPipe == Init => PipeInv
<1> SUFFICES ASSUME Init PROVE PipeInv
  OBVIOUS
<1>1. Drained /\ Searched
  BY DEF Init, Drained, Searched, SearchedEvent
<1> QED
  BY <1>1, InitInv DEF PipeInv

-----------------------------------------------------------------------------
(* The hits in flight.                                                     *)

\* The stages that will give a hit move with their events, and each keeps the hit
\* that is promised; one enters when a PC that the table holds retires.
LEMMA DueMoves ==
  ASSUME PipeInv, HeldInReset, NEW in \in Retired, Edge(in)
  PROVE  /\ Due \in SUBSET Levels /\ Due' \in SUBSET Levels /\ Shifts(Due, Due')
         /\ \A j, k \in Levels : k = j + 1 /\ j \in Due => Promised'[k] = Promised[j]
         /\ 0 \in Due' <=> in.valid /\ Held(in.pc)
         /\ 0 \in Due' => Promised'[0] = [perf |-> in.perf, symbol |-> Found(in.pc)]
<1>0. /\ TypeOK /\ HandshakeInv /\ Drained /\ SymbolFifo /\ Core(in) /\ PcPipeline(in)
      /\ Levels' = Levels /\ Levels \subseteq Int /\ Slots' = Slots
  BY LevelsAreInts DEF PipeInv, IInv, Edge, Levels, Slots, NSym
<1>1. Due \in SUBSET Levels /\ Due' \in SUBSET Levels
  BY <1>0 DEF Due
<1>2. CASE symbol_en
  <2>1. wready /\ Writing /\ ~in.valid
    BY <1>0, <1>2 DEF HandshakeInv, Writing, Core, HeldInReset
  <2>2. \A j \in Levels : stage[j].en => 3 <= j
    BY <1>0, <2>1 DEF Drained
  <2>3. \A j \in Levels : stage'[j].en => 3 + 1 <= j
    BY <1>0, <2>1, <2>2, Drains
  <2>4. \A j \in Levels : ~ (3 + 1 <= j)
    BY TraceAssumption DEF Levels, HeldInReset
  <2>5. Due' = {} /\ \A j \in Due : 3 <= j
    BY <1>0, <2>2, <2>3, <2>4 DEF Due
  <2>6. \A j, k \in Levels : ~ (k = j + 1 /\ j \in Due)
    <3> SUFFICES ASSUME NEW j \in Levels, NEW k \in Levels, k = j + 1, j \in Due
                 PROVE  FALSE
      OBVIOUS
    <3>1. j \in Int /\ 3 <= j
      BY <1>0, <2>5
    <3> QED
      BY <2>4, <3>1
  <2> QED
    BY <1>1, <2>1, <2>5, <2>6 DEF Shifts
<1>3. CASE ~symbol_en
  <2>1. UNCHANGED symbolVars
    BY <1>0, <1>3 DEF SymbolFifo
  <2>2. ASSUME NEW pc PROVE Held(pc)' = Held(pc) /\ Found(pc)' = Found(pc)
    BY <1>0, <2>1 DEF Held, Found, Hits, symbolVars, Bank
  <2>3. ASSUME NEW j \in Levels, NEW k \in Levels, k = j + 1
        PROVE  /\ stage'[k].en = stage[j].en /\ stage'[k].pc = stage[j].pc
               /\ stage'[k].perf = stage[j].perf
    <3>1. stage'[k] = LookedUp(k, stage[j]) /\ stage[j] \in Event
      BY <1>0, <2>3, EventsMove DEF TypeOK
    <3> QED
      BY <3>1, LookupKeeps
  <2>4. ASSUME NEW j \in Levels, NEW k \in Levels, k = j + 1
        PROVE  j \in Due <=> k \in Due'
    BY <1>0, <2>2, <2>3, <2>4 DEF Due
  <2>5. ASSUME NEW j \in Levels, NEW k \in Levels, k = j + 1, j \in Due
        PROVE  Promised'[k] = Promised[j]
    BY <2>2, <2>3, <2>4, <2>5 DEF Promised
  <2>6. stage'[0].en = in.valid /\ stage'[0].pc = in.pc /\ stage'[0].perf = in.perf
    <3>1. stage'[0] = LookedUp(0, Entering(in)) /\ Entering(in) \in Event
      BY <1>0, EventsMove, EnteringIsEvent
    <3> QED
      BY <3>1, LookupKeeps DEF Entering
  <2>7. 0 \in Due' <=> in.valid /\ Held(in.pc)
    BY <1>0, <2>2, <2>6, EventsMove DEF Due
  <2>8. 0 \in Due' => Promised'[0] = [perf |-> in.perf, symbol |-> Found(in.pc)]
    BY <2>2, <2>6 DEF Promised
  <2> QED
    BY <1>1, <2>4, <2>5, <2>7, <2>8 DEF Shifts
<1> QED
  BY <1>2, <1>3, <1>0 DEF TypeOK

\* What leaves the pipeline is the hit that was promised.
LEMMA DueLeaves ==
  ASSUME PipeInv
  PROVE  /\ Banks - 1 \in Due <=> Leaving.valid
         /\ Leaving.valid =>
              Promised[Banks - 1] = [perf |-> Leaving.perf, symbol |-> Leaving.symbol]
<1>1. Banks - 1 \in Levels /\ 0..(Banks - 1) = Levels /\ Leaving \in Event
  BY TraceAssumption DEF Levels, Leaving, PipeInv, IInv, TypeOK
<1>2. SearchedEvent(Banks - 1, Leaving)
  BY <1>1 DEF PipeInv, Searched, Leaving
<1>3. Passed(Banks - 1, Leaving.pc) = {j \in Levels : Hits(j, Leaving.pc) # {}}
  BY <1>1 DEF Passed
<1>4. Leaving.valid <=> Leaving.en /\ Held(Leaving.pc)
  BY <1>2, <1>3, HeldByBank DEF SearchedEvent
<1>5. Leaving.valid => Leaving.symbol = Found(Leaving.pc)
  BY <1>2, <1>3, <1>4 DEF SearchedEvent, Found
<1> QED
  BY <1>1, <1>4, <1>5 DEF Due, Promised, Leaving

\* A sequence of values of V of which g may leave at the head and c may come at
\* the end: what is left in G of F, and what is new.
QueueMove(V, F, G, g, c, new, rest) ==
    /\ F \in Seq(V) /\ G \in Seq(V) /\ new \in V
    /\ g \in {0, 1} /\ c \in {0, 1}
    /\ g <= Len(F) /\ Len(G) = Len(F) - g + c
    /\ \A k \in 1..(Len(F) - g) : G[k] = F[k + g]
    /\ c = 1 => G[Len(G)] = new
    /\ rest = IF g = 1 THEN Tail(F) ELSE F

\* Such a sequence is the one of before without its head, with the new one appended.
LEMMA QueueMoves ==
  ASSUME NEW V, NEW F, NEW G, NEW g, NEW c, NEW new, NEW rest,
         QueueMove(V, F, G, g, c, new, rest)
  PROVE  /\ G = IF c = 1 THEN Append(rest, new) ELSE rest
         /\ G # rest <=> c = 1
<1> USE DEF QueueMove
<1>1. rest \in Seq(V) /\ Len(rest) = Len(F) - g
  OBVIOUS
<1>2. \A k \in 1..Len(rest) : rest[k] = F[k + g]
  BY <1>1
<1>3. CASE c = 0
  <2>1. Len(G) = Len(rest) /\ \A k \in 1..Len(G) : G[k] = rest[k]
    BY <1>1, <1>2, <1>3
  <2>2. G = rest
    BY <1>1, <2>1
  <2> QED
    BY <1>3, <2>2
<1>4. CASE c = 1
  <2> DEFINE A == Append(rest, new)
  <2>1. A \in Seq(V) /\ Len(A) = Len(rest) + 1 /\ A[Len(A)] = new
    BY <1>1
  <2>2. \A k \in 1..Len(rest) : A[k] = rest[k]
    BY <1>1
  <2>3. Len(G) = Len(A) /\ Len(G) \in Nat
    BY <1>1, <1>4, <2>1
  <2> HIDE DEF A
  <2>4. ASSUME NEW k \in 1..Len(G) PROVE G[k] = A[k]
    <3>1. CASE k = Len(G)
      BY <1>4, <2>1, <2>3, <3>1
    <3>2. CASE k # Len(G)
      <4>1. k \in 1..Len(rest)
        BY <1>1, <1>4, <2>3, <3>2
      <4> QED
        BY <1>1, <1>2, <2>2, <4>1
    <3> QED
      BY <3>1, <3>2
  <2>5. G = A
    BY <2>1, <2>3, <2>4, SeqEqual
  <2>6. G # rest
    BY <1>1, <1>4
  <2> QED
    BY <1>4, <2>5, <2>6 DEF A
<1> QED
  BY <1>3, <1>4

\* The hits in flight after a clock.
LEMMA TickFlight ==
  ASSUME PipeInv, HeldInReset, NEW in \in Retired, Edge(in)
  PROVE  LET rest == IF Leaving.valid THEN Tail(Flight) ELSE Flight
         IN  /\ Leaving.valid =>
                  /\ Flight # << >>
                  /\ Head(Flight) = [perf |-> Leaving.perf, symbol |-> Leaving.symbol]
             /\ Flight' = IF in.valid /\ Held(in.pc)
                          THEN Append(rest, [perf |-> in.perf, symbol |-> Found(in.pc)])
                          ELSE rest
             /\ Flight' # rest <=> in.valid /\ Held(in.pc)
             /\ Len(Flight') <= Banks
<1> DEFINE S == Due
           T == Due'
           n == Cardinality(S)
           m == Cardinality(T)
           g == Goes(S)
           c == Comes(T)
           F == Flight
           G == Flight'
           rest == IF Leaving.valid THEN Tail(F) ELSE F
           new == [perf |-> in.perf, symbol |-> Found(in.pc)]
<1>1. /\ S \in SUBSET Levels /\ T \in SUBSET Levels /\ Shifts(S, T)
      /\ 0 \in T <=> in.valid /\ Held(in.pc)
      /\ 0 \in T => Promised'[0] = new
  BY DueMoves
<1>2. /\ n \in Nat /\ m \in Nat /\ m <= Banks /\ g \in {0, 1} /\ c \in {0, 1}
      /\ m = n - g + c
  BY <1>1, LevelsFinite, FlightMoves DEF Goes, Comes
<1>3. /\ F = [k \in 1..n |-> Promised[Nth(S, k)]]
      /\ G = [k \in 1..m |-> Promised'[Nth(T, k)]]
  BY DEF Flight
<1>4. g = 1 <=> Leaving.valid
  BY DueLeaves DEF Goes
<1>5. c = 1 <=> in.valid /\ Held(in.pc)
  BY <1>1 DEF Comes
<1>6. ASSUME g = 1 PROVE n >= 1
  <2>1. IsFiniteSet(S) /\ S # {}
    BY <1>1, <1>6, LevelsFinite DEF Goes
  <2>2. n # 0
    BY <2>1, FS_EmptySet
  <2> QED
    BY <1>2, <2>2
<1>7. ASSUME g = 1
      PROVE  F[1] = [perf |-> Leaving.perf, symbol |-> Leaving.symbol]
  <2>1. Nth(S, 1) = Banks - 1
    BY <1>1, <1>7, FlightMoves
  <2> QED
    BY <1>2, <1>3, <1>4, <1>6, <1>7, <2>1, DueLeaves
<1>8. ASSUME NEW k \in 1..(n - g) PROVE G[k] = F[k + g]
  <2> DEFINE j == Nth(S, k + g)
  <2>1. k \in 1..m /\ k + g \in 1..n
    BY <1>2
  <2>2. j + 1 \in Levels /\ Nth(T, k) = j + 1
    BY <1>1, FlightMoves
  <2>3. j \in Due /\ j \in Levels
    BY <1>1, <2>1, NthIsThere
  <2> HIDE DEF j
  <2>4. Promised'[j + 1] = Promised[j]
    BY <2>2, <2>3, DueMoves
  <2> QED
    BY <1>3, <2>1, <2>2, <2>4 DEF j
<1>9. ASSUME c = 1 PROVE G[m] = new
  <2>1. m \in 1..m /\ Nth(T, m) = 0
    BY <1>1, <1>2, <1>6, <1>9, FlightMoves
  <2> QED
    BY <1>1, <1>3, <1>9, <2>1 DEF Comes
<1> HIDE DEF S, T, n, m, g, c, F, G, new
<1>10. /\ F \in Seq(Range(F)) /\ Len(F) = n
       /\ G \in Seq(Range(G)) /\ Len(G) = m
  BY <1>2, <1>3 DEF Range
<1>11. /\ G = IF c = 1 THEN Append(rest, new) ELSE rest
       /\ G # rest <=> c = 1
  <2> DEFINE V == Range(F) \cup Range(G) \cup {new}
  <2>1. F \in Seq(V) /\ G \in Seq(V) /\ new \in V
    BY <1>10
  <2>2. rest = IF g = 1 THEN Tail(F) ELSE F
    BY <1>4
  <2>3. g <= Len(F) /\ Len(G) = Len(F) - g + c
    BY <1>2, <1>6, <1>10
  <2>4. \A k \in 1..(Len(F) - g) : G[k] = F[k + g]
    BY <1>8, <1>10
  <2>5. c = 1 => G[Len(G)] = new
    BY <1>9, <1>10
  <2> HIDE DEF V, rest
  <2>6. QueueMove(V, F, G, g, c, new, rest)
    BY <1>2, <2>1, <2>2, <2>3, <2>4, <2>5 DEF QueueMove
  <2> QED
    BY <2>6, QueueMoves
<1>12. Leaving.valid => F # << >> /\ Head(F) = F[1]
  BY <1>2, <1>4, <1>6, <1>10
<1>13. Len(G) <= Banks
  BY <1>2, <1>10
<1> QED
  BY <1>4, <1>5, <1>7, <1>11, <1>12, <1>13 DEF F, G, new

-----------------------------------------------------------------------------
(* The columns of marks.                                                   *)

\* One turn of the ring.
LEMMA Wraps ==
  ASSUME NEW D \in Nat \ {0}, NEW x \in Nat, x < 2 * D
  PROVE  x % D = IF x < D THEN x ELSE x - D
OBVIOUS

\* The distance from one place of the ring to another.
LEMMA WrapsBack ==
  ASSUME NEW D \in Nat \ {0}, NEW a \in 0..(D - 1), NEW b \in 0..(D - 1)
  PROVE  (a - b) % D = IF b <= a THEN a - b ELSE a - b + D
<1>1. CASE b <= a
  <2> DEFINE x == a - b
  <2>1. x \in Nat /\ x < D /\ x < 2 * D
    BY <1>1
  <2> HIDE DEF x
  <2>2. x % D = x
    BY <2>1, Wraps
  <2> QED
    BY <1>1, <2>2 DEF x
<1>2. CASE ~(b <= a)
  <2>1. a - b + D \in 0..(D - 1)
    BY <1>2
  <2> QED
    BY <1>2, <2>1
<1> QED
  BY <1>1, <1>2

\* What a column of the ring holds from place p up to the place w to be written.
Column(g, w, p) == [k \in 1..((w - p) % MarkDepth) |-> g[Place(p, k)]]

\* A column is as long as its pointers are apart, and never as long as the ring.
LEMMA ColumnLength ==
  ASSUME NEW g, NEW w \in Ring, NEW p \in Ring
  PROVE  /\ (w - p) % MarkDepth = IF p <= w THEN w - p ELSE w - p + MarkDepth
         /\ (w - p) % MarkDepth \in Ring
         /\ DOMAIN Column(g, w, p) = 1..((w - p) % MarkDepth)
         /\ Len(Column(g, w, p)) = (w - p) % MarkDepth
         /\ Column(g, w, p) = << >> <=> w = p
<1> DEFINE n == (w - p) % MarkDepth
<1>1. n = IF p <= w THEN w - p ELSE w - p + MarkDepth
  BY WrapsBack, TraceAssumption DEF Ring
<1>2. n \in Ring /\ n \in Nat /\ (n = 0 <=> w = p)
  BY <1>1, TraceAssumption DEF Ring
<1> HIDE DEF n
<1>3. DOMAIN Column(g, w, p) = 1..n /\ Len(Column(g, w, p)) = n
  BY <1>2 DEF Column, n
<1>4. Column(g, w, p) = << >> <=> n = 0
  <2>1. ASSUME n = 0 PROVE Column(g, w, p) = << >>
    <3>1. 1..n = {}
      BY <2>1
    <3> QED
      BY <3>1 DEF Column, n
  <2>2. ASSUME Column(g, w, p) = << >> PROVE n = 0
    <3>1. Len(Column(g, w, p)) = 0
      BY <2>2
    <3> QED
      BY <1>3, <3>1
  <2> QED
    BY <2>1, <2>2
<1> QED
  BY <1>1, <1>2, <1>3, <1>4 DEF n

\* The places of a column are in the ring, and one that is not full never has the
\* place to be written twice.
LEMMA ColumnPlaces ==
  ASSUME NEW w \in Ring, NEW p \in Ring, NEW k \in 1..MarkDepth
  PROVE  /\ Place(p, k) \in Ring
         /\ Place(p, k) = IF p + k - 1 < MarkDepth THEN p + k - 1 ELSE p + k - 1 - MarkDepth
         /\ k <= (w - p) % MarkDepth => Place(p, k) # w
         /\ k = ((w - p) % MarkDepth) + 1 => Place(p, k) = w
<1>1. /\ MarkDepth \in Nat \ {0} /\ w \in 0..(MarkDepth - 1) /\ p \in 0..(MarkDepth - 1)
      /\ p + k - 1 \in Nat /\ p + k - 1 < 2 * MarkDepth
  BY TraceAssumption DEF Ring
<1>2. Place(p, k) = IF p + k - 1 < MarkDepth THEN p + k - 1 ELSE p + k - 1 - MarkDepth
  <2> DEFINE x == p + k - 1
  <2> HIDE DEF x
  <2>1. x % MarkDepth = IF x < MarkDepth THEN x ELSE x - MarkDepth
    BY <1>1, Wraps DEF x
  <2>2. Place(p, k) = x % MarkDepth
    BY Zenon DEF x, Place
  <2>3. Place(p, k) = IF x < MarkDepth THEN x ELSE x - MarkDepth
    BY <2>1, <2>2
  <2> QED
    BY <1>1, <2>3 DEF x
<1>3. (w - p) % MarkDepth = IF p <= w THEN w - p ELSE w - p + MarkDepth
  BY <1>1, WrapsBack
<1> QED
  BY <1>1, <1>2, <1>3 DEF Ring

\* The place after the last is the first.
LEMMA SuccWraps ==
  ASSUME NEW p \in Ring
  PROVE  /\ Succ(p) \in Ring
         /\ Succ(p) = IF p + 1 = MarkDepth THEN 0 ELSE p + 1
<1>1. /\ MarkDepth \in Nat \ {0} /\ p \in 0..(MarkDepth - 1) /\ p + 1 \in Nat
      /\ p + 1 < 2 * MarkDepth
  BY TraceAssumption DEF Ring
<1>2. Succ(p) = IF p + 1 < MarkDepth THEN p + 1 ELSE p + 1 - MarkDepth
  <2> DEFINE x == p + 1
  <2> HIDE DEF x
  <2>1. x % MarkDepth = IF x < MarkDepth THEN x ELSE x - MarkDepth
    BY <1>1, Wraps DEF x
  <2>2. Succ(p) = x % MarkDepth
    BY Zenon DEF x, Succ
  <2>3. Succ(p) = IF x < MarkDepth THEN x ELSE x - MarkDepth
    BY <2>1, <2>2
  <2> QED
    BY <1>1, <2>3 DEF x
<1> QED
  BY <1>1, <1>2, SuccInRing

\* A pop takes the head of the column.
LEMMA ColumnPopped ==
  ASSUME NEW V, NEW g \in [Ring -> V], NEW w \in Ring, NEW p \in Ring, w # p
  PROVE  /\ Head(Column(g, w, p)) = g[p]
         /\ Column(g, w, Succ(p)) = Tail(Column(g, w, p))
<1> DEFINE n == (w - p) % MarkDepth
           C == Column(g, w, p)
           B == Column(g, w, Succ(p))
<1>1. /\ MarkDepth \in Nat \ {0} /\ Succ(p) \in Ring /\ n \in 0..(MarkDepth - 1) /\ n # 0
      /\ DOMAIN C = 1..n /\ Len(C) = n
  <2>1. n \in Ring /\ DOMAIN C = 1..n /\ Len(C) = n /\ C # << >>
    BY ColumnLength
  <2> HIDE DEF n
  <2>2. C = << >> <=> n = 0
    <3>1. p \in 0..(MarkDepth - 1) /\ w \in 0..(MarkDepth - 1) /\ MarkDepth \in Nat
      BY TraceAssumption DEF Ring
    <3>2. n = IF p <= w THEN w - p ELSE w - p + MarkDepth
      BY ColumnLength DEF n
    <3>3. n # 0
      BY <3>1, <3>2
    <3> QED
      BY <2>1, <3>3
  <2> QED
    BY <2>1, <2>2, SuccWraps, TraceAssumption DEF Ring
<1>2. (w - Succ(p)) % MarkDepth = n - 1
  <2>1. /\ p \in 0..(MarkDepth - 1) /\ w \in 0..(MarkDepth - 1)
        /\ Succ(p) = IF p + 1 = MarkDepth THEN 0 ELSE p + 1
    BY SuccWraps DEF Ring
  <2>2. n = IF p <= w THEN w - p ELSE w - p + MarkDepth
    BY ColumnLength
  <2>3. (w - Succ(p)) % MarkDepth
          = IF Succ(p) <= w THEN w - Succ(p) ELSE w - Succ(p) + MarkDepth
    BY <1>1, ColumnLength
  <2> HIDE DEF n
  <2> QED
    BY <1>1, <2>1, <2>2, <2>3
<1>3. \A k \in 1..n : C[k] = g[Place(p, k)]
  BY DEF Column
<1>4. B = [k \in 1..(n - 1) |-> g[Place(Succ(p), k)]]
  BY <1>2 DEF Column
<1>5. ASSUME NEW k \in 1..(n - 1) PROVE Place(Succ(p), k) = Place(p, k + 1)
  <2>1. k \in 1..MarkDepth /\ k + 1 \in 1..MarkDepth /\ k \in Int
    BY <1>1
  <2>2. Place(p, k + 1)
          = IF p + (k + 1) - 1 < MarkDepth THEN p + (k + 1) - 1 ELSE p + (k + 1) - 1 - MarkDepth
    BY <2>1, ColumnPlaces
  <2>3. Place(Succ(p), k)
          = IF Succ(p) + k - 1 < MarkDepth THEN Succ(p) + k - 1 ELSE Succ(p) + k - 1 - MarkDepth
    BY <1>1, <2>1, ColumnPlaces
  <2>4. /\ p \in 0..(MarkDepth - 1)
        /\ Succ(p) = IF p + 1 = MarkDepth THEN 0 ELSE p + 1
    BY SuccWraps DEF Ring
  <2> HIDE DEF n
  <2> QED
    BY <1>1, <2>1, <2>2, <2>3, <2>4
<1>6. C \in Seq(V)
  <2>1. \A k \in 1..n : Place(p, k) \in Ring
    <3>1. \A k \in 1..n : k \in 1..MarkDepth
      BY <1>1
    <3> QED
      BY <3>1, ColumnPlaces
  <2>2. C \in [1..n -> V]
    BY <2>1 DEF Column
  <2> HIDE DEF C
  <2> QED
    BY <1>1, <2>2
<1>7. Head(C) = g[p]
  <2>1. 1 \in 1..n /\ 1 \in 1..MarkDepth
    BY <1>1
  <2>2. Place(p, 1) = p
    BY <2>1, ColumnPlaces, TraceAssumption DEF Ring
  <2> QED
    BY <1>1, <1>3, <1>6, <2>1, <2>2
<1>8. ASSUME NEW k \in 1..(n - 1) PROVE B[k] = C[k + 1]
  <2>1. k + 1 \in 1..n
    BY <1>1
  <2> QED
    BY <1>3, <1>4, <1>5, <2>1
<1>9. B \in Seq(V) /\ Len(B) = n - 1
  <2>1. ASSUME NEW k \in 1..(n - 1) PROVE B[k] \in V
    <3>1. k + 1 \in 1..Len(C)
      BY <1>1
    <3>2. C[k + 1] \in V
      BY <1>6, <3>1
    <3> QED
      BY <1>8, <3>2
  <2>2. B \in [1..(n - 1) -> V] /\ n - 1 \in Nat
    BY <1>1, <1>4, <2>1
  <2> HIDE DEF B
  <2> QED
    BY <2>2
<1> HIDE DEF n, C, B
<1>10. Tail(C) \in Seq(V) /\ Len(Tail(C)) = n - 1 /\ \A k \in 1..(n - 1) : Tail(C)[k] = C[k + 1]
  BY <1>1, <1>6
<1>11. B = Tail(C)
  BY <1>8, <1>9, <1>10, SeqEqual
<1> QED
  BY <1>7, <1>11 DEF B, C

\* h is g with x at place w.
Overwritten(g, h, w, x) == h = [g EXCEPT ![w] = x]

\* A push comes at the end of the column, or empties it.
LEMMA ColumnPushed ==
  ASSUME NEW V, NEW g \in [Ring -> V], NEW w \in Ring, NEW p \in Ring, NEW x \in V,
         NEW h, Overwritten(g, h, w, x)
  PROVE  Column(h, Succ(w), p) = Unit!Push(Column(g, w, p), x)
<1> DEFINE n == (w - p) % MarkDepth
           C == Column(g, w, p)
           B == Column(h, Succ(w), p)
<1>0. h = [g EXCEPT ![w] = x]
  BY DEF Overwritten
<1>1. /\ MarkDepth \in Nat \ {0} /\ Succ(w) \in Ring /\ n \in 0..(MarkDepth - 1)
      /\ DOMAIN C = 1..n /\ Len(C) = n
  BY ColumnLength, SuccWraps, TraceAssumption DEF Ring
<1>2. (Succ(w) - p) % MarkDepth = IF n + 1 < MarkDepth THEN n + 1 ELSE 0
  <2>1. /\ p \in 0..(MarkDepth - 1) /\ w \in 0..(MarkDepth - 1)
        /\ Succ(w) = IF w + 1 = MarkDepth THEN 0 ELSE w + 1
    BY SuccWraps DEF Ring
  <2>2. n = IF p <= w THEN w - p ELSE w - p + MarkDepth
    BY ColumnLength
  <2>3. (Succ(w) - p) % MarkDepth
          = IF p <= Succ(w) THEN Succ(w) - p ELSE Succ(w) - p + MarkDepth
    BY <1>1, ColumnLength
  <2> HIDE DEF n
  <2> QED
    BY <1>1, <2>1, <2>2, <2>3
<1>3. CASE n + 1 < MarkDepth
  <2>1. B = [k \in 1..(n + 1) |-> h[Place(p, k)]]
    BY <1>2, <1>3 DEF Column
  <2>2. \A k \in 1..n : C[k] = g[Place(p, k)]
    BY DEF Column
  <2>3. ASSUME NEW k \in 1..n PROVE h[Place(p, k)] = C[k]
    <3>1. k \in 1..MarkDepth /\ k <= n
      BY <1>1
    <3>2. Place(p, k) \in Ring /\ Place(p, k) # w
      BY <3>1, ColumnPlaces
    <3> QED
      BY <1>0, <2>2, <3>2
  <2>4. h[Place(p, n + 1)] = x
    <3>1. n + 1 \in 1..MarkDepth
      BY <1>1, <1>3
    <3>2. Place(p, n + 1) = w
      BY <3>1, ColumnPlaces
    <3> QED
      BY <1>0, <3>2
  <2>5. C \in Seq(V)
    <3>1. \A k \in 1..n : C[k] \in V
      <4>1. \A k \in 1..n : k \in 1..MarkDepth
        BY <1>1
      <4> QED
        BY <2>2, <4>1, ColumnPlaces
    <3>2. C \in [1..n -> V]
      BY <3>1 DEF Column
    <3> HIDE DEF C
    <3> QED
      BY <1>1, <3>2
  <2> HIDE DEF n, C, B
  <2>6. ASSUME NEW k \in 1..(n + 1) PROVE B[k] = Append(C, x)[k] /\ B[k] \in V
    <3>1. CASE k = n + 1
      BY <1>1, <2>1, <2>4, <2>5, <3>1
    <3>2. CASE k # n + 1
      <4>1. k \in 1..n
        BY <1>1, <3>2
      <4> QED
        BY <1>1, <2>1, <2>3, <2>5, <4>1
    <3> QED
      BY <3>1, <3>2
  <2>7. Append(C, x) \in Seq(V) /\ Len(Append(C, x)) = n + 1
    BY <1>1, <2>5
  <2>8. B \in Seq(V) /\ Len(B) = n + 1
    <3>1. B \in [1..(n + 1) -> V] /\ n + 1 \in Nat
      BY <1>1, <2>1, <2>6
    <3> QED
      BY <3>1
  <2>9. B = Append(C, x)
    BY <2>6, <2>7, <2>8, SeqEqual
  <2> QED
    BY <1>1, <1>3, <2>9 DEF Unit!Push, B, C
<1>4. CASE ~(n + 1 < MarkDepth)
  <2>1. B = << >>
    BY <1>2, <1>4 DEF Column
  <2> QED
    BY <1>1, <1>4, <2>1 DEF Unit!Push
<1> QED
  BY <1>3, <1>4

-----------------------------------------------------------------------------
(* The operations of the unit.                                             *)

\* A unit of five parts.
UnitOf(t, r, f, p, s) ==
    [table |-> t, running |-> r, flight |-> f, perfs |-> p, symbols |-> s]

\* What the unit's operations do to each part of it.
LEMMA UnitParts ==
  ASSUME NEW t, NEW r, NEW f, NEW p, NEW s
  PROVE  /\ Unit!PopPerf(UnitOf(t, r, f, p, s))
              = UnitOf(t, r, f, IF p = << >> THEN p ELSE Tail(p), s)
         /\ Unit!PopSymbol(UnitOf(t, r, f, p, s))
              = UnitOf(t, r, f, p, IF s = << >> THEN s ELSE Tail(s))
         /\ Unit!Record(UnitOf(t, r, f, p, s))
              = UnitOf(t, r, Tail(f), IF r = 1 THEN Unit!Push(p, Head(f).perf) ELSE p,
                       IF r = 1 THEN Unit!Push(s, Head(f).symbol) ELSE s)
         /\ Unit!SetRunning(UnitOf(t, r, f, p, s)) = UnitOf(t, 1, f, p, s)
<1> DEFINE u == UnitOf(t, r, f, p, s)
<1>1. ASSUME NEW q PROVE [u EXCEPT !.perfs = q] = UnitOf(t, r, f, q, s)
  BY DEF UnitOf
<1>2. ASSUME NEW q PROVE [u EXCEPT !.symbols = q] = UnitOf(t, r, f, p, q)
  BY DEF UnitOf
<1>3. ASSUME NEW q, NEW a, NEW b
      PROVE  [u EXCEPT !.flight = q, !.perfs = a, !.symbols = b] = UnitOf(t, r, q, a, b)
  <2> DEFINE v == [u EXCEPT !.flight = q, !.perfs = a, !.symbols = b]
  <2>1. DOMAIN u = {"table", "running", "flight", "perfs", "symbols"}
    BY DEF UnitOf
  <2>2. v = [x \in DOMAIN u |-> IF x = "symbols" THEN b
                                ELSE IF x = "perfs" THEN a
                                ELSE IF x = "flight" THEN q ELSE u[x]]
    BY Zenon
  <2> QED
    BY <2>1, <2>2 DEF UnitOf
<1>4. [u EXCEPT !.running = 1] = UnitOf(t, 1, f, p, s)
  BY DEF UnitOf
<1>5. u.running = r /\ u.flight = f /\ u.perfs = p /\ u.symbols = s
  BY DEF UnitOf
<1> HIDE DEF u
<1>6. Unit!PopPerf(u) = UnitOf(t, r, f, IF p = << >> THEN p ELSE Tail(p), s)
  BY <1>1, <1>5, Zenon DEF Unit!PopPerf
<1>7. Unit!PopSymbol(u) = UnitOf(t, r, f, p, IF s = << >> THEN s ELSE Tail(s))
  BY <1>2, <1>5, Zenon DEF Unit!PopSymbol
<1>8. Unit!Record(u) = UnitOf(t, r, Tail(f), IF r = 1 THEN Unit!Push(p, Head(f).perf) ELSE p,
                              IF r = 1 THEN Unit!Push(s, Head(f).symbol) ELSE s)
  <2> DEFINE a == IF r = 1 THEN Unit!Push(p, Head(f).perf) ELSE p
             b == IF r = 1 THEN Unit!Push(s, Head(f).symbol) ELSE s
  <2>1. Unit!Record(u) = [u EXCEPT !.flight = Tail(f), !.perfs = a, !.symbols = b]
    BY <1>5 DEF Unit!Record
  <2> HIDE DEF a, b
  <2>2. Unit!Record(u) = UnitOf(t, r, Tail(f), a, b)
    BY <1>3, <2>1
  <2> QED
    BY <2>2 DEF a, b
<1>9. Unit!SetRunning(u) = UnitOf(t, 1, f, p, s)
  BY <1>4 DEF Unit!SetRunning
<1> QED
  BY <1>6, <1>7, <1>8, <1>9 DEF u

\* A program counter the table holds becomes a hit in flight.
LEMMA UnitSees ==
  ASSUME NEW t, NEW r, NEW f, NEW p, NEW s, NEW pc, NEW time, Unit!Known(t, pc)
  PROVE  Unit!See(UnitOf(t, r, f, p, s), pc, time)
           = UnitOf(t, r, Append(f, [perf |-> time, symbol |-> Unit!Lookup(t, pc)]), p, s)
<1>1. UnitOf(t, r, f, p, s).table = t
  BY DEF UnitOf
<1> QED
  BY <1>1 DEF UnitOf, Unit!See

\* The host writes a symbol, or the run register, or neither.
LEMMA UnitWritten ==
  ASSUME NEW t, NEW r, NEW f, NEW p, NEW s, NEW t2, NEW r2,
         \/ t2 = t
         \/ Len(t) < NSym /\ \E a \in Addrs : t2 = Append(t, a),
         r2 = r \/ r2 = 1
  PROVE  Unit!Written(UnitOf(t, r, f, p, s), UnitOf(t2, r2, f, p, s))
<1> DEFINE u == UnitOf(t, r, f, p, s)
           a == UnitOf(t2, r, f, p, s)
           v == UnitOf(t2, r2, f, p, s)
<1>1. a \in Unit!Adding(u)
  <2>1. CASE t2 = t
    BY <2>1 DEF Unit!Adding
  <2>2. CASE Len(t) < NSym /\ \E x \in Addrs : t2 = Append(t, x)
    <3>1. PICK x \in Addrs : t2 = Append(t, x)
      BY <2>2
    <3>2. a = Unit!AddSymbol(u, x)
      BY <2>2, <3>1 DEF UnitOf, Unit!AddSymbol
    <3> QED
      BY <3>2 DEF Unit!Adding
  <2> QED
    BY <2>1, <2>2
<1>2. v \in Unit!Starting(a)
  <2>1. Unit!SetRunning(a) = UnitOf(t2, 1, f, p, s)
    BY UnitParts
  <2> QED
    BY <2>1 DEF Unit!Starting
<1>3. v.flight = u.flight /\ v.perfs = u.perfs /\ v.symbols = u.symbols
  BY DEF UnitOf
<1> QED
  BY <1>1, <1>2, <1>3 DEF Unit!Written

-----------------------------------------------------------------------------
(* A clock edge is a step of the unit.                                     *)

\* The clock in which symbol_en is up appends a symbol to the table, if it has room.
LEMMA TableGrows ==
  ASSUME IInv, SymbolFifo
  PROVE  \/ Table' = Table
         \/ Len(Table) < NSym /\ \E a \in Addrs : Table' = Append(Table, a)
<1>1. /\ counter \in 0..NSym /\ NSym \in Nat /\ reg_symbol_input \in Addrs
      /\ symbol_array \in [Slots -> Addrs]
  BY TraceAssumption DEF IInv, TypeOK, NSym
<1>2. CASE symbol_en /\ counter < NSym
  <2> DEFINE A == Append(Table, reg_symbol_input)
             B == Table'
  <2>0. counter \in Nat /\ counter \in Slots
    BY <1>1, <1>2 DEF Slots
  <2>1. /\ counter' = counter + 1
        /\ symbol_array' = [symbol_array EXCEPT ![counter] = reg_symbol_input]
    BY <1>2 DEF SymbolFifo
  <2>2. \A i \in 1..counter : i - 1 \in Slots /\ i - 1 # counter
    BY <1>1 DEF Slots
  <2>3. /\ Table \in Seq(Addrs) /\ Len(Table) = counter
        /\ \A i \in 1..counter : Table[i] = symbol_array[i - 1]
    <3>1. Table \in [1..counter -> Addrs]
      BY <1>1, <2>2 DEF Table
    <3>2. \A i \in 1..counter : Table[i] = symbol_array[i - 1]
      BY DEF Table
    <3> QED
      BY <2>0, <3>1, <3>2
  <2>4. B = [i \in 1..(counter + 1) |-> symbol_array'[i - 1]]
    BY <2>1 DEF Table
  <2> HIDE DEF B
  <2>5. ASSUME NEW i \in 1..(counter + 1) PROVE B[i] = A[i] /\ B[i] \in Addrs
    <3>1. CASE i = counter + 1
      BY <1>1, <2>0, <2>1, <2>3, <2>4, <3>1
    <3>2. CASE i # counter + 1
      <4>1. i \in 1..counter
        BY <2>0, <3>2
      <4>2. B[i] = symbol_array[i - 1] /\ B[i] \in Addrs
        BY <1>1, <2>1, <2>2, <2>4, <4>1
      <4> QED
        BY <2>3, <4>1, <4>2
    <3> QED
      BY <3>1, <3>2
  <2>6. A \in Seq(Addrs) /\ Len(A) = counter + 1
    BY <1>1, <2>3
  <2>7. B \in Seq(Addrs) /\ Len(B) = counter + 1
    <3>1. \A i \in 1..(counter + 1) : B[i] \in Addrs
      BY <2>5
    <3> HIDE DEF A
    <3>2. B \in [1..(counter + 1) -> Addrs] /\ counter + 1 \in Nat
      BY <2>0, <2>4, <3>1
    <3> QED
      BY <3>2
  <2>8. B = A
    BY <2>5, <2>6, <2>7, SeqEqual
  <2> QED
    BY <1>1, <1>2, <2>3, <2>8 DEF B
<1>3. CASE ~(symbol_en /\ counter < NSym)
  BY <1>3 DEF SymbolFifo, symbolVars, Table
<1> QED
  BY <1>2, <1>3

\* The host only ever sets the run register.
LEMMA OnlyStarts ==
  ASSUME IInv, AxiWrite
  PROVE  reg_system_run' = reg_system_run \/ reg_system_run' = 1
<1> USE DEF IInv, TypeOK
<1>1. CASE AcceptData
  <2>1. axi_write_channel_address = awaddr
    BY <1>1 DEF AcceptData, HandshakeInv
  <2>2. axi_write_channel_address = RunReg => wdata = 1
    BY <2>1 DEF Payload
  <2> QED
    BY <1>1, <2>2 DEF AcceptData, WriteRegister
<1>2. CASE AcceptAddress \/ AnswerWrite \/ EndWrite
  BY <1>2 DEF AcceptAddress, AnswerWrite, EndWrite, regVars
<1> QED
  BY <1>1, <1>2 DEF AxiWrite

\* The two columns as columns of numbers.
PerfOf(m) == [k \in Ring |-> m[k].perf]
SymbolOf(m) == [k \in Ring |-> m[k].symbol]

\* The time stamps and the symbols of marks are such columns.
LEMMA MarkColumns ==
  ASSUME NEW m \in [Ring -> Mark], NEW w \in Ring, NEW p \in Ring
  PROVE  /\ PerfOf(m) \in [Ring -> Perfs] /\ SymbolOf(m) \in [Ring -> Slots]
         /\ [k \in 1..((w - p) % MarkDepth) |-> m[Place(p, k)].perf]
              = Column(PerfOf(m), w, p)
         /\ [k \in 1..((w - p) % MarkDepth) |-> m[Place(p, k)].symbol]
              = Column(SymbolOf(m), w, p)
<1>1. \A k \in 1..((w - p) % MarkDepth) : Place(p, k) \in Ring
  <2>1. (w - p) % MarkDepth \in 0..(MarkDepth - 1)
    BY ColumnLength DEF Ring
  <2>2. \A k \in 1..((w - p) % MarkDepth) : k \in 1..MarkDepth
    BY <2>1, TraceAssumption
  <2> QED
    BY <2>2, ColumnPlaces
<1>2. \A k \in Ring : m[k] \in Mark
  OBVIOUS
<1>3. PerfOf(m) \in [Ring -> Perfs] /\ SymbolOf(m) \in [Ring -> Slots]
  BY <1>2 DEF PerfOf, SymbolOf, Mark
<1> QED
  BY <1>1, <1>3 DEF Column, PerfOf, SymbolOf

\* What the columns are when the read of the clock is done.
PerfsRead == Column(PerfOf(mark), mark_write_counter, mark_read_counter_perf')
SymbolsRead == Column(SymbolOf(mark), mark_write_counter, mark_read_counter_symbol')

\* The unit's columns are such columns.
LEMMA ColumnsAre ==
  ASSUME TypeOK
  PROVE  /\ PerfColumn = Column(PerfOf(mark), mark_write_counter, mark_read_counter_perf)
         /\ SymbolColumn
              = Column(SymbolOf(mark), mark_write_counter, mark_read_counter_symbol)
BY MarkColumns DEF PerfColumn, SymbolColumn, Unread, TypeOK

\* A hit that leaves the pipeline is pushed on both columns when the tracer runs.
LEMMA Pushes ==
  ASSUME TypeOK, TypeOK', MarkFifo
  PROVE  LET pushed == Leaving.valid /\ reg_system_run = 1
         IN  /\ PerfColumn' = IF pushed THEN Unit!Push(PerfsRead, Leaving.perf) ELSE PerfsRead
             /\ SymbolColumn'
                  = IF pushed THEN Unit!Push(SymbolsRead, Leaving.symbol) ELSE SymbolsRead
<1> DEFINE w == mark_write_counter
           p == mark_read_counter_perf'
           s == mark_read_counter_symbol'
<1>1. /\ PerfColumn' = Column(PerfOf(mark'), w', p)
      /\ SymbolColumn' = Column(SymbolOf(mark'), w', s)
  <2>1. mark' \in [Ring -> Mark] /\ w' \in Ring /\ p \in Ring /\ s \in Ring
    BY DEF TypeOK, Ring, Mark, Slots, NSym
  <2>2. /\ PerfColumn' = [k \in 1..((w' - p) % MarkDepth) |-> mark'[Place(p, k)].perf]
        /\ SymbolColumn' = [k \in 1..((w' - s) % MarkDepth) |-> mark'[Place(s, k)].symbol]
    BY DEF PerfColumn, SymbolColumn, Unread, Place
  <2> HIDE DEF w, p, s
  <2> QED
    BY <2>1, <2>2, MarkColumns
<1>2. /\ w \in Ring /\ p \in Ring /\ s \in Ring /\ mark \in [Ring -> Mark]
      /\ Leaving.perf \in Perfs /\ Leaving.symbol \in Slots
  <2>1. Leaving \in Event
    BY TraceAssumption DEF TypeOK, Leaving, Levels
  <2> QED
    BY <2>1 DEF TypeOK, Event, Ring
<1>3. CASE Leaving.valid /\ reg_system_run = 1
  <2>1. /\ w' = Succ(w)
        /\ mark' = [mark EXCEPT ![w] = [perf |-> Leaving.perf, symbol |-> Leaving.symbol]]
    BY <1>3 DEF MarkFifo
  <2>2. ASSUME NEW k \in Ring
        PROVE  /\ mark'[k].perf = IF k = w THEN Leaving.perf ELSE mark[k].perf
               /\ mark'[k].symbol = IF k = w THEN Leaving.symbol ELSE mark[k].symbol
    <3>1. mark'[k] = IF k = w THEN [perf |-> Leaving.perf, symbol |-> Leaving.symbol]
                              ELSE mark[k]
      BY <1>2, <2>1
    <3> QED
      BY <3>1
  <2>3. /\ Overwritten(PerfOf(mark), PerfOf(mark'), w, Leaving.perf)
        /\ Overwritten(SymbolOf(mark), SymbolOf(mark'), w, Leaving.symbol)
    BY <1>2, <2>2 DEF PerfOf, SymbolOf, Overwritten
  <2>4. PerfOf(mark) \in [Ring -> Perfs] /\ SymbolOf(mark) \in [Ring -> Slots]
    BY <1>2, MarkColumns
  <2>5. /\ Column(PerfOf(mark'), w', p) = Unit!Push(Column(PerfOf(mark), w, p), Leaving.perf)
        /\ Column(SymbolOf(mark'), w', s)
             = Unit!Push(Column(SymbolOf(mark), w, s), Leaving.symbol)
    BY <1>2, <2>1, <2>3, <2>4, ColumnPushed
  <2> QED
    BY <1>1, <1>3, <2>5 DEF PerfsRead, SymbolsRead
<1>4. CASE ~(Leaving.valid /\ reg_system_run = 1)
  <2>1. mark' = mark /\ w' = w
    BY <1>4 DEF MarkFifo, markVars
  <2> QED
    BY <1>1, <1>4, <2>1 DEF PerfsRead, SymbolsRead
<1> QED
  BY <1>3, <1>4

\* The unit a clock starts from, and what a read makes of it.
UnitNow == UnitOf(Table, reg_system_run, Flight, PerfColumn, SymbolColumn)
UnitRead == UnitOf(Table, reg_system_run, Flight, PerfsRead, SymbolsRead)

\* A clock of the read channel is one read of the unit, or none.
LEMMA ReadIsReading ==
  ASSUME TypeOK, AxiRead
  PROVE  <<UnitRead, rdata'>> \in Unit!Reading(UnitNow, rdata)
<1> DEFINE u == UnitNow
           w == mark_write_counter
           p == mark_read_counter_perf
           s == mark_read_counter_symbol
<1>1. /\ w \in Ring /\ p \in Ring /\ s \in Ring /\ mark \in [Ring -> Mark]
      /\ PerfOf(mark) \in [Ring -> Perfs] /\ SymbolOf(mark) \in [Ring -> Slots]
  BY MarkColumns DEF TypeOK
<1>2. /\ PerfColumn = Column(PerfOf(mark), w, p)
      /\ SymbolColumn = Column(SymbolOf(mark), w, s)
  BY ColumnsAre
<1>3. /\ p' = p => PerfsRead = PerfColumn
      /\ s' = s => SymbolsRead = SymbolColumn
  BY <1>2 DEF PerfsRead, SymbolsRead
<1>4. p' = p /\ s' = s => UnitRead = u
  BY <1>3 DEF UnitRead, UnitNow
<1>5. /\ u.running = reg_system_run /\ u.table = Table /\ u.perfs = PerfColumn
      /\ u.symbols = SymbolColumn
  BY DEF UnitNow, UnitOf
<1>6. ASSUME UNCHANGED popVars
      PROVE  <<UnitRead, rdata'>> \in Unit!Reading(u, rdata)
  <2>1. UnitRead = u /\ rdata' = rdata
    BY <1>4, <1>6 DEF popVars
  <2> QED
    BY <2>1 DEF Unit!Reading
<1>7. ASSUME NEW v, Show(v), v \in {u.running, Len(u.table)} \cup Unit!Left(Len(u.perfs))
      PROVE  <<UnitRead, rdata'>> \in Unit!Reading(u, rdata)
  <2>1. UnitRead = u /\ rdata' = v
    BY <1>4, <1>7 DEF Show
  <2> QED
    BY <1>7, <2>1 DEF Unit!Reading
<1>8. ASSUME PopPerf
      PROVE  <<UnitRead, rdata'>> \in Unit!Reading(u, rdata)
  <2>1. CASE p # w
    <3>1. p' = Succ(p) /\ s' = s /\ rdata' = mark[p].perf
      BY <1>8, <2>1 DEF PopPerf
    <3>2. PerfColumn # << >>
      BY <1>1, <1>2, <2>1, ColumnLength
    <3>3. PerfsRead = Tail(PerfColumn) /\ Head(PerfColumn) = rdata'
      <4>1. PerfOf(mark)[p] = mark[p].perf
        BY <1>1 DEF PerfOf
      <4> QED
        BY <1>1, <1>2, <2>1, <3>1, <4>1, ColumnPopped DEF PerfsRead
    <3>4. UnitRead = Unit!PopPerf(u)
      BY <1>3, <3>1, <3>2, <3>3, UnitParts DEF UnitRead, UnitNow
    <3>5. rdata' = Unit!HeadOr(u.perfs, rdata)
      BY <1>5, <3>2, <3>3 DEF Unit!HeadOr
    <3> QED
      BY <3>4, <3>5 DEF Unit!Reading
  <2>2. CASE p = w
    <3>1. UNCHANGED popVars
      BY <1>8, <2>2 DEF PopPerf, popVars
    <3> QED
      BY <1>6, <3>1
  <2> QED
    BY <2>1, <2>2
<1>9. ASSUME PopMark
      PROVE  <<UnitRead, rdata'>> \in Unit!Reading(u, rdata)
  <2>1. CASE s # w
    <3>1. s' = Succ(s) /\ p' = p /\ rdata' = mark[s].symbol
      BY <1>9, <2>1 DEF PopMark
    <3>2. SymbolColumn # << >>
      BY <1>1, <1>2, <2>1, ColumnLength
    <3>3. SymbolsRead = Tail(SymbolColumn) /\ Head(SymbolColumn) = rdata'
      <4>1. SymbolOf(mark)[s] = mark[s].symbol
        BY <1>1 DEF SymbolOf
      <4> QED
        BY <1>1, <1>2, <2>1, <3>1, <4>1, ColumnPopped DEF SymbolsRead
    <3>4. UnitRead = Unit!PopSymbol(u)
      BY <1>3, <3>1, <3>2, <3>3, UnitParts DEF UnitRead, UnitNow
    <3>5. rdata' = Unit!HeadOr(u.symbols, rdata)
      BY <1>5, <3>2, <3>3 DEF Unit!HeadOr
    <3> QED
      BY <3>4, <3>5 DEF Unit!Reading
  <2>2. CASE s = w
    <3>1. UNCHANGED popVars
      BY <1>9, <2>2 DEF PopMark, popVars
    <3> QED
      BY <1>6, <3>1
  <2> QED
    BY <2>1, <2>2
<1>10. Len(u.table) = counter
  BY <1>5 DEF Table, TypeOK
<1>11. w - p \in Unit!Left(Len(u.perfs))
  <2> DEFINE n == (w - p) % MarkDepth
  <2>1. Len(u.perfs) = n /\ n = IF p <= w THEN w - p ELSE w - p + MarkDepth
    BY <1>1, <1>2, <1>5, ColumnLength
  <2>2. MarkDepth \in Nat \ {0} /\ w \in 0..(MarkDepth - 1) /\ p \in 0..(MarkDepth - 1)
    BY <1>1, TraceAssumption DEF Ring
  <2> HIDE DEF n
  <2> QED
    BY <2>1, <2>2 DEF Unit!Left
<1>12. CASE AcceptRead
  <2>1. ReadRegister
    BY <1>12 DEF AcceptRead
  <2>2. \/ Show(reg_system_run) \/ Show(counter) \/ Show(w - p)
        \/ PopPerf \/ PopMark
    BY <2>1 DEF ReadRegister
  <2> QED
    BY <1>5, <1>7, <1>8, <1>9, <1>10, <1>11, <2>2
<1>13. CASE AnswerRead
  BY <1>6, <1>13 DEF AnswerRead
<1>14. CASE EndRead
  BY <1>6, <1>14 DEF EndRead
<1> QED
  BY <1>12, <1>13, <1>14 DEF AxiRead

\* What a clock does to the unit, after the read.
LEMMA TickUnit ==
  ASSUME PipeInv, TypeOK', HeldInReset, NEW in \in Retired, Edge(in)
  PROVE  Unit!Step
<1> DEFINE U == UnitNow
           R == UnitRead
           rest == IF Leaving.valid THEN Tail(Flight) ELSE Flight
           hit == [perf |-> in.perf, symbol |-> Found(in.pc)]
           L == UnitOf(Table, reg_system_run, rest, PerfColumn', SymbolColumn')
           V == UnitNow'
<1>0. /\ IInv /\ TypeOK /\ TableHoldsSent
      /\ SymbolFifo /\ MarkFifo /\ AxiRead /\ AxiWrite
  BY DEF PipeInv, IInv, Edge
<1>1. /\ Leaving.valid =>
           /\ Flight # << >>
           /\ Head(Flight) = [perf |-> Leaving.perf, symbol |-> Leaving.symbol]
      /\ Flight' = IF in.valid /\ Held(in.pc) THEN Append(rest, hit) ELSE rest
      /\ Flight' # rest <=> in.valid /\ Held(in.pc)
      /\ Len(Flight') <= Banks
  BY TickFlight
<1>2. AbstractUnit = U /\ AbstractUnit' = V
  BY DEF AbstractUnit, UnitNow, UnitOf
<1>3. <<R, rdata'>> \in Unit!Reading(U, rdata)
  BY <1>0, ReadIsReading
<1>4. L \in Unit!Leaving(R)
  <2>1. R.flight = Flight
    BY DEF UnitRead, UnitOf
  <2>2. CASE Leaving.valid
    <3>1. /\ Head(Flight).perf = Leaving.perf /\ Head(Flight).symbol = Leaving.symbol
      BY <1>1, <2>2
    <3>2. Unit!Record(R) = UnitOf(Table, reg_system_run, Tail(Flight),
             IF reg_system_run = 1 THEN Unit!Push(PerfsRead, Head(Flight).perf) ELSE PerfsRead,
             IF reg_system_run = 1 THEN Unit!Push(SymbolsRead, Head(Flight).symbol)
                                   ELSE SymbolsRead)
      BY UnitParts DEF UnitRead
    <3>3. L = Unit!Record(R)
      BY <1>0, <2>2, <3>1, <3>2, Pushes
    <3> QED
      BY <1>1, <2>1, <2>2, <3>3 DEF Unit!Leaving
  <2>3. CASE ~Leaving.valid
    <3>1. L = R
      BY <1>0, <2>3, Pushes DEF UnitRead
    <3> QED
      BY <3>1 DEF Unit!Leaving
  <2> QED
    BY <2>2, <2>3
<1>5. /\ \/ Table' = Table
         \/ Len(Table) < NSym /\ \E a \in Addrs : Table' = Append(Table, a)
      /\ reg_system_run' = reg_system_run \/ reg_system_run' = 1
  BY <1>0, TableGrows, OnlyStarts
<1>6. L.flight = rest /\ V.flight = Flight'
  BY DEF UnitNow, UnitOf
<1>7. Unit!Entered(L, V)
  <2>1. CASE ~(in.valid /\ Held(in.pc))
    <3>1. Flight' = rest
      BY <1>1, <2>1
    <3>2. Unit!Written(L, V)
      BY <1>5, <3>1, UnitWritten DEF UnitNow
    <3> QED
      BY <1>6, <3>1, <3>2 DEF Unit!Entered
  <2>2. CASE in.valid /\ Held(in.pc)
    <3> DEFINE E == UnitOf(Table, reg_system_run, Flight', PerfColumn', SymbolColumn')
    <3>1. Flight' = Append(rest, hit) /\ Flight' # rest
      BY <1>1, <2>2
    <3>2. Unit!Known(Table, in.pc) /\ Unit!Lookup(Table, in.pc) = Found(in.pc)
      BY <1>0, <2>2, FoundIsLookup
    <3>3. E = Unit!See(L, in.pc, in.perf)
      BY <3>1, <3>2, UnitSees
    <3>4. Unit!Written(E, V)
      BY <1>5, UnitWritten DEF UnitNow
    <3>5. in.pc \in Addrs /\ in.perf \in Perfs
      BY DEF Retired
    <3> HIDE DEF E, L, V
    <3> QED
      BY <1>6, <3>1, <3>3, <3>4, <3>5 DEF Unit!Entered
  <2> QED
    BY <2>1, <2>2
<1>8. Len(V.flight) <= Banks
  BY <1>1, <1>6
<1> HIDE DEF U, R, L, V
<1>9. /\ <<R, rdata'>>[1] = R /\ <<R, rdata'>>[2] = rdata'
  OBVIOUS
<1> QED
  BY <1>2, <1>3, <1>4, <1>7, <1>8, <1>9 DEF Unit!Step

\* The reset state is an empty unit.
LEMMA InitUnit == Init => Unit!Init
<1> SUFFICES ASSUME Init PROVE Unit!Init
  OBVIOUS
<1>1. Table = << >>
  BY DEF Init, Table
<1>2. Flight = << >>
  <2>1. Due = {}
    BY DEF Init, Due
  <2>2. Cardinality(Due) = 0
    BY <2>1, FS_EmptySet
  <2>3. 1..Cardinality(Due) = {}
    BY <2>2
  <2> QED
    BY <2>3 DEF Flight
<1>3. PerfColumn = << >> /\ SymbolColumn = << >>
  <2>1. 0 \in Ring
    BY TraceAssumption DEF Ring
  <2>2. Column(PerfOf(mark), 0, 0) = << >> /\ Column(SymbolOf(mark), 0, 0) = << >>
    BY <2>1, ColumnLength
  <2> QED
    BY <2>2, InitTyped, ColumnsAre DEF Init
<1> QED
  BY <1>1, <1>2, <1>3 DEF Init, Unit!Init, Unit!Empty, AbstractUnit

\* The tracer with at most four stages, as the code has, whose core is held in
\* reset while the host writes, is the unit.
THEOREM TracerImplementsUnit ==
  ASSUME HeldInReset
  PROVE  Spec => ImplementsUnit
<1>1. Init => PipeInv /\ Unit!Init
  BY InitPipe, InitUnit
<1>2. ASSUME PipeInv, [Tick]_vars
      PROVE  PipeInv' /\ [Unit!Step]_(Unit!vars)
  <2>1. CASE Tick
    <3>1. PipeInv'
      BY <1>2, <2>1, TickPipe
    <3>2. PICK in \in Retired : Edge(in)
      BY <2>1 DEF Tick
    <3>3. TypeOK'
      BY <3>1 DEF PipeInv, IInv
    <3>4. Unit!Step
      BY <1>2, <3>2, <3>3, TickUnit
    <3> QED
      BY <3>1, <3>4
  <2>2. CASE UNCHANGED vars
    <3>1. PipeInv'
      BY <1>2, <2>2, TickPipe
    <3>2. UNCHANGED Unit!vars
      BY <2>2 DEF vars, symbolVars, markVars, readVars, writeVars, hostVars, Unit!vars,
                  AbstractUnit, Table, Flight, PerfColumn, SymbolColumn, Due, Promised, Held,
                  Found, Hits, Bank, Unread
    <3> QED
      BY <3>1, <3>2
  <2> QED
    BY <1>2, <2>1, <2>2
<1> QED
  BY <1>1, <1>2, PTL DEF Spec, ImplementsUnit, Unit!Spec
=============================================================================
