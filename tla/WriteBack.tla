----------------------------- MODULE WriteBack -----------------------------
(***************************************************************************)
(* wrb.v: takes what the ALU shows, does the loads and stores one by one,  *)
(* and writes cpu_reg.  One step is one clock edge.                        *)
(*                                                                         *)
(* i_next is up exactly in stage 0 without an error; o_wren and o_rd are   *)
(* one value, as cpureg.v ignores a write of x0.                           *)
(***************************************************************************)
EXTENDS Instructions

CONSTANT Faults     \* what bit 1 of a response may be: {FALSE} or BOOLEAN

ASSUME FaultAssumption == Faults \subseteq BOOLEAN /\ FALSE \in Faults

VARIABLES
    axi_stage,
    access,             \* the load or store under way, None in stage 0
    awvalid, wvalid,
    o_wr,               \* o_rd if o_wren, else 0
    o_finish,
    wrb_error           \* c_error of wrb.v, which no port of top.v shows

wrbVars == <<axi_stage, access, awvalid, wvalid, o_wr, o_finish, wrb_error>>

WriteBackInit ==
    /\ axi_stage = 0 /\ access = None
    /\ awvalid = FALSE /\ wvalid = FALSE
    /\ o_wr = 0 /\ o_finish = FALSE /\ wrb_error = FALSE

wrb_next == axi_stage = 0 /\ ~wrb_error

-----------------------------------------------------------------------------
Take(i_valid, i) ==
    /\ axi_stage = 0
    /\ o_finish' = (i_valid /\ ~InMemory(i.instr))
    /\ o_wr' = IF o_finish' /\ Writes(i.instr) THEN i.instr.rd ELSE 0
    /\ IF i_valid /\ InMemory(i.instr)
       THEN /\ axi_stage' = IF i.instr.kind = "load" THEN 1 ELSE 3
            /\ access' = i
            /\ awvalid' = (i.instr.kind = "store") /\ wvalid' = awvalid'
       ELSE UNCHANGED <<axi_stage, access, awvalid, wvalid>>
    /\ UNCHANGED wrb_error

LoadAddress(ready) ==
    /\ axi_stage = 1
    /\ axi_stage' = IF ready THEN 2 ELSE 1
    /\ UNCHANGED <<access, awvalid, wvalid, o_wr, o_finish, wrb_error>>

Done(wr) ==
    /\ axi_stage' = 0 /\ access' = None
    /\ o_wr' = wr /\ o_finish' = TRUE
    /\ UNCHANGED <<awvalid, wvalid, wrb_error>>

Fail ==
    /\ wrb_error' = TRUE
    /\ UNCHANGED <<axi_stage, access, awvalid, wvalid, o_wr, o_finish>>

LoadData(resp) ==
    /\ axi_stage = 2
    /\ IF resp THEN Fail ELSE Done(access.instr.rd)

\* The condition of line 149: its first term is never true.
StoreSent(awready, wready) ==
    \/ awvalid /\ awready /\ ~awvalid
    \/ wvalid /\ wready /\ ~awvalid
    \/ wvalid /\ wready /\ awvalid /\ awready

StoreRequest(awready, wready) ==
    /\ axi_stage = 3
    /\ awvalid' = (awvalid /\ ~awready)
    /\ wvalid' = (wvalid /\ ~wready)
    /\ axi_stage' = IF StoreSent(awready, wready) THEN 4 ELSE 3
    /\ UNCHANGED <<access, o_wr, o_finish, wrb_error>>

StoreResponse(resp) ==
    /\ axi_stage = 4
    /\ IF resp THEN Fail ELSE Done(o_wr)

\* served: the memory answers everything it is asked at this clock.  Which of a
\* store's address and data it takes first, and whether it fails, is its choice.
WriteBack(i_valid, i, served) ==
    \/ wrb_error /\ UNCHANGED wrbVars
    \/ ~wrb_error /\ Take(i_valid, i)
    \/ ~wrb_error /\ LoadAddress(served)
    \/ ~wrb_error /\ served /\ \E resp \in Faults : LoadData(resp) \/ StoreResponse(resp)
    \/ ~wrb_error /\ ~served /\ axi_stage \in {2, 4} /\ UNCHANGED wrbVars
    \/ /\ ~wrb_error
       /\ \E awready, wready \in BOOLEAN :
            /\ served <=> awready /\ wready
            /\ StoreRequest(awready, wready)

\* The reset reaches neither the access under way nor the error.
WriteBackReset ==
    /\ o_finish' = FALSE
    /\ UNCHANGED <<axi_stage, access, awvalid, wvalid, o_wr, wrb_error>>
=============================================================================
