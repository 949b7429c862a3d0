---------------------------- MODULE MCRiscvCore ----------------------------
(***************************************************************************)
(* Programs for RiscvCore: loads and stores in every order, a load behind  *)
(* a branch, jumps forward, back and in place, a return behind a branch    *)
(* and behind a store, words that are no instructions on wrong paths.      *)
(***************************************************************************)
EXTENDS RiscvCore, Sequences

I(kind, rd, rs1, rs2, by, width) ==
    [kind |-> kind, rd |-> rd, rs1 |-> rs1, rs2 |-> rs2, by |-> by, width |-> width]
P(s) == [a \in 0..(Len(s) - 1) |-> s[a + 1]]

Op(rd, rs) == I("op", rd, rs, 0, 0, 0)
Sft(rd, rs) == I("shift", rd, rs, 0, 0, 0)
Load(rd, rs, width) == I("load", rd, rs, 0, 0, width)
Store(rs, data, width) == I("store", 0, rs, data, 0, width)
Branch(rs1, rs2, by) == I("branch", 1, rs1, rs2, by, 0)
Jal(rd, by) == I("jal", rd, 0, 0, by, 0)
Jalr(rs) == I("jalr", 0, rs, 0, 0, 0)
Bad == I("bad", 0, 0, 0, 0, 0)

\* A loop, and behind it the return.
Loop == P(<<Load(1, 0, 2), Op(1, 1), Branch(1, 0, 4), Op(2, 1), Load(2, 2, 2), Jalr(2)>>)
LoopPrograms == {Loop}

MCPrograms == {
    Loop,
    P(<<Load(1, 1, 2), Load(2, 0, 0), Store(1, 2, 2), Jal(2, 3), Bad, Bad>>),
    P(<<Sft(1, 1), Branch(2, 1, 2), Bad, Op(2, 1), Load(1, 1, 0), Jal(0, 2)>>),
    P(<<Store(1, 2, 0), Load(2, 1, 0), Branch(0, 2, 0), Store(2, 1, 2), Sft(1, 2), Jal(0, 3)>>),
    P(<<Op(1, 2), Load(2, 1, 2), Op(1, 1), Op(1, 1), Op(1, 2), Sft(2, 1)>>),
    P(<<Branch(1, 2, 3), Jalr(1), Jal(1, 4), Load(1, 2, 2), Branch(1, 0, 2), Jalr(2)>>),
    P(<<Load(1, 2, 0), Store(1, 1, 2), Jalr(1), Bad, Load(2, 1, 2), Jalr(2)>>),
    P(<<Jal(2, 0), Bad, Bad, Bad, Bad, Bad>>) }
=============================================================================
