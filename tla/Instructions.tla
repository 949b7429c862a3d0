---------------------------- MODULE Instructions ----------------------------
(***************************************************************************)
(* What the pipeline of the RISC-V core tells instructions apart by.       *)
(***************************************************************************)
EXTENDS Integers

CONSTANTS
    Words,      \* bound: words of a program; addresses wrap at it
    Programs    \* functions from addresses to instructions

Pcs == 0..(Words - 1)
NoPc == -1
OrNone(S) == S \cup {NoPc}
Plus(pc, n) == (pc + n) % Words

\* A format without a source register has 0 in its place, as x0 is never
\* waited for; bits 11:7 are rd whatever the format.  by is the offset of a jal
\* or a branch in words, width what a load or a store has in bits 14:12.
Kinds == {"op", "shift", "load", "store", "branch", "jal", "jalr", "bad"}
Regs == 0..2
Widths == {0, 2}
Instruction ==
    [kind: Kinds, rd: Regs, rs1: Regs, rs2: Regs, by: Pcs, width: Widths]

ASSUME ProgramAssumption ==
    /\ Words \in Nat \ {0}
    /\ \A p \in Programs : p \in [Pcs -> Instruction]

Nop == [kind |-> "op", rd |-> 0, rs1 |-> 0, rs2 |-> 0, by |-> 0, width |-> 0]

\* A word on its way through the pipeline, with the address it goes by.
Fetched == [pc: Pcs, instr: Instruction]
None == [pc |-> NoPc, instr |-> Nop]

InMemory(i) == i.kind \in {"load", "store"}
Operands(i) == {i.rs1, i.rs2} \ {0}

\* regen, as the ALU passes it on: o_regen has no term for the comparator, so
\* a jalr writes no register.
Writes(i) == i.kind \in {"op", "shift", "load", "jal"}
=============================================================================
