------------------------------ MODULE Machine ------------------------------
(***************************************************************************)
(* What a core without a pipeline does with a program: it executes one     *)
(* instruction at a time, each in the place the one before leads to, and   *)
(* stops at a word that is none.  A reset starts the program again.  The   *)
(* machine may break, and promises nothing then.                           *)
(***************************************************************************)
EXTENDS Instructions

VARIABLES
    program,
    pc,     \* the next instruction, NoPc when broken
    last,   \* the one executed last
    run     \* the resets so far

vars == <<program, pc, last, run>>

Successors(i, at) ==
    IF i.kind = "jalr" THEN Pcs
    ELSE IF i.kind = "jal" THEN {Plus(at, i.by)}
    ELSE {Plus(at, 1)} \cup IF i.kind = "branch" THEN {Plus(at, i.by)} ELSE {}

Init == program \in Programs /\ pc = 0 /\ last = NoPc /\ run = 0

Execute ==
    /\ pc # NoPc /\ program[pc].kind # "bad"
    /\ pc' \in Successors(program[pc], pc)
    /\ last' = pc
    /\ UNCHANGED <<program, run>>

Restart == pc # NoPc /\ pc' = 0 /\ run' = run + 1 /\ UNCHANGED <<program, last>>

Break == pc' = NoPc /\ last' = NoPc /\ run' = 0 /\ UNCHANGED program

Next == Execute \/ Restart \/ Break

Spec == Init /\ [][Next]_vars
=============================================================================
