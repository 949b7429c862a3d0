-------------------------- MODULE MCFunctionTrace --------------------------
(* FunctionTraceImpl for TLC.  The core retires a few PCs, each at a time  *)
(* stamp of its own, as a cycle counter gives them; the host writes the    *)
(* symbols before it sets the run register, as tools.run does, and never   *)
(* lets the bus wait.  It reads any register at any time.                  *)
EXTENDS FunctionTraceImpl

CONSTANT MaxSeen    \* bound: PCs the core retires

VARIABLE seen       \* how many it has

MCInit == Init /\ seen = 0

MCTick ==
    \E in \in Retired :
        /\ in.valid => seen < MaxSeen /\ in.perf = seen
        /\ seen' = IF in.valid THEN seen + 1 ELSE seen
        /\ Edge(in)
        /\ reg_system_run = 1 => ~awvalid'
        /\ ~wowed'
        /\ bvalid => ~bvalid'
        /\ rvalid => ~rvalid'

MCSpec == MCInit /\ [][MCTick]_<<vars, seen>>
=============================================================================
