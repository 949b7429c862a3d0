--------------------------- MODULE MCTraceSession ---------------------------
(* TraceSession for TLC: a program of one function, entered at 4 and left  *)
(* at 8 or at 12.                                                          *)
EXTENDS TraceSession

MCListing == <<[kind |-> "label", addr |-> 4, func |-> "main"],
               [kind |-> "ret", addr |-> 8, func |-> ""],
               [kind |-> "ret", addr |-> 12, func |-> ""]>>
MCShort == SubSeq(MCListing, 1, 2)
=============================================================================
