---------------------------- MODULE WebPageProofs ----------------------------
(***************************************************************************)
(* Proofs about WebPage: its types, that there is one chain of src_all at  *)
(* a time, and that a chain does its steps in order, for every patience    *)
(* and every number of requests in flight.                                 *)
(***************************************************************************)
EXTENDS WebPage, TLAPS

USE PageAssumption

-----------------------------------------------------------------------------
(* What the small operators return.                                        *)

\* Posting adds a request, and leaves a count of requests.
LEMMA PostTyped ==
    ASSUME NEW flight \in [Requests -> Nat], NEW r \in Requests
    PROVE  Post(flight, r) \in [Requests -> Nat]
BY DEF Post

\* Answering one that is in flight does too.
LEMMA AnsweredTyped ==
    ASSUME NEW flight \in [Requests -> Nat], NEW r \in Requests, flight[r] > 0
    PROVE  Answered(flight, r) \in [Requests -> Nat]
BY DEF Answered

\* A page just loaded is well typed.
LEMMA InitTyped == Init => TypeOK
<1> SUFFICES ASSUME Init PROVE TypeOK
  OBVIOUS
<1>1. [r \in Requests |-> 0] \in [Requests -> Nat] /\ "init" \in Requests
  BY DEF Requests
<1>2. inflight \in [Requests -> Nat]
  BY <1>1, PostTyped DEF Init
<1>3. chains \in [Phases -> Nat] /\ counter \in 0..Patience /\ orphans \in Nat
  BY DEF Init
<1>4. since \in [built: BOOLEAN, uploaded: BOOLEAN]
  BY DEF Init, Fresh
<1>5. /\ button_status \in [Buttons -> BOOLEAN]
      /\ work_status \in [Works -> {"idle", "finish", "error"}]
      /\ hasContent \in BOOLEAN /\ auto_refresh \in BOOLEAN /\ held \in BOOLEAN
      /\ kernel \in {"Stopped", "Starting", "Ready"}
  BY DEF Init, Released
<1> QED
  BY <1>2, <1>3, <1>4, <1>5 DEF TypeOK

\* A turn of the event loop keeps the types: what it ends is there.
LEMMA NextTyped == TypeOK /\ [Next]_vars => TypeOK'
<1> SUFFICES ASSUME TypeOK, [Next]_vars PROVE TypeOK'
  OBVIOUS
<1> USE DEF TypeOK, workVars, refreshVars
<1>1. CASE ClickBuild
  <2>1. inflight' \in [Requests -> Nat]
    BY <1>1, PostTyped DEF ClickBuild, Requests
  <2>2. button_status' \in [Buttons -> BOOLEAN]
    BY <1>1 DEF ClickBuild, Buttons
  <2>3. work_status' \in [Works -> {"idle", "finish", "error"}]
    BY <1>1 DEF ClickBuild, Works
  <2> QED
    BY <1>1, <2>1, <2>2, <2>3 DEF ClickBuild
<1>2. ASSUME NEW outcome \in Outcomes, BuildReply(outcome) PROVE TypeOK'
  BY <1>2, AnsweredTyped DEF BuildReply, Outcomes, Works, Requests, Buttons
<1>3. ASSUME NEW w \in {"upload", "run"}, ClickWork(w) PROVE TypeOK'
  BY <1>3, PostTyped DEF ClickWork, Works, Requests, Buttons
<1>4. ASSUME NEW outcome \in Outcomes, UploadReply(outcome) PROVE TypeOK'
  BY <1>4, AnsweredTyped DEF UploadReply, Outcomes, Works, Requests, Buttons
<1>5. ASSUME NEW outcome \in Outcomes, RunReply(outcome) PROVE TypeOK'
  <2>1. Answered(inflight, "run") \in [Requests -> Nat]
    BY <1>5, AnsweredTyped DEF RunReply, Requests
  <2>2. inflight' \in [Requests -> Nat] /\ held' \in BOOLEAN
    BY <1>5, <2>1, PostTyped DEF RunReply, Requests
  <2>3. button_status' \in [Buttons -> BOOLEAN]
    BY <1>5 DEF RunReply, Buttons
  <2>4. work_status' \in [Works -> {"idle", "finish", "error"}]
    BY <1>5 DEF RunReply, Works, Outcomes
  <2> QED
    BY <1>5, <2>2, <2>3, <2>4 DEF RunReply
<1>6. CASE ClickAll
  BY <1>6, PostTyped DEF ClickAll, Started, Fresh, Works, Requests, Buttons, Phases
<1>7. CASE PollDone
  <2>1. inflight' \in [Requests -> Nat]
    BY <1>7, PostTyped DEF PollDone, Requests
  <2>2. chains' \in [Phases -> Nat]
    BY <1>7 DEF PollDone, Move, Phases
  <2>3. button_status' \in [Buttons -> BOOLEAN]
    BY <1>7 DEF PollDone, Buttons
  <2> QED
    BY <1>7, <2>1, <2>2, <2>3 DEF PollDone
<1>8. CASE PollAgain
  BY <1>8 DEF PollAgain, Counted
<1>9. CASE PollGiveUp
  <2>1. chains' \in [Phases -> Nat]
    BY <1>9 DEF PollGiveUp, End, Phases
  <2>2. button_status' \in [Buttons -> BOOLEAN]
    BY <1>9 DEF PollGiveUp, Released
  <2>3. counter' \in 0..Patience
    BY <1>9 DEF PollGiveUp, Counted
  <2> QED
    BY <1>9, <2>1, <2>2, <2>3 DEF PollGiveUp
<1>10. CASE AfterUpload
  <2>1. inflight' \in [Requests -> Nat]
    BY <1>10, PostTyped DEF AfterUpload, Requests
  <2>2. chains' \in [Phases -> Nat]
    BY <1>10 DEF AfterUpload, Move, End, Phases
  <2>3. button_status' \in [Buttons -> BOOLEAN]
    <3>1. \/ button_status' = [button_status EXCEPT !["run"] = TRUE]
          \/ button_status' = Released
      BY <1>10 DEF AfterUpload
    <3>2. Released \in [Buttons -> BOOLEAN]
      BY DEF Released
    <3> QED
      BY <3>1, <3>2
  <2> QED
    BY <1>10, <2>1, <2>2, <2>3 DEF AfterUpload
<1>11. CASE AfterRun
  BY <1>11 DEF AfterRun, Released, End, Buttons, Phases
<1>12. CASE ClickRefresh
  BY <1>12, PostTyped DEF ClickRefresh, UpdatePerf, Requests
<1>13. CASE RefreshTimer
  <2>1. inflight' \in [Requests -> Nat] /\ held' = FALSE
    BY <1>13, PostTyped DEF RefreshTimer, UpdatePerf, Requests
  <2>2. orphans' \in Nat
    BY <1>13 DEF RefreshTimer
  <2> QED
    BY <1>13, <2>1, <2>2 DEF RefreshTimer
<1>14. CASE PerfReply \/ PerfLost
  BY <1>14, AnsweredTyped DEF PerfReply, PerfLost, Requests
<1>15. CASE ToggleAuto \/ Edit
  BY <1>15 DEF ToggleAuto, Edit
<1>16. CASE StartKernel
  BY <1>16, PostTyped DEF StartKernel, Requests
<1>17. ASSUME NEW outcome \in {"Ready", "Stopped"}, InitReply(outcome) PROVE TypeOK'
  BY <1>17, AnsweredTyped DEF InitReply, Requests
<1>18. CASE UNCHANGED vars
  BY <1>18 DEF vars
<1> HIDE DEF TypeOK
<1>19. CASE User
  BY <1>1, <1>3, <1>6, <1>12, <1>15, <1>16, <1>19, Zenon DEF User
<1>20. CASE ChainTimer
  BY <1>7, <1>8, <1>9, <1>10, <1>11, <1>20, Zenon DEF ChainTimer
<1>21. CASE Reply
  BY <1>2, <1>4, <1>5, <1>14, <1>17, <1>21, Zenon DEF Reply
<1> QED
  BY <1>13, <1>18, <1>19, <1>20, <1>21, Zenon DEF Next

(* The types, of every reachable state: no timer and no request is ended   *)
(* that is not there.                                                      *)
THEOREM TypeCorrect == Spec => []TypeOK
<1>1. Init => TypeOK
  BY InitTyped
<1>2. TypeOK /\ [Next]_vars => TypeOK'
  BY NextTyped
<1> QED
  BY <1>1, <1>2, PTL DEF Spec

-----------------------------------------------------------------------------
(* The chain.                                                              *)

\* What work_status says happened has happened since the latest click on all.
SaidIsDone ==
    /\ work_status["build"] = "finish" => since.built
    /\ work_status["upload"] = "finish" => since.uploaded

ChainInv == OneChain /\ ChainInOrder /\ SaidIsDone

\* No chain runs in a page just loaded.
LEMMA InitChain == Init => ChainInv
BY DEF Init, ChainInv, OneChain, ChainInOrder, SaidIsDone, Fresh, Released, Works, Buttons, Phases

\* A turn of the event loop keeps the chain single and in order.
LEMMA NextChain == TypeOK /\ ChainInv /\ [Next]_vars => ChainInv'
<1> SUFFICES ASSUME TypeOK, ChainInv, [Next]_vars PROVE ChainInv'
  OBVIOUS
<1> USE DEF TypeOK, ChainInv, OneChain, ChainInOrder, SaidIsDone, workVars, refreshVars
<1>1. CASE ClickBuild
  BY <1>1 DEF ClickBuild, Works, Buttons
<1>2. ASSUME NEW outcome \in Outcomes, BuildReply(outcome) PROVE ChainInv'
  BY <1>2 DEF BuildReply, Outcomes, Works, Buttons
<1>3. ASSUME NEW w \in {"upload", "run"}, ClickWork(w) PROVE ChainInv'
  BY <1>3 DEF ClickWork, Works, Buttons
<1>4. ASSUME NEW outcome \in Outcomes, UploadReply(outcome) PROVE ChainInv'
  BY <1>4 DEF UploadReply, Outcomes, Works, Buttons
<1>5. ASSUME NEW outcome \in Outcomes, RunReply(outcome) PROVE ChainInv'
  BY <1>5 DEF RunReply, Outcomes, Works, Buttons
<1>6. CASE ClickAll
  BY <1>6 DEF ClickAll, Started, Fresh, Works, Buttons, Phases
<1>7. CASE PollDone
  BY <1>7 DEF PollDone, Move, Works, Buttons, Phases
<1>8. CASE PollAgain
  BY <1>8 DEF PollAgain
<1>9. CASE PollGiveUp
  BY <1>9 DEF PollGiveUp, Released, End, Buttons, Phases
<1>10. CASE AfterUpload
  BY <1>10 DEF AfterUpload, Released, Move, End, Works, Buttons, Phases
<1>11. CASE AfterRun
  BY <1>11 DEF AfterRun, Released, End, Works, Buttons, Phases
<1>12. CASE ClickRefresh
  BY <1>12 DEF ClickRefresh
<1>13. CASE RefreshTimer
  BY <1>13 DEF RefreshTimer
<1>14. CASE PerfReply \/ PerfLost
  BY <1>14 DEF PerfReply, PerfLost
<1>15. CASE ToggleAuto \/ Edit
  BY <1>15 DEF ToggleAuto, Edit
<1>16. CASE StartKernel
  BY <1>16 DEF StartKernel
<1>17. ASSUME NEW outcome \in {"Ready", "Stopped"}, InitReply(outcome) PROVE ChainInv'
  BY <1>17 DEF InitReply
<1>18. CASE UNCHANGED vars
  BY <1>18 DEF vars
<1> HIDE DEF TypeOK, ChainInv
<1>19. CASE User
  BY <1>1, <1>3, <1>6, <1>12, <1>15, <1>16, <1>19, Zenon DEF User
<1>20. CASE ChainTimer
  BY <1>7, <1>8, <1>9, <1>10, <1>11, <1>20, Zenon DEF ChainTimer
<1>21. CASE Reply
  BY <1>2, <1>4, <1>5, <1>14, <1>17, <1>21, Zenon DEF Reply
<1> QED
  BY <1>13, <1>18, <1>19, <1>20, <1>21, Zenon DEF Next

\* The invariant of the chain, with the types it needs.
LEMMA ChainAlways == Spec => []ChainInv
<1>1. Init => TypeOK /\ ChainInv
  BY InitTyped, InitChain
<1>2. TypeOK /\ ChainInv /\ [Next]_vars => TypeOK' /\ ChainInv'
  BY NextTyped, NextChain
<1> QED
  BY <1>1, <1>2, PTL DEF Spec

(* src_all never runs beside itself, and never loses its button.           *)
THEOREM OneChainAlways == Spec => []OneChain
<1>1. ChainInv => OneChain
  BY DEF ChainInv
<1> QED
  BY <1>1, ChainAlways, PTL

(* src_all uploads only after a build and runs only after an upload that   *)
(* succeeded since its click.                                              *)
THEOREM InOrderAlways == Spec => []ChainInOrder
<1>1. ChainInv => ChainInOrder
  BY DEF ChainInv
<1> QED
  BY <1>1, ChainAlways, PTL
=============================================================================
