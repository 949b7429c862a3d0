------------------------------ MODULE WebPage ------------------------------
(***************************************************************************)
(* The control of the page, Vue/pynq/src/App.vue: what its buttons, its    *)
(* timers and the replies of the server do to its state.                   *)
(*                                                                         *)
(* One action is one turn of the browser's event loop: a click, a timer, a *)
(* reply.  The server (external here) answers any request in flight at any *)
(* time, in any order, with any outcome, or never.                         *)
(***************************************************************************)
EXTENDS Integers, FiniteSetsExt

CONSTANTS
    Patience,       \* polls after which src_all gives up (20)
    MaxInflight,    \* bound: no click while so many requests and lost timers are
                    \* outstanding
    Clicks          \* what the user does, a subset of AllClicks

AllClicks == {"all", "build", "upload", "run", "kernel", "refresh", "auto", "edit"}

ASSUME PageAssumption ==
    /\ Patience \in Nat \ {0}
    /\ MaxInflight \in Nat
    /\ Clicks \subseteq AllClicks

Works == {"build", "upload", "run"}
Buttons == Works \cup {"all"}
Phases == {"poll", "upload", "run"}

Requests == {"build", "upload", "run", "perf", "init"}

VARIABLES
    button_status,  \* which buttons are loading; a loading button takes no click
    work_status,
    counter,        \* counts up to Patience: it is only compared with it
    hasContent,     \* content # ''
    kernel,         \* kernel_text (kernel_color goes with it)
    auto_refresh,
    held,           \* the timer in auto_refresh_timeout is pending
    orphans,        \* pending refresh timers that auto_refresh_timeout forgot
    chains,         \* timers of src_all, by what they wait for
    inflight,       \* requests the server has not answered
    since           \* history: what happened since the latest click on all

workVars == <<button_status, work_status>>
refreshVars == <<auto_refresh, held, orphans>>
vars == <<workVars, counter, hasContent, kernel, refreshVars, chains, inflight, since>>

\* A reply has said success of a build, of an upload.
Fresh == [built |-> FALSE, uploaded |-> FALSE]

-----------------------------------------------------------------------------
Post(flight, r) == [flight EXCEPT ![r] = @ + 1]
Answered(flight, r) == [flight EXCEPT ![r] = @ - 1]
Move(from, to) == [chains EXCEPT ![from] = @ - 1, ![to] = @ + 1]
End(from) == [chains EXCEPT ![from] = @ - 1]

Released == [b \in Buttons |-> FALSE]

\* mounted() starts the kernel.
Init ==
    /\ button_status = Released
    /\ work_status = [w \in Works |-> "idle"]
    /\ counter = 0
    /\ hasContent = FALSE
    /\ kernel = "Starting"
    /\ auto_refresh = FALSE /\ held = FALSE /\ orphans = 0
    /\ chains = [p \in Phases |-> 0]
    /\ inflight = Post([r \in Requests |-> 0], "init")
    /\ since = Fresh

May(click) == click \in Clicks
Room == MapThenSumSet(LAMBDA r : inflight[r], Requests) + orphans < MaxInflight

-----------------------------------------------------------------------------
(* Single steps.                                                           *)

\* src_build: nothing to build is an error at once.
ClickBuild ==
    /\ May("build") /\ ~button_status["build"] /\ Room
    /\ IF hasContent
       THEN /\ button_status' = [button_status EXCEPT !["build"] = TRUE]
            /\ inflight' = Post(inflight, "build")
            /\ UNCHANGED work_status
       ELSE /\ work_status' = [work_status EXCEPT !["build"] = "error"]
            /\ UNCHANGED <<button_status, inflight>>
    /\ UNCHANGED <<counter, hasContent, kernel, refreshVars, chains, since>>

BuildReply(outcome) ==
    /\ inflight["build"] > 0
    /\ inflight' = Answered(inflight, "build")
    /\ button_status' = [button_status EXCEPT !["build"] = FALSE]
    /\ work_status' = [work_status EXCEPT !["build"] = outcome]
    /\ since' = [since EXCEPT !.built = @ \/ outcome = "finish"]
    /\ UNCHANGED <<counter, hasContent, kernel, refreshVars, chains>>

\* src_upload and src_run.
ClickWork(w) ==
    /\ w \in {"upload", "run"} /\ May(w) /\ ~button_status[w] /\ Room
    /\ button_status' = [button_status EXCEPT ![w] = TRUE]
    /\ inflight' = Post(inflight, w)
    /\ UNCHANGED <<work_status, counter, hasContent, kernel, refreshVars, chains, since>>

UploadReply(outcome) ==
    /\ inflight["upload"] > 0
    /\ inflight' = Answered(inflight, "upload")
    /\ button_status' = [button_status EXCEPT !["upload"] = FALSE]
    /\ work_status' = [work_status EXCEPT !["upload"] = outcome]
    /\ since' = [since EXCEPT !.uploaded = @ \/ outcome = "finish"]
    /\ UNCHANGED <<counter, hasContent, kernel, refreshVars, chains>>

\* A run that worked asks for the trace: update_perf.
RunReply(outcome) ==
    /\ inflight["run"] > 0
    /\ button_status' = [button_status EXCEPT !["run"] = FALSE]
    /\ work_status' = [work_status EXCEPT !["run"] = outcome]
    /\ IF outcome = "finish"
       THEN held' = FALSE /\ inflight' = Post(Answered(inflight, "run"), "perf")
       ELSE inflight' = Answered(inflight, "run") /\ UNCHANGED held
    /\ UNCHANGED <<counter, hasContent, kernel, auto_refresh, orphans, chains, since>>

-----------------------------------------------------------------------------
(* src_all: build, poll for its end, upload, wait, run, wait.              *)

Started == [w \in Works |-> IF w = "build" /\ ~hasContent THEN "error" ELSE "idle"]

\* Mutant: the results of the chain before are kept.
ClickAllKeepsStatus ==
    /\ May("all") /\ ~button_status["all"] /\ Room
    /\ button_status' = [b \in Buttons |-> TRUE]
    /\ work_status' = IF hasContent THEN work_status ELSE [work_status EXCEPT !["build"] = "error"]
    /\ inflight' = IF hasContent THEN Post(inflight, "build") ELSE inflight
    /\ chains' = [chains EXCEPT !["poll"] = @ + 1]
    /\ since' = Fresh
    /\ UNCHANGED <<counter, hasContent, kernel, refreshVars>>
ClickAll ==
    /\ May("all") /\ ~button_status["all"] /\ Room
    /\ button_status' = [b \in Buttons |-> TRUE]
    /\ work_status' = Started
    /\ inflight' = IF hasContent THEN Post(inflight, "build") ELSE inflight
    /\ chains' = [chains EXCEPT !["poll"] = @ + 1]
    /\ since' = Fresh
    /\ UNCHANGED <<counter, hasContent, kernel, refreshVars>>

\* The build is done: upload, and look again in half a second.
PollDone ==
    /\ chains["poll"] > 0 /\ work_status["build"] = "finish"
    /\ button_status' = [button_status EXCEPT !["upload"] = TRUE]
    /\ inflight' = Post(inflight, "upload")
    /\ chains' = Move("poll", "upload")
    /\ UNCHANGED <<work_status, counter, hasContent, kernel, refreshVars, since>>

Counted == IF counter < Patience THEN counter + 1 ELSE counter
Late == Counted >= Patience

\* Mutant: the polls are not counted.
PollAgainUncounted ==
    /\ chains["poll"] > 0 /\ work_status["build"] = "idle"
    /\ UNCHANGED <<counter, workVars, chains, inflight, hasContent, kernel, refreshVars, since>>
PollAgain ==
    /\ chains["poll"] > 0 /\ work_status["build"] = "idle" /\ ~Late
    /\ counter' = Counted
    /\ UNCHANGED <<workVars, chains, inflight, hasContent, kernel, refreshVars, since>>

\* Mutant: another timer is cleared.
PollGiveUpWrongTimer ==
    /\ chains["poll"] > 0 /\ work_status["build"] # "finish"
    /\ work_status["build"] = "error" \/ Late
    /\ counter' = Counted
    /\ button_status' = Released
    /\ chains' = End("upload")
    /\ UNCHANGED <<work_status, inflight, hasContent, kernel, refreshVars, since>>
\* Mutant: the interval is not cleared.
PollGiveUpTicking ==
    /\ chains["poll"] > 0 /\ work_status["build"] # "finish"
    /\ work_status["build"] = "error" \/ Late
    /\ counter' = Counted
    /\ button_status' = Released
    /\ UNCHANGED <<chains, work_status, inflight, hasContent, kernel, refreshVars, since>>
PollGiveUp ==
    /\ chains["poll"] > 0 /\ work_status["build"] # "finish"
    /\ work_status["build"] = "error" \/ Late
    /\ counter' = Counted
    /\ button_status' = Released
    /\ chains' = End("poll")
    /\ UNCHANGED <<work_status, inflight, hasContent, kernel, refreshVars, since>>

AfterUpload ==
    /\ chains["upload"] > 0
    /\ IF work_status["upload"] = "finish"
       THEN /\ button_status' = [button_status EXCEPT !["run"] = TRUE]
            /\ inflight' = Post(inflight, "run")
            /\ chains' = Move("upload", "run")
       ELSE /\ button_status' = Released
            /\ chains' = End("upload")
            /\ UNCHANGED inflight
    /\ UNCHANGED <<work_status, counter, hasContent, kernel, refreshVars, since>>

AfterRun ==
    /\ chains["run"] > 0
    /\ button_status' = IF work_status["run"] = "finish"
                        THEN [button_status EXCEPT !["all"] = FALSE] ELSE Released
    /\ chains' = End("run")
    /\ UNCHANGED <<work_status, counter, hasContent, kernel, refreshVars, inflight, since>>

-----------------------------------------------------------------------------
(* The trace: update_perf and its timer.                                   *)

UpdatePerf == held' = FALSE /\ inflight' = Post(inflight, "perf")

ClickRefresh ==
    /\ May("refresh") /\ Room
    /\ UpdatePerf
    /\ UNCHANGED <<workVars, counter, hasContent, kernel, auto_refresh, orphans, chains, since>>

\* Timers of one delay fire in the order they were set: the held one is the last.
RefreshTimer ==
    /\ orphans > 0 \/ held
    /\ orphans' = IF orphans > 0 THEN orphans - 1 ELSE 0
    /\ UpdatePerf
    /\ UNCHANGED <<workVars, counter, hasContent, kernel, auto_refresh, chains, since>>

\* Mutant: the timer is set whatever the box says.
PerfReplyAlways ==
    /\ inflight["perf"] > 0
    /\ inflight' = Answered(inflight, "perf")
    /\ held' = TRUE
    /\ orphans' = IF held THEN orphans + 1 ELSE orphans
    /\ UNCHANGED <<workVars, counter, hasContent, kernel, auto_refresh, chains, since>>
PerfReply ==
    /\ inflight["perf"] > 0
    /\ inflight' = Answered(inflight, "perf")
    /\ held' = (held \/ auto_refresh)
    /\ orphans' = IF held /\ auto_refresh THEN orphans + 1 ELSE orphans
    /\ UNCHANGED <<workVars, counter, hasContent, kernel, auto_refresh, chains, since>>

\* An error has no handler, and neither has an exception of the drawing.
PerfLost ==
    /\ inflight["perf"] > 0
    /\ inflight' = Answered(inflight, "perf")
    /\ UNCHANGED <<workVars, counter, hasContent, kernel, refreshVars, chains, since>>

ToggleAuto ==
    /\ May("auto")
    /\ auto_refresh' = ~auto_refresh
    /\ UNCHANGED <<workVars, counter, hasContent, kernel, held, orphans, chains, inflight, since>>

-----------------------------------------------------------------------------
(* The kernel and the editor.                                              *)

StartKernel ==
    /\ May("kernel") /\ Room
    /\ kernel' = "Starting"
    /\ inflight' = Post(inflight, "init")
    /\ UNCHANGED <<workVars, counter, hasContent, refreshVars, chains, since>>

InitReply(outcome) ==
    /\ inflight["init"] > 0
    /\ inflight' = Answered(inflight, "init")
    /\ kernel' = outcome
    /\ UNCHANGED <<workVars, counter, hasContent, refreshVars, chains, since>>

Edit ==
    /\ May("edit")
    /\ hasContent' = ~hasContent
    /\ UNCHANGED <<workVars, counter, kernel, refreshVars, chains, inflight, since>>

-----------------------------------------------------------------------------
Outcomes == {"finish", "error"}

User == ClickAll \/ ClickBuild \/ ClickRefresh \/ ToggleAuto \/ StartKernel \/ Edit
        \/ \E w \in {"upload", "run"} : ClickWork(w)

ChainTimer == PollDone \/ PollAgain \/ PollGiveUp \/ AfterUpload \/ AfterRun

Reply ==
    \/ \E outcome \in Outcomes :
         \/ BuildReply(outcome)
         \/ UploadReply(outcome)
         \/ RunReply(outcome)
    \/ \E outcome \in {"Ready", "Stopped"} : InitReply(outcome)
    \/ PerfReply \/ PerfLost

Next == User \/ ChainTimer \/ RefreshTimer \/ Reply

Spec == Init /\ [][Next]_vars

\* A browser fires a timer that is due; nothing is assumed of the server.
FairSpec == Spec /\ WF_vars(ChainTimer) /\ WF_vars(RefreshTimer)

-----------------------------------------------------------------------------
TypeOK ==
    /\ button_status \in [Buttons -> BOOLEAN]
    /\ work_status \in [Works -> {"idle", "finish", "error"}]
    /\ counter \in 0..Patience
    /\ hasContent \in BOOLEAN
    /\ kernel \in {"Stopped", "Starting", "Ready"}
    /\ auto_refresh \in BOOLEAN /\ held \in BOOLEAN /\ orphans \in Nat
    /\ chains \in [Phases -> Nat]
    /\ inflight \in [Requests -> Nat]
    /\ since \in [built: BOOLEAN, uploaded: BOOLEAN]

(* There is one chain of src_all while its button is loading and none      *)
(* otherwise: no click starts a second chain beside a running one, and no  *)
(* way out of a chain forgets a timer or the button.                       *)
OneChain ==
    chains["poll"] + chains["upload"] + chains["run"] = IF button_status["all"] THEN 1 ELSE 0

(* A chain uploads only after a build has succeeded since its click, and   *)
(* runs only after an upload has.                                          *)
ChainInOrder ==
    /\ chains["upload"] > 0 => since.built
    /\ chains["run"] > 0 => since.built /\ since.uploaded

(* A chain ends, and gives its button back, whatever the server does: the  *)
(* timers alone see to it.                                                 *)
AllReleased == button_status["all"] ~> ~button_status["all"]

(* Once Auto Refresh is off for good, refreshing stops: no timer is left.  *)
RefreshStops == <>[]~auto_refresh => <>[](~held /\ orphans = 0)
=============================================================================
