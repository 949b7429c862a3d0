---------------------------- MODULE BuildServer ----------------------------
(***************************************************************************)
(* Building, uploading and starting a program on the server:               *)
(* Django/pynq/pynq_0/tools.py and view.py with tools/make/makefile.       *)
(*                                                                         *)
(* The development server answers every request in a thread of its own;    *)
(* the source files, the object files, the log files and the board are     *)
(* shared by all of them, and nothing is locked.  A tool of the make, and  *)
(* an upload, has a step in which it takes its input and one in which its  *)
(* output is done; every other step of a thread is one access to what is   *)
(* shared.  A program is the number of the build request that brought it.  *)
(***************************************************************************)
EXTENDS Integers, FiniteSets

CONSTANTS
    Threads,        \* requests handled at a time
    Types,          \* languages the page asks for, a subset of AllTypes
    Verdicts,       \* what the tools may say of a program, a subset of AllVerdicts
    MaxBuilds       \* bound: build requests

\* What App.vue:76-80 offers.
AllTypes == {"C", "C++", "ASM"}

\* "bad" ends the make in the compiler, "unlinked" (without a main, say) in the
\* linker; of a program with a warning the make says something, but goes on.
AllVerdicts == {"fine", "warning", "bad", "unlinked"}

ASSUME ServerAssumption ==
    /\ Types \subseteq AllTypes
    /\ "fine" \in Verdicts /\ Verdicts \subseteq AllVerdicts
    /\ MaxBuilds \in Nat

Programs == 1..MaxBuilds
None == 0
Torn == -1          \* not the whole of any program: half written, or a mixture
Contents == Programs \cup {None, Torn}
Files == {"main.c", "main.cpp", "main.S"}

VARIABLES
    verdict,        \* [Programs -> Verdicts], what is wrong with the source sent
    builds,         \* build requests so far
    files,          \* which program's source each file holds
    newer,          \* the files modified after main.o was
    objects,        \* [o, elf, asm, bin]: what the files on disk hold
    stale,          \* the targets older than what they are made from
    log,            \* b.log is not empty
    at, job, remade,    \* the threads: place, request, target their make has remade
    input,          \* what the tool or the upload of a thread has read
    answer,         \* history: the reply to the latest request, if it met no other
    board           \* [mem: the memory of the core; history: sent, the program
                    \* a success was answered for before it was uploaded;
                    \* ran, the latest run of such a program]

disk == <<files, newer, objects, stale, log>>
threads == <<at, job, remade, input>>
vars == <<verdict, builds, disk, threads, answer, board>>

Building == {"store", "open", "compile", "compiling", "link", "linking",
             "objdump", "dumping", "objcopy", "copying", "reply"}
Places == Building \cup {"idle", "loading"}
\* alone, history: no other build has been under way since the request; only: no
\* source of another language was there at the reply.
NoJob == [program |-> None, type |-> "C", alone |-> FALSE]
NoAnswer == [program |-> None, code |-> 0, asm |-> None, bin |-> None, only |-> FALSE]
NoRun == [labels |-> None, program |-> None]

Init ==
    /\ verdict = [p \in Programs |-> "fine"]
    /\ builds = 0
    /\ files = [f \in Files |-> None]
    /\ newer = {}
    /\ objects = [o |-> None, elf |-> None, asm |-> None, bin |-> None]
    /\ stale = {}
    /\ log = FALSE
    /\ at = [t \in Threads |-> "idle"]
    /\ job = [t \in Threads |-> NoJob]
    /\ remade = [t \in Threads |-> FALSE]
    /\ input = [t \in Threads |-> None]
    /\ answer = NoAnswer
    /\ board = [mem |-> None, sent |-> None, ran |-> NoRun]

Go(t, from, to) == at[t] = from /\ at' = [at EXCEPT ![t] = to]

Quiet == \A t \in Threads : at[t] \notin Building

\* t reads what and opens its output.  Two at one output leave a mixture in it.
Takes(t, busy, what) ==
    LET others == {u \in Threads \ {t} : at[u] = busy}
    IN  input' = IF others = {} THEN [input EXCEPT ![t] = what]
                 ELSE [u \in Threads |-> IF u \in others \cup {t} THEN Torn ELSE input[u]]
Ends(t) == input' = [input EXCEPT ![t] = None]

-----------------------------------------------------------------------------
(* A build request: view.build, tools.build.                               *)

Request(t, type) ==
    /\ builds < MaxBuilds
    /\ Go(t, "idle", "store")
    /\ builds' = builds + 1
    /\ \E v \in Verdicts : verdict' = [verdict EXCEPT ![builds + 1] = v]
    /\ job' = [u \in Threads |->
                 IF u = t THEN [program |-> builds + 1, type |-> type, alone |-> Quiet]
                 ELSE [job[u] EXCEPT !.alone = FALSE]]
    /\ answer' = NoAnswer
    /\ board' = [board EXCEPT !.sent = None, !.ran = NoRun]
    /\ UNCHANGED <<disk, remade, input>>

\* Mutant: the name of SOURCE_FILE_NAME for assembly.
FileOfAsm(type) == CASE type = "C" -> {"main.c"}
                     [] type = "CPP" -> {"main.cpp"}
                     [] type = "ASM" -> {"main.asm"}
                     [] OTHER -> {}
\* store knows 'CPP' where the page says 'C++'.
FileOf(type) == CASE type = "C" -> {"main.c"}
                  [] type = "CPP" -> {"main.cpp"}
                  [] type = "ASM" -> {"main.S"}
                  [] OTHER -> {}

\* Mutant: a source that is there is not overwritten.
StoreOnce(t) ==
    /\ Go(t, "store", "open")
    /\ files' = [f \in Files |-> IF f \in FileOf(job[t].type) /\ files[f] = None
                                THEN job[t].program ELSE files[f]]
    /\ newer' = newer \cup FileOf(job[t].type)
    /\ UNCHANGED <<verdict, builds, objects, stale, log, job, remade, input, answer, board>>
\* Its clean-up looks for the old sources in the working directory, where they
\* are not: no source is ever removed.
Store(t) ==
    /\ Go(t, "store", "open")
    /\ files' = [f \in Files |-> IF f \in FileOf(job[t].type) THEN job[t].program ELSE files[f]]
    /\ newer' = newer \cup FileOf(job[t].type)
    /\ UNCHANGED <<verdict, builds, objects, stale, log, job, remade, input, answer, board>>

\* Opening the logs empties them, whoever is writing to them.
OpenLog(t) ==
    /\ Go(t, "open", "compile")
    /\ log' = FALSE
    /\ remade' = [remade EXCEPT ![t] = FALSE]
    /\ UNCHANGED <<verdict, builds, files, newer, objects, stale, job, input, answer, board>>

-----------------------------------------------------------------------------
(* The make.                                                               *)

\* A tool that fails says so in the log, and the make ends.
Fails(t, busy) == Go(t, busy, "reply") /\ log' = TRUE /\ UNCHANGED remade

\* Of the three rules for main.o make takes the first whose source is there.
Chosen == IF files["main.c"] # None THEN {"main.c"}
          ELSE IF files["main.cpp"] # None THEN {"main.cpp"}
          ELSE {f \in {"main.S"} : files[f] # None}

\* Without any source there is no rule: make says so on stderr.
NoSource(t) ==
    /\ Chosen = {}
    /\ Fails(t, "compile")
    /\ UNCHANGED <<verdict, builds, files, newer, objects, stale, job, input, answer, board>>

UpToDate(t) ==
    /\ Chosen # {} /\ Chosen \cap newer = {} /\ objects.o # None
    /\ Go(t, "compile", "link")
    /\ UNCHANGED <<verdict, builds, disk, job, remade, input, answer, board>>

StartCompile(t) ==
    \E f \in Chosen :
        /\ f \in newer \/ objects.o = None
        /\ Go(t, "compile", "compiling")
        /\ input' = [input EXCEPT ![t] = files[f]]
        /\ UNCHANGED <<verdict, builds, disk, job, remade, answer, board>>

\* The object is written last, so it is younger than a source that came meanwhile.
Compile(t) ==
    LET source == input[t]
    IN  /\ at[t] = "compiling"
        /\ IF verdict[source] = "bad"
           THEN Fails(t, "compiling") /\ UNCHANGED <<newer, objects, stale>>
           ELSE /\ Go(t, "compiling", "link")
                /\ log' = (log \/ verdict[source] = "warning")
                /\ objects' = [objects EXCEPT !.o = source]
                /\ newer' = {}
                /\ stale' = stale \cup {"elf"}
                /\ remade' = [remade EXCEPT ![t] = TRUE]
        /\ Ends(t)
        /\ UNCHANGED <<verdict, builds, files, job, answer, board>>

\* Mutant: the program does not depend on the object.
RelinksMissing(t) == objects.elf = None
\* A target is made again if what it is made from was, or is newer.
Relinks(t) == remade[t] \/ "elf" \in stale \/ objects.elf = None
Remakes(t) == remade[t] \/ "bin" \in stale \/ objects.bin = None

Linked == stale' = (stale \ {"elf"}) \cup {"bin"}

StartLink(t) ==
    /\ IF Relinks(t)
       THEN /\ Go(t, "link", "linking")
            /\ Takes(t, "linking", objects.o)
            /\ objects' = [objects EXCEPT !.elf = Torn]
            /\ Linked
       ELSE /\ Go(t, "link", "objdump")
            /\ UNCHANGED <<objects, stale, input>>
    /\ UNCHANGED <<verdict, builds, files, newer, log, job, remade, answer, board>>

Unlinked == {p \in Programs : verdict[p] = "unlinked"}

\* The linker takes its output away when it fails.
Link(t) ==
    /\ at[t] = "linking"
    /\ \/ /\ input[t] \in Unlinked \cup {Torn}
          /\ Fails(t, "linking")
          /\ objects' = [objects EXCEPT !.elf = None]
          /\ UNCHANGED stale
       \/ /\ input[t] \notin Unlinked
          /\ Go(t, "linking", "objdump")
          /\ objects' = [objects EXCEPT !.elf = input[t]]
          /\ Linked
          /\ remade' = [remade EXCEPT ![t] = TRUE]
          /\ UNCHANGED log
    /\ Ends(t)
    /\ UNCHANGED <<verdict, builds, files, newer, job, answer, board>>

\* Mutant: the listing is made when there is none.
StartObjdumpOnce(t) ==
    /\ IF Remakes(t) /\ objects.asm = None
       THEN /\ Go(t, "objdump", "dumping")
            /\ Takes(t, "dumping", objects.elf)
            /\ objects' = [objects EXCEPT !.asm = Torn]
       ELSE /\ Go(t, "objdump", IF Remakes(t) THEN "objcopy" ELSE "reply")
            /\ UNCHANGED <<objects, input>>
    /\ UNCHANGED <<verdict, builds, files, newer, stale, log, job, remade, answer, board>>
\* The rule for main.bin: first the listing, then the binary.  The shell has
\* emptied asm.asm before objdump looks for the program.
StartObjdump(t) ==
    /\ IF Remakes(t)
       THEN /\ Go(t, "objdump", "dumping")
            /\ Takes(t, "dumping", objects.elf)
            /\ objects' = [objects EXCEPT !.asm = Torn]
       ELSE /\ Go(t, "objdump", "reply")
            /\ UNCHANGED <<objects, input>>
    /\ UNCHANGED <<verdict, builds, files, newer, stale, log, job, remade, answer, board>>

Objdump(t) ==
    /\ \/ input[t] \in {None, Torn} /\ Fails(t, "dumping") /\ UNCHANGED objects
       \/ /\ input[t] # None
          /\ Go(t, "dumping", "objcopy")
          /\ objects' = [objects EXCEPT !.asm = input[t]]
          /\ UNCHANGED <<log, remade>>
    /\ Ends(t)
    /\ UNCHANGED <<verdict, builds, files, newer, stale, job, answer, board>>

\* Without a program objcopy leaves the old binary alone.
StartObjcopy(t) ==
    /\ IF objects.elf = None
       THEN Fails(t, "objcopy") /\ UNCHANGED <<objects, input>>
       ELSE /\ Go(t, "objcopy", "copying")
            /\ Takes(t, "copying", objects.elf)
            /\ objects' = [objects EXCEPT !.bin = Torn]
            /\ UNCHANGED <<log, remade>>
    /\ UNCHANGED <<verdict, builds, files, newer, stale, job, answer, board>>

Objcopy(t) ==
    /\ \/ input[t] = Torn /\ Fails(t, "copying") /\ UNCHANGED <<objects, stale>>
       \/ /\ Go(t, "copying", "reply")
          /\ objects' = [objects EXCEPT !.bin = input[t]]
          /\ stale' = stale \ {"bin"}
          /\ UNCHANGED <<log, remade>>
    /\ Ends(t)
    /\ UNCHANGED <<verdict, builds, files, newer, job, answer, board>>

Answer(t, code) == [program |-> job[t].program, code |-> code,
                    asm |-> objects.asm, bin |-> objects.bin,
                    only |-> {f \in Files : files[f] # None} \subseteq FileOf(job[t].type)]

\* Mutant: a binary is taken for a success.
ReplyByBinary(t) ==
    /\ Go(t, "reply", "idle")
    /\ answer' = IF job[t].alone THEN Answer(t, IF objects.bin = None THEN 1 ELSE 0) ELSE answer
    /\ job' = [job EXCEPT ![t] = NoJob]
    /\ UNCHANGED <<verdict, builds, disk, remade, input, board>>
\* The log decides: whatever is in it is an error.
Reply(t) ==
    /\ Go(t, "reply", "idle")
    /\ answer' = IF job[t].alone THEN Answer(t, IF log THEN 1 ELSE 0) ELSE answer
    /\ job' = [job EXCEPT ![t] = NoJob]
    /\ UNCHANGED <<verdict, builds, disk, remade, input, board>>

-----------------------------------------------------------------------------
(* tools.upload and tools.run; TraceSession has the steps of a run.        *)

Loading == \E t \in Threads : at[t] = "loading"
Sent == IF answer.only /\ answer.code = 0 THEN answer.program ELSE None

\* The core is not held: a program that runs has its memory taken away.
StartUpload(t) ==
    /\ objects.bin # None
    /\ Go(t, "idle", "loading")
    /\ Takes(t, "loading", objects.bin)
    /\ board' = [mem |-> Torn, sent |-> IF Loading THEN None ELSE Sent, ran |-> NoRun]
    /\ UNCHANGED <<verdict, builds, disk, job, remade, answer>>

Upload(t) ==
    /\ Go(t, "loading", "idle")
    /\ board' = [board EXCEPT !.mem = input[t]]
    /\ Ends(t)
    /\ UNCHANGED <<verdict, builds, disk, job, remade, answer>>

Run(t) ==
    /\ at[t] = "idle" /\ objects.asm # None /\ board.mem # None
    /\ board' = [board EXCEPT !.ran =
                    IF Loading \/ board.sent = None THEN NoRun
                    ELSE [labels |-> objects.asm, program |-> board.mem]]
    /\ UNCHANGED <<verdict, builds, disk, threads, answer>>

Make(t) ==
    \/ NoSource(t) \/ UpToDate(t) \/ StartCompile(t) \/ Compile(t)
    \/ StartLink(t) \/ Link(t) \/ StartObjdump(t) \/ Objdump(t)
    \/ StartObjcopy(t) \/ Objcopy(t)

Next ==
    \E t \in Threads :
        \/ \E type \in Types : Request(t, type)
        \/ Store(t) \/ OpenLog(t) \/ Make(t) \/ Reply(t)
        \/ StartUpload(t) \/ Upload(t) \/ Run(t)

Spec == Init /\ [][Next]_vars

-----------------------------------------------------------------------------
TypeOK ==
    /\ verdict \in [Programs -> Verdicts] /\ builds \in 0..MaxBuilds
    /\ files \in [Files -> Programs \cup {None}] /\ newer \subseteq Files
    /\ objects \in [o: Programs \cup {None}, elf: Contents, asm: Contents, bin: Contents]
    /\ stale \subseteq {"elf", "bin"} /\ log \in BOOLEAN
    /\ at \in [Threads -> Places]
    /\ job \in [Threads -> [program: Programs \cup {None}, type: AllTypes, alone: BOOLEAN]]
    /\ remade \in [Threads -> BOOLEAN] /\ input \in [Threads -> Contents]
    /\ answer \in [program: Programs \cup {None}, code: {0, 1}, asm: Contents,
                   bin: Contents, only: BOOLEAN]
    /\ board \in [mem: Contents, sent: Programs \cup {None},
                  ran: [labels: Contents, program: Contents]]

(* A build that met no other one, and no source of another language, is    *)
(* answered as a success only with the listing and the binary of the       *)
(* program sent, both whole, whatever the builds before have left.         *)
SuccessIsThisProgram ==
    answer.only /\ answer.code = 0 =>
        answer.bin = answer.program /\ answer.asm = answer.program

(* Such a build of a program the compiler or the linker rejects is         *)
(* reported as an error, whatever binary is there from before.             *)
BadIsReported ==
    answer.only /\ verdict[answer.program] \in {"bad", "unlinked"} => answer.code = 1

(* When no build is under way, whatever builds have run through each       *)
(* other, the listing that run takes the functions from and the binary     *)
(* that upload takes are of one program, or one of them is torn (empty or  *)
(* half written, as a tool that failed left it), or the next make makes    *)
(* both again: the binary is older than the program, or that is missing.   *)
QuietMatches ==
    Quiet => \/ objects.asm = objects.bin
             \/ Torn \in {objects.asm, objects.bin}
             \/ "bin" \in stale \/ objects.elf = None

(* A program whose build met no other one, had no source of another        *)
(* language beside it and was answered as a success, and that is uploaded  *)
(* after the answer, with no other upload beside or behind it and no build *)
(* behind it, runs whole and under the names of its own functions.  Of any *)
(* other run (sent is None) nothing is said.                               *)
RunsWhatWasSent ==
    board.ran # NoRun => board.ran = [labels |-> board.sent, program |-> board.sent]

-----------------------------------------------------------------------------
(* tools.py:77 "Building Successful": the binary is the program sent.      *)
SuccessIsWhatWasSent ==
    answer.program # None /\ answer.code = 0 => answer.bin = answer.program
=============================================================================
