------------------------- MODULE BuildServerProofs -------------------------
(***************************************************************************)
(* Proofs about BuildServer, for every set of threads, every choice of     *)
(* languages and verdicts, and any number of build requests: its types,    *)
(* what an answer says of the program that was sent, what the board runs   *)
(* after a success, and that the listing and the binary match when no      *)
(* build is under way.                                                     *)
(***************************************************************************)
EXTENDS BuildServer, TLAPS

USE ServerAssumption

-----------------------------------------------------------------------------
(* The inductive invariant.                                                *)

\* What a thread that builds has in hand.
InHand ==
    \A t \in Threads :
        /\ at[t] \in Building => job[t].program \in Programs
        /\ at[t] = "compiling" => input[t] \in Programs

\* A build that met no other is the only one, and the answer to the latest
\* request comes when the last build ends: from then on nothing is rewritten.
Apart ==
    /\ \A t \in Threads : job[t].alone =>
           at[t] \in Building /\ \A u \in Threads \ {t} : at[u] \notin Building
    /\ (answer # NoAnswer => Quiet /\ answer.program \in Programs)
    /\ (answer # NoAnswer => answer.asm = objects.asm /\ answer.bin = objects.bin)

\* No source is there but that of t's language.
OnlyOwn(t) == {f \in Files : files[f] # None} \subseteq FileOf(job[t].type)
Rejected(p) == verdict[p] \in {"bad", "unlinked"}

\* How far the program of a build has come that met no other one.
Compiles(t, p) ==
    /\ at[t] \in {"open", "compile"} =>
           \A f \in FileOf(job[t].type) : files[f] = p /\ f \in newer
    /\ at[t] = "compiling" => input[t] = p
    /\ at[t] \in {"link", "linking"} => remade[t] /\ objects.o = p /\ verdict[p] # "bad"
    /\ at[t] = "linking" => input[t] = p
Converts(t, p) ==
    /\ at[t] = "objdump" => remade[t]
    /\ at[t] \in {"objdump", "dumping", "objcopy", "copying"} =>
           objects.elf = p /\ ~Rejected(p)
    /\ at[t] \in {"dumping", "copying"} => input[t] = p
    /\ at[t] \in {"objcopy", "copying"} => objects.asm = p
    /\ at[t] = "reply" => log \/ (objects.asm = p /\ objects.bin = p /\ ~Rejected(p))
OnItsWay ==
    \A t \in Threads : job[t].alone /\ OnlyOwn(t) =>
        Compiles(t, job[t].program) /\ Converts(t, job[t].program)

AnswerRight ==
    answer.only /\ answer.code = 0 =>
        /\ answer.asm = answer.program /\ answer.bin = answer.program
        /\ ~Rejected(answer.program)

\* The board from a success to the run of the program.
OnBoard ==
    board.sent # None =>
        /\ board.sent = Sent
        /\ \A t \in Threads : at[t] = "loading" =>
               input[t] = board.sent /\ \A u \in Threads \ {t} : at[u] # "loading"
        /\ Loading \/ board.mem = board.sent
RanWhole ==
    board.ran # NoRun =>
        board.sent # None /\ board.ran = [labels |-> board.sent, program |-> board.sent]

\* u will make the listing or the binary yet.
Pending(u) ==
    \/ at[u] \in {"linking", "dumping", "objcopy", "copying"}
    \/ at[u] = "objdump" /\ remade[u]
Redoes(u) == at[u] = "objdump" /\ remade[u]
Others(t) == Threads \ {t}

\* What a tool is writing is not whole, and two at one output spoil it.
HalfWritten ==
    \A t \in Threads :
        /\ at[t] = "linking" => objects.elf \in {None, Torn}
        /\ at[t] = "dumping" => objects.asm = Torn
        /\ at[t] = "copying" => objects.bin = Torn
        /\ at[t] \in {"linking", "dumping", "copying"} =>
               \A u \in Others(t) : at[u] = at[t] => input[t] = Torn /\ input[u] = Torn
\* The tools take what is there, unless another thread makes it anew.
Listing ==
    \A t \in Threads : at[t] = "dumping" =>
        \/ input[t] = Torn \/ objects.elf \in {input[t], None, Torn}
        \/ \E u \in Others(t) : Redoes(u)
Listed ==
    \A t \in Threads : at[t] = "objcopy" =>
        \/ objects.asm \in {objects.elf, Torn} \/ objects.elf \in {None, Torn}
        \/ \E u \in Others(t) : Redoes(u)
Copied ==
    \A t \in Threads : at[t] = "copying" =>
        \/ input[t] = Torn \/ objects.asm \in {input[t], Torn} \/ objects.elf = None
        \/ \E u \in Others(t) : Pending(u)
Paired ==
    \/ objects.asm = objects.bin \/ Torn \in {objects.asm, objects.bin}
    \/ "bin" \in stale \/ objects.elf = None
    \/ \E u \in Threads : Pending(u)
Matching == HalfWritten /\ Listing /\ Listed /\ Copied /\ Paired

-----------------------------------------------------------------------------
(* Types.                                                                  *)

\* What Takes leaves in the hands of the threads.
LEMMA TakesTyped ==
    ASSUME input \in [Threads -> Contents], NEW t \in Threads,
           NEW busy, NEW what \in Contents, Takes(t, busy, what)
    PROVE  input' \in [Threads -> Contents]
BY DEF Takes, Contents

\* A thread that does not open an output beside t keeps what it has read.
LEMMA TakesApart ==
    ASSUME input \in [Threads -> Contents], NEW t \in Threads,
           NEW busy, NEW what, Takes(t, busy, what),
           NEW u \in Threads, u # t, at[u] # busy
    PROVE  input'[u] = input[u]
BY DEF Takes

\* t itself has what it read, unless another thread has its output open: then
\* both are left with a mixture.
LEMMA TakesOwn ==
    ASSUME input \in [Threads -> Contents], NEW t \in Threads,
           NEW busy, NEW what, Takes(t, busy, what)
    PROVE  /\ (\A u \in Threads \ {t} : at[u] # busy) => input'[t] = what
           /\ \A u \in Threads \ {t} : at[u] = busy => input'[t] = Torn /\ input'[u] = Torn
BY DEF Takes

\* A job that is no longer alone is a job.
LEMMA JobTyped ==
    ASSUME NEW j \in [program: Programs \cup {None}, type: AllTypes, alone: BOOLEAN]
    PROVE  [j EXCEPT !.alone = FALSE]
              \in [program: Programs \cup {None}, type: AllTypes, alone: BOOLEAN]
OBVIOUS

\* A server just started is well typed.
LEMMA InitTyped == Init => TypeOK /\ InHand
<1> SUFFICES ASSUME Init PROVE TypeOK /\ InHand
  OBVIOUS
<1>1. job \in [Threads -> [program: Programs \cup {None}, type: AllTypes, alone: BOOLEAN]]
  BY DEF Init, NoJob, AllTypes
<1>2. /\ answer \in [program: Programs \cup {None}, code: {0, 1}, asm: Contents,
                     bin: Contents, only: BOOLEAN]
      /\ board \in [mem: Contents, sent: Programs \cup {None},
                    ran: [labels: Contents, program: Contents]]
  BY DEF Init, NoAnswer, NoRun, Contents
<1>3. at \in [Threads -> Places] /\ InHand
  BY DEF Init, Places, Building, InHand
<1>4. /\ files \in [Files -> Programs \cup {None}] /\ newer \subseteq Files
      /\ stale \subseteq {"elf", "bin"} /\ builds \in 0..MaxBuilds
  BY DEF Init
<1>5. verdict \in [Programs -> Verdicts]
  BY DEF Init
<1>6. log \in BOOLEAN
  BY DEF Init
<1>7. objects \in [o: Programs \cup {None}, elf: Contents, asm: Contents, bin: Contents]
  BY DEF Init, Contents
<1>8. remade \in [Threads -> BOOLEAN] /\ input \in [Threads -> Contents]
  BY DEF Init, Contents
<1> QED
  BY <1>1, <1>2, <1>3, <1>4, <1>5, <1>6, <1>7, <1>8 DEF TypeOK

\* Every step keeps the types: a compiler and a store always have a program.
LEMMA NextTyped == TypeOK /\ InHand /\ [Next]_vars => TypeOK' /\ InHand'
<1> SUFFICES ASSUME TypeOK, InHand, [Next]_vars PROVE TypeOK' /\ InHand'
  OBVIOUS
<1> USE DEF TypeOK, InHand, disk, threads, Go, Building, Places
<1>1. ASSUME NEW t \in Threads, NEW type \in Types, Request(t, type)
      PROVE  TypeOK' /\ InHand'
  <2>1. builds + 1 \in Programs /\ builds' \in 0..MaxBuilds
    BY <1>1 DEF Request, Programs
  <2>2. verdict' \in [Programs -> Verdicts]
    BY <1>1, <2>1 DEF Request
  <2>3. job' \in [Threads -> [program: Programs \cup {None}, type: AllTypes, alone: BOOLEAN]]
    <3>1. [program |-> builds + 1, type |-> type, alone |-> Quiet]
             \in [program: Programs \cup {None}, type: AllTypes, alone: BOOLEAN]
      <4>1. Quiet \in BOOLEAN
        BY DEF Quiet
      <4> QED
        BY <2>1, <4>1
    <3>2. ASSUME NEW u \in Threads
          PROVE  [job[u] EXCEPT !.alone = FALSE]
                    \in [program: Programs \cup {None}, type: AllTypes, alone: BOOLEAN]
      BY JobTyped
    <3>3. job' = [u \in Threads |->
                    IF u = t THEN [program |-> builds + 1, type |-> type, alone |-> Quiet]
                    ELSE [job[u] EXCEPT !.alone = FALSE]]
      BY <1>1 DEF Request
    <3> QED
      BY <3>1, <3>2, <3>3, Zenon
  <2>4. answer' \in [program: Programs \cup {None}, code: {0, 1}, asm: Contents,
                     bin: Contents, only: BOOLEAN]
    BY <1>1 DEF Request, NoAnswer, Contents
  <2>5. board' \in [mem: Contents, sent: Programs \cup {None},
                    ran: [labels: Contents, program: Contents]]
    BY <1>1 DEF Request, NoRun, Contents
  <2>6. \A u \in Threads : u # t => job'[u].program = job[u].program
    BY <1>1 DEF Request
  <2>7. job'[t].program \in Programs
    BY <1>1, <2>1 DEF Request
  <2>8. InHand'
    BY <1>1, <2>6, <2>7 DEF Request
  <2> QED
    BY <1>1, <2>1, <2>2, <2>3, <2>4, <2>5, <2>8 DEF Request
<1>2. ASSUME NEW t \in Threads, Store(t) PROVE TypeOK' /\ InHand'
  <2>1. FileOf(job[t].type) \subseteq Files
    BY DEF FileOf, Files
  <2> QED
    BY <1>2, <2>1 DEF Store
<1>3. ASSUME NEW t \in Threads, OpenLog(t) PROVE TypeOK' /\ InHand'
  BY <1>3, ZenonT(40) DEF OpenLog
<1>4. ASSUME NEW t \in Threads, NoSource(t) PROVE TypeOK' /\ InHand'
  BY <1>4 DEF NoSource, Fails
<1>5. ASSUME NEW t \in Threads, UpToDate(t) PROVE TypeOK' /\ InHand'
  BY <1>5 DEF UpToDate
<1>6. ASSUME NEW t \in Threads, StartCompile(t) PROVE TypeOK' /\ InHand'
  <2>1. PICK f \in Chosen : input' = [input EXCEPT ![t] = files[f]]
    BY <1>6 DEF StartCompile
  <2>2. f \in Files /\ files[f] # None
    BY DEF Chosen, Files
  <2>3. files[f] \in Programs
    BY <2>2
  <2> QED
    BY <1>6, <2>1, <2>3 DEF StartCompile, Contents
<1>7. ASSUME NEW t \in Threads, Compile(t) PROVE TypeOK' /\ InHand'
  <2>1. input[t] \in Programs
    BY <1>7 DEF Compile
  <2>2. objects' \in [o: Programs \cup {None}, elf: Contents, asm: Contents, bin: Contents]
    BY <1>7, <2>1 DEF Compile
  <2>3. newer' \subseteq Files /\ stale' \subseteq {"elf", "bin"} /\ log' \in BOOLEAN
    BY <1>7 DEF Compile, Fails
  <2>4. input' \in [Threads -> Contents] /\ \A u \in Threads : u # t => input'[u] = input[u]
    BY <1>7 DEF Compile, Ends, Contents
  <2>5. at' \in [Threads -> Places] /\ remade' \in [Threads -> BOOLEAN]
    BY <1>7, ZenonT(40) DEF Compile, Fails
  <2>6. InHand'
    BY <1>7, <2>4 DEF Compile, Fails
  <2> QED
    BY <1>7, <2>2, <2>3, <2>4, <2>5, <2>6 DEF Compile
<1>8. ASSUME NEW t \in Threads, StartLink(t) PROVE TypeOK' /\ InHand'
  <2>1. objects.o \in Contents
    BY DEF Contents
  <2>2. /\ input' \in [Threads -> Contents]
        /\ \A u \in Threads : u # t /\ at[u] # "linking" => input'[u] = input[u]
    BY <1>8, <2>1, TakesTyped, TakesApart DEF StartLink
  <2>3. objects' \in [o: Programs \cup {None}, elf: Contents, asm: Contents, bin: Contents]
    BY <1>8, SMTT(30) DEF StartLink, Contents
  <2>4. stale' \subseteq {"elf", "bin"}
    BY <1>8 DEF StartLink, Linked
  <2>5. at' \in [Threads -> Places]
    BY <1>8 DEF StartLink
  <2>6. InHand'
    BY <1>8, <2>2 DEF StartLink
  <2> QED
    BY <1>8, <2>2, <2>3, <2>4, <2>5, <2>6 DEF StartLink
<1>9. ASSUME NEW t \in Threads, Link(t) PROVE TypeOK' /\ InHand'
  <2>1. input' \in [Threads -> Contents] /\ \A u \in Threads : u # t => input'[u] = input[u]
    BY <1>9 DEF Link, Ends, Contents
  <2>2. objects' \in [o: Programs \cup {None}, elf: Contents, asm: Contents, bin: Contents]
    BY <1>9, ZenonT(40) DEF Link, Contents
  <2>3. stale' \subseteq {"elf", "bin"} /\ log' \in BOOLEAN
    BY <1>9 DEF Link, Linked, Fails
  <2>4. at' \in [Threads -> Places] /\ remade' \in [Threads -> BOOLEAN]
    BY <1>9, ZenonT(40) DEF Link, Fails
  <2>5. InHand'
    BY <1>9, <2>1 DEF Link, Fails
  <2> QED
    BY <1>9, <2>1, <2>2, <2>3, <2>4, <2>5 DEF Link
<1>10. ASSUME NEW t \in Threads, StartObjdump(t) PROVE TypeOK' /\ InHand'
  <2>1. /\ input' \in [Threads -> Contents]
        /\ \A u \in Threads : u # t /\ at[u] # "dumping" => input'[u] = input[u]
    BY <1>10, TakesTyped, TakesApart DEF StartObjdump
  <2>2. objects' \in [o: Programs \cup {None}, elf: Contents, asm: Contents, bin: Contents]
    BY <1>10, SMTT(30) DEF StartObjdump, Contents
  <2>3. at' \in [Threads -> Places]
    BY <1>10, SMTT(30) DEF StartObjdump
  <2>4. InHand'
    BY <1>10, <2>1 DEF StartObjdump
  <2> QED
    BY <1>10, <2>1, <2>2, <2>3, <2>4 DEF StartObjdump
<1>11. ASSUME NEW t \in Threads, Objdump(t) PROVE TypeOK' /\ InHand'
  <2>1. input' \in [Threads -> Contents] /\ \A u \in Threads : u # t => input'[u] = input[u]
    BY <1>11 DEF Objdump, Ends, Contents
  <2>2. objects' \in [o: Programs \cup {None}, elf: Contents, asm: Contents, bin: Contents]
    BY <1>11 DEF Objdump
  <2>3. at' \in [Threads -> Places] /\ remade' \in [Threads -> BOOLEAN] /\ log' \in BOOLEAN
    BY <1>11 DEF Objdump, Fails
  <2>4. InHand'
    BY <1>11, <2>1 DEF Objdump, Fails
  <2> QED
    BY <1>11, <2>1, <2>2, <2>3, <2>4 DEF Objdump
<1>12. ASSUME NEW t \in Threads, StartObjcopy(t) PROVE TypeOK' /\ InHand'
  <2>1. /\ input' \in [Threads -> Contents]
        /\ \A u \in Threads : u # t /\ at[u] # "copying" => input'[u] = input[u]
    BY <1>12, TakesTyped, TakesApart DEF StartObjcopy
  <2>2. objects' \in [o: Programs \cup {None}, elf: Contents, asm: Contents, bin: Contents]
    BY <1>12 DEF StartObjcopy, Contents
  <2>3. at' \in [Threads -> Places] /\ remade' \in [Threads -> BOOLEAN] /\ log' \in BOOLEAN
    BY <1>12, ZenonT(40) DEF StartObjcopy, Fails
  <2>4. InHand'
    BY <1>12, <2>1 DEF StartObjcopy, Fails
  <2> QED
    BY <1>12, <2>1, <2>2, <2>3, <2>4 DEF StartObjcopy
<1>13. ASSUME NEW t \in Threads, Objcopy(t) PROVE TypeOK' /\ InHand'
  <2>1. input' \in [Threads -> Contents] /\ \A u \in Threads : u # t => input'[u] = input[u]
    BY <1>13 DEF Objcopy, Ends, Contents
  <2>2. objects' \in [o: Programs \cup {None}, elf: Contents, asm: Contents, bin: Contents]
    BY <1>13 DEF Objcopy
  <2>3. /\ at' \in [Threads -> Places] /\ remade' \in [Threads -> BOOLEAN]
        /\ log' \in BOOLEAN /\ stale' \subseteq {"elf", "bin"}
    BY <1>13 DEF Objcopy, Fails
  <2>4. InHand'
    BY <1>13, <2>1 DEF Objcopy, Fails
  <2> QED
    BY <1>13, <2>1, <2>2, <2>3, <2>4 DEF Objcopy
<1>14. ASSUME NEW t \in Threads, Reply(t) PROVE TypeOK' /\ InHand'
  <2>1. job' \in [Threads -> [program: Programs \cup {None}, type: AllTypes, alone: BOOLEAN]]
    BY <1>14 DEF Reply, NoJob, AllTypes
  <2>2. answer' \in [program: Programs \cup {None}, code: {0, 1}, asm: Contents,
                     bin: Contents, only: BOOLEAN]
    BY <1>14 DEF Reply, Answer
  <2>3. InHand'
    BY <1>14 DEF Reply
  <2> QED
    BY <1>14, <2>1, <2>2, <2>3 DEF Reply
<1>15. ASSUME NEW t \in Threads, StartUpload(t) PROVE TypeOK' /\ InHand'
  <2>1. /\ input' \in [Threads -> Contents]
        /\ \A u \in Threads : u # t /\ at[u] # "loading" => input'[u] = input[u]
    BY <1>15, TakesTyped, TakesApart DEF StartUpload
  <2>2. board' \in [mem: Contents, sent: Programs \cup {None},
                    ran: [labels: Contents, program: Contents]]
    BY <1>15 DEF StartUpload, Sent, NoRun, Contents
  <2>3. InHand'
    BY <1>15, <2>1 DEF StartUpload
  <2> QED
    BY <1>15, <2>1, <2>2, <2>3 DEF StartUpload
<1>16. ASSUME NEW t \in Threads, Upload(t) PROVE TypeOK' /\ InHand'
  BY <1>16 DEF Upload, Ends, Contents
<1>17. ASSUME NEW t \in Threads, Run(t) PROVE TypeOK' /\ InHand'
  <2>1. board' \in [mem: Contents, sent: Programs \cup {None},
                    ran: [labels: Contents, program: Contents]]
    BY <1>17 DEF Run, NoRun, Contents
  <2> QED
    BY <1>17, <2>1 DEF Run
<1>18. CASE UNCHANGED vars
  BY <1>18 DEF vars
<1> HIDE DEF TypeOK, InHand
<1> QED
  BY <1>1, <1>2, <1>3, <1>4, <1>5, <1>6, <1>7, <1>8, <1>9, <1>10, <1>11, <1>12, <1>13,
     <1>14, <1>15, <1>16, <1>17, <1>18, Zenon DEF Next, Make

-----------------------------------------------------------------------------
(* The steps by what they do to the threads.                               *)

\* t goes on with its build.
Works(t) ==
    /\ at[t] \in Building /\ at'[t] \in Building
    /\ \A u \in Others(t) : at'[u] = at[u]
    /\ UNCHANGED <<verdict, builds, job, answer, board>>

\* Storing, opening the logs and every step of the make are such steps.
LEMMA WorkSteps ==
    ASSUME TypeOK, NEW t \in Threads, Store(t) \/ OpenLog(t) \/ Make(t)
    PROVE  Works(t)
<1> USE DEF Works, Others, Go, Building, TypeOK
<1>1. CASE Store(t) \/ OpenLog(t)
  BY <1>1 DEF Store, OpenLog
<1>2. CASE NoSource(t) \/ UpToDate(t) \/ StartCompile(t)
  BY <1>2 DEF NoSource, UpToDate, StartCompile, Fails
<1>3. CASE Compile(t)
  BY <1>3 DEF Compile, Fails
<1>4. CASE StartLink(t) \/ Link(t)
  BY <1>4 DEF StartLink, Link, Fails
<1>5. CASE StartObjdump(t) \/ Objdump(t)
  BY <1>5 DEF StartObjdump, Objdump, Fails
<1>6. CASE StartObjcopy(t) \/ Objcopy(t)
  BY <1>6 DEF StartObjcopy, Objcopy, Fails
<1> QED
  BY <1>1, <1>2, <1>3, <1>4, <1>5, <1>6, Zenon DEF Make

\* A step of an upload or of a run changes nothing of a build.
Loads(t) ==
    /\ at[t] \notin Building /\ at'[t] \notin Building
    /\ \A u \in Others(t) : at'[u] = at[u]
    /\ \A u \in Threads : at[u] \in Building => input'[u] = input[u]
    /\ UNCHANGED <<verdict, builds, disk, job, remade, answer>>

\* Starting and ending an upload, and a run, are such steps.
LEMMA LoadSteps ==
    ASSUME TypeOK, NEW t \in Threads, StartUpload(t) \/ Upload(t) \/ Run(t)
    PROVE  Loads(t)
<1> USE DEF Loads, Others, Go, Building, TypeOK
<1>1. CASE StartUpload(t)
  BY <1>1, TakesApart DEF StartUpload
<1>2. CASE Upload(t)
  BY <1>2 DEF Upload, Ends
<1>3. CASE Run(t)
  BY <1>3 DEF Run, threads
<1> QED
  BY <1>1, <1>2, <1>3

\* What is on the disk changes only by a thread that goes on with its build.
LEMMA StepKinds ==
    ASSUME TypeOK, [Next]_vars
    PROVE  \/ \E t \in Threads, type \in Types : Request(t, type)
           \/ \E t \in Threads : Works(t) /\ (Store(t) \/ OpenLog(t) \/ Make(t))
           \/ \E t \in Threads : Reply(t)
           \/ \E t \in Threads : Loads(t) /\ (StartUpload(t) \/ Upload(t) \/ Run(t))
           \/ UNCHANGED vars
BY WorkSteps, LoadSteps, Zenon DEF Next

-----------------------------------------------------------------------------
(* A build that meets no other one.                                        *)

\* A build is alone from its request until another request, or its reply.
LEMMA NextApart == TypeOK /\ InHand /\ Apart /\ [Next]_vars => Apart'
<1> SUFFICES ASSUME TypeOK, InHand, Apart, [Next]_vars PROVE Apart'
  OBVIOUS
<1>1. ASSUME NEW t \in Threads, NEW type \in Types, Request(t, type) PROVE Apart'
  <2>1. \A u \in Threads : job'[u].alone => u = t /\ Quiet
    BY <1>1 DEF Request, TypeOK
  <2>2. at' = [at EXCEPT ![t] = "store"] /\ answer' = NoAnswer
    BY <1>1 DEF Request, Go
  <2> QED
    BY <2>1, <2>2 DEF Apart, Quiet, Building, TypeOK
<1>2. ASSUME NEW t \in Threads, Works(t) PROVE Apart'
  <2>1. answer = NoAnswer
    BY <1>2 DEF Works, Apart, Quiet
  <2> QED
    BY <1>2, <2>1 DEF Works, Apart, Others
<1>3. ASSUME NEW t \in Threads, Reply(t) PROVE Apart'
  <2>1. \A u \in Threads : ~job'[u].alone
    BY <1>3 DEF Reply, NoJob, Apart, Go, Building, TypeOK
  <2>2. CASE job[t].alone
    <3>1. Quiet'
      BY <1>3, <2>2 DEF Reply, Go, Quiet, Apart, Building, TypeOK
    <3>2. job[t].program \in Programs
      BY <1>3 DEF Reply, Go, InHand, Building
    <3> QED
      BY <1>3, <2>1, <2>2, <3>1, <3>2 DEF Reply, Answer, Apart, disk
  <2>3. CASE ~job[t].alone
    <3>1. answer = NoAnswer
      BY <1>3 DEF Reply, Go, Apart, Quiet, Building
    <3> QED
      BY <1>3, <2>1, <2>3, <3>1 DEF Reply, Apart
  <2> QED
    BY <2>2, <2>3
<1>4. ASSUME NEW t \in Threads, Loads(t) PROVE Apart'
  BY <1>4 DEF Loads, Others, Apart, Quiet, disk
<1>5. CASE UNCHANGED vars
  BY <1>5 DEF vars, Apart, Quiet, disk, threads
<1> QED
  BY <1>1, <1>2, <1>3, <1>4, <1>5, StepKinds, Zenon

\* The rule make takes is of a source that is there.
LEMMA ChosenThere ==
    ASSUME NEW f \in Chosen PROVE f \in Files /\ files[f] # None
BY DEF Chosen, Files

\* A language has one of the files, or none.
LEMMA FileOfTyped == ASSUME NEW type PROVE FileOf(type) \subseteq Files
BY DEF FileOf, Files

\* Every tool of a build that is alone takes what the one before has made.
LEMMA NextOnItsWay ==
    TypeOK /\ InHand /\ Apart /\ OnItsWay /\ [Next]_vars => OnItsWay'
<1> SUFFICES ASSUME TypeOK, InHand, Apart, OnItsWay, [Next]_vars,
                    NEW u \in Threads, job'[u].alone, OnlyOwn(u)'
             PROVE  Compiles(u, job[u].program)' /\ Converts(u, job[u].program)'
  BY DEF OnItsWay
<1> DEFINE p == job[u].program
<1>1. ASSUME NEW t \in Threads, NEW type \in Types, Request(t, type)
      PROVE  Compiles(u, p)' /\ Converts(u, p)'
  <2>1. at'[u] = "store"
    BY <1>1 DEF Request, Go, TypeOK
  <2> QED
    BY <2>1 DEF Compiles, Converts
<1>2. ASSUME NEW t \in Threads, Works(t), Store(t) \/ OpenLog(t) \/ Make(t)
      PROVE  Compiles(u, p)' /\ Converts(u, p)'
  <2>1. u = t /\ \A o \in Others(t) : at[o] \notin Building
    BY <1>2 DEF Works, Apart, Others
  <2>2. at[t] # "store" /\ OnlyOwn(t) => Compiles(t, p) /\ Converts(t, p)
    BY <1>2, <2>1 DEF OnItsWay, Works
  <2>3. p \in Programs /\ p' = p /\ job'[t] = job[t]
    BY <1>2, <2>1 DEF InHand, Works
  <2> USE DEF Go, Compiles, Converts, TypeOK
  <2>4. CASE Store(t)
    BY <2>1, <2>3, <2>4, FileOfTyped DEF Store
  <2>5. CASE ~Store(t)
    <3>1. OnlyOwn(t) /\ Compiles(t, p) /\ Converts(t, p)
      <4>1. OpenLog(t) => files' = files /\ at[t] = "open"
        BY DEF OpenLog
      <4>2. Make(t) => files' = files /\ at[t] # "store"
        <5>1. NoSource(t) \/ UpToDate(t) \/ StartCompile(t) => files' = files /\ at[t] = "compile"
          BY DEF NoSource, UpToDate, StartCompile, Fails, disk
        <5>2. Compile(t) \/ StartLink(t) \/ Link(t) => files' = files /\ at[t] # "store"
          BY DEF Compile, StartLink, Link, Fails
        <5>3. StartObjdump(t) \/ Objdump(t) => files' = files /\ at[t] # "store"
          BY DEF StartObjdump, Objdump, Fails
        <5>4. StartObjcopy(t) \/ Objcopy(t) => files' = files /\ at[t] # "store"
          BY DEF StartObjcopy, Objcopy, Fails
        <5> QED
          BY <5>1, <5>2, <5>3, <5>4, Zenon DEF Make
      <4> QED
        BY <1>2, <2>1, <2>2, <2>3, <2>5, <4>1, <4>2 DEF OnlyOwn
    <3>2. Chosen \subseteq FileOf(job[t].type)
      BY <3>1, ChosenThere DEF OnlyOwn
    <3>3. CASE OpenLog(t)
      BY <2>1, <2>3, <3>1, <3>3 DEF OpenLog
    <3>4. CASE NoSource(t)
      BY <2>1, <2>3, <3>1, <3>4 DEF NoSource, Fails
    <3>5. CASE UpToDate(t)
      BY <2>1, <2>3, <3>1, <3>2, <3>5 DEF UpToDate
    <3>6. CASE StartCompile(t)
      BY <2>1, <2>3, <3>1, <3>2, <3>6 DEF StartCompile
    <3>7. CASE Compile(t)
      BY <1>2, <2>1, <2>3, <3>1, <3>7 DEF Compile, Fails, Works
    <3>8. CASE StartLink(t)
      BY <1>2, <2>1, <2>3, <3>1, <3>8, TakesOwn DEF StartLink, Relinks, Works, Others, Building
    <3>9. CASE Link(t)
      BY <1>2, <2>1, <2>3, <3>1, <3>9 DEF Link, Fails, Works, Rejected, Unlinked
    <3>10. CASE StartObjdump(t)
      BY <1>2, <2>1, <2>3, <3>1, <3>10, TakesOwn
         DEF StartObjdump, Remakes, Works, Rejected, Others, Building
    <3>11. CASE Objdump(t)
      BY <1>2, <2>1, <2>3, <3>1, <3>11 DEF Objdump, Fails, Works, Rejected
    <3>12. CASE StartObjcopy(t)
      BY <1>2, <2>1, <2>3, <3>1, <3>12, TakesOwn
         DEF StartObjcopy, Fails, Works, Rejected, Others, Building
    <3>13. CASE Objcopy(t)
      BY <1>2, <2>1, <2>3, <3>1, <3>13 DEF Objcopy, Fails, Works, Rejected
    <3> QED
      BY <1>2, <2>5, <3>3, <3>4, <3>5, <3>6, <3>7, <3>8, <3>9, <3>10, <3>11, <3>12, <3>13,
         Zenon DEF Make
  <2> QED
    BY <2>4, <2>5
<1>3. ASSUME NEW t \in Threads, Reply(t) PROVE FALSE
  BY <1>3 DEF Reply, NoJob, Apart, Go, Building, TypeOK
<1>4. ASSUME NEW t \in Threads, Loads(t) PROVE Compiles(u, p)' /\ Converts(u, p)'
  <2>1. at[u] \in Building /\ at'[u] = at[u] /\ input'[u] = input[u]
    BY <1>4 DEF Loads, Others, Apart
  <2>2. Compiles(u, p) /\ Converts(u, p)
    BY <1>4 DEF OnItsWay, Loads, disk, OnlyOwn
  <2> QED
    BY <1>4, <2>1, <2>2 DEF Loads, disk, Compiles, Converts, Rejected
<1>5. CASE UNCHANGED vars
  <2>1. Compiles(u, p) /\ Converts(u, p)
    BY <1>5 DEF OnItsWay, vars, threads, disk, OnlyOwn
  <2> QED
    BY <1>5, <2>1 DEF vars, disk, threads, Compiles, Converts, Rejected
<1> QED
  BY <1>1, <1>2, <1>3, <1>4, <1>5, StepKinds, Zenon

\* No answer, and no job, of a server just started.
LEMMA InitApart == Init => Apart /\ OnItsWay /\ AnswerRight /\ OnBoard /\ RanWhole
BY DEF Init, Apart, OnItsWay, AnswerRight, OnBoard, RanWhole, NoJob, NoAnswer, NoRun, Quiet, Building

\* What the reply says of a build that was alone is what it has come to.
LEMMA NextAnswerRight ==
    TypeOK /\ InHand /\ Apart /\ OnItsWay /\ AnswerRight /\ [Next]_vars => AnswerRight'
<1> SUFFICES ASSUME TypeOK, InHand, Apart, OnItsWay, AnswerRight, [Next]_vars
             PROVE  AnswerRight'
  OBVIOUS
<1>1. ASSUME NEW t \in Threads, NEW type \in Types, Request(t, type) PROVE AnswerRight'
  BY <1>1 DEF Request, NoAnswer, AnswerRight
<1>2. ASSUME NEW t \in Threads, Works(t) \/ Loads(t) PROVE AnswerRight'
  BY <1>2 DEF Works, Loads, AnswerRight, Rejected
<1>3. ASSUME NEW t \in Threads, Reply(t) PROVE AnswerRight'
  <2>1. CASE job[t].alone /\ OnlyOwn(t)
    <3>1. at[t] = "reply" /\ Converts(t, job[t].program)
      BY <1>3, <2>1 DEF OnItsWay, Reply, Go
    <3> QED
      BY <1>3, <2>1, <3>1 DEF Reply, Answer, AnswerRight, Converts, Rejected
  <2>2. CASE job[t].alone /\ ~OnlyOwn(t)
    BY <1>3, <2>2 DEF Reply, Answer, AnswerRight, OnlyOwn
  <2>3. CASE ~job[t].alone
    BY <1>3, <2>3 DEF Reply, AnswerRight, Rejected
  <2> QED
    BY <2>1, <2>2, <2>3
<1>4. CASE UNCHANGED vars
  BY <1>4 DEF vars, AnswerRight, Rejected
<1> QED
  BY <1>1, <1>2, <1>3, <1>4, StepKinds, Zenon

\* A program that was answered for is an answer, and nothing is being built.
LEMMA SentAnswered ==
    ASSUME TypeOK, Apart, AnswerRight, Sent # None
    PROVE  Quiet /\ objects.asm = Sent /\ objects.bin = Sent
BY DEF Apart, AnswerRight, Sent, NoAnswer

\* From the success to the run nothing comes between.
LEMMA NextOnBoard ==
    TypeOK /\ InHand /\ Apart /\ AnswerRight /\ OnBoard /\ RanWhole /\ [Next]_vars
        => OnBoard' /\ RanWhole'
<1> SUFFICES ASSUME TypeOK, InHand, Apart, AnswerRight, OnBoard, RanWhole, [Next]_vars
             PROVE  OnBoard' /\ RanWhole'
  OBVIOUS
<1>1. ASSUME NEW t \in Threads, NEW type \in Types, Request(t, type)
      PROVE  OnBoard' /\ RanWhole'
  BY <1>1 DEF Request, OnBoard, RanWhole, TypeOK
<1>2. ASSUME NEW t \in Threads, Works(t) \/ Reply(t) PROVE OnBoard' /\ RanWhole'
  <2>1. at[t] \in Building /\ board' = board
    BY <1>2 DEF Works, Reply, Go, Building
  <2>2. board.sent = None
    BY <2>1, SentAnswered DEF OnBoard, Quiet
  <2> QED
    BY <2>1, <2>2 DEF OnBoard, RanWhole
<1>3. ASSUME NEW t \in Threads, StartUpload(t) PROVE OnBoard' /\ RanWhole'
  <2>1. CASE Loading \/ Sent = None
    BY <1>3, <2>1 DEF StartUpload, OnBoard, RanWhole, TypeOK
  <2>2. CASE ~Loading /\ Sent # None
    <3>1. board'.sent = Sent /\ board'.ran = NoRun /\ Sent' = Sent
      BY <1>3, <2>2 DEF StartUpload, Sent, TypeOK
    <3>2. input'[t] = Sent /\ at'[t] = "loading"
      BY <1>3, <2>2, SentAnswered, TakesOwn DEF StartUpload, Go, Loading, TypeOK
    <3>3. \A u \in Threads \ {t} : at'[u] # "loading"
      BY <1>3, <2>2 DEF StartUpload, Go, Loading, TypeOK
    <3> QED
      BY <3>1, <3>2, <3>3 DEF OnBoard, RanWhole, Loading
  <2> QED
    BY <2>1, <2>2
<1>4. ASSUME NEW t \in Threads, Upload(t) PROVE OnBoard' /\ RanWhole'
  <2>1. /\ board'.sent = board.sent /\ board'.ran = board.ran /\ board'.mem = input[t]
        /\ Sent' = Sent /\ at[t] = "loading" /\ at' = [at EXCEPT ![t] = "idle"]
    BY <1>4 DEF Upload, Sent, TypeOK, Go
  <2>2. CASE board.sent = None
    BY <2>1, <2>2 DEF OnBoard, RanWhole
  <2>3. CASE board.sent # None
    <3>1. input[t] = board.sent /\ \A u \in Threads : at'[u] # "loading"
      BY <2>1, <2>3 DEF OnBoard, TypeOK
    <3> QED
      BY <2>1, <2>3, <3>1 DEF OnBoard, RanWhole
  <2> QED
    BY <2>2, <2>3
<1>5. ASSUME NEW t \in Threads, Run(t) PROVE OnBoard' /\ RanWhole'
  <2>1. /\ board'.sent = board.sent /\ board'.mem = board.mem
        /\ Sent' = Sent /\ at' = at /\ input' = input
    BY <1>5 DEF Run, Sent, TypeOK, threads
  <2>2. OnBoard'
    BY <2>1 DEF OnBoard, Loading
  <2>3. CASE Loading \/ board.sent = None
    BY <1>5, <2>2, <2>3 DEF Run, RanWhole, TypeOK
  <2>4. CASE ~Loading /\ board.sent # None
    <3>1. objects.asm = board.sent /\ board.mem = board.sent
      BY <2>4, SentAnswered DEF OnBoard
    <3>2. board'.ran = [labels |-> board.sent, program |-> board.sent]
      BY <1>5, <2>4, <3>1 DEF Run, TypeOK
    <3> QED
      BY <2>1, <2>2, <2>4, <3>2 DEF RanWhole
  <2> QED
    BY <2>3, <2>4
<1>6. CASE UNCHANGED vars
  BY <1>6 DEF vars, threads, OnBoard, RanWhole, Sent, Loading
<1> QED
  BY <1>1, <1>2, <1>3, <1>4, <1>5, <1>6, StepKinds, Zenon

-----------------------------------------------------------------------------
(* The listing and the binary.                                             *)

Busy == {"linking", "objdump", "dumping", "objcopy", "copying"}

\* A step of a thread that is neither before nor behind it at one of the tools
\* that make the program, the listing and the binary.
LEMMA Bystander ==
    ASSUME TypeOK, Matching, NEW t \in Threads,
           at[t] \notin Busy, at'[t] \notin Busy,
           \A u \in Others(t) : at'[u] = at[u],
           \A u \in Others(t) : at[u] \in Busy => input'[u] = input[u] /\ remade'[u] = remade[u],
           objects'.elf = objects.elf, objects'.asm = objects.asm, objects'.bin = objects.bin,
           "bin" \in stale => "bin" \in stale'
    PROVE  Matching'
<1> USE DEF Matching, Busy
<1>1. \A u \in Threads : at'[u] \in Busy =>
          u # t /\ at'[u] = at[u] /\ input'[u] = input[u] /\ remade'[u] = remade[u]
  BY DEF Others
<1>2. \A u \in Threads : at[u] \in Busy => at'[u] \in Busy
  BY DEF Others
<1>3. \A u \in Threads : (Pending(u) => Pending(u)') /\ (Redoes(u) => Redoes(u)')
  BY <1>1, <1>2 DEF Pending, Redoes
<1>4. HalfWritten'
  BY <1>1 DEF HalfWritten, Others
<1>5. Listing'
  BY <1>1, <1>3 DEF Listing, Others
<1>6. Listed'
  BY <1>1, <1>3 DEF Listed, Others
<1>7. Copied'
  BY <1>1, <1>3 DEF Copied, Others
<1>8. Paired'
  BY <1>3 DEF Paired
<1> QED
  BY <1>4, <1>5, <1>6, <1>7, <1>8

\* A thread that goes from one place to the next leaves the others where they
\* are.
LEMMA WentOn ==
    ASSUME TypeOK, NEW t \in Threads, NEW from, NEW to, Go(t, from, to)
    PROVE  at[t] = from /\ at'[t] = to /\ \A u \in Threads : u # t => at'[u] = at[u]
BY DEF Go, TypeOK

\* The linker spoils the program as it starts; its thread makes the other two.
LEMMA LinkMatches ==
    ASSUME TypeOK, Matching, NEW t \in Threads, StartLink(t) \/ Link(t)
    PROVE  Matching'
<1> USE DEF Matching, TypeOK
<1>1. CASE StartLink(t) /\ Relinks(t)
  <2>1. /\ at'[t] = "linking" /\ \A u \in Threads : u # t => at'[u] = at[u]
        /\ objects' = [objects EXCEPT !.elf = Torn] /\ remade' = remade
    BY <1>1, WentOn DEF StartLink
  <2>2. /\ \A u \in Threads : u # t /\ at[u] # "linking" => input'[u] = input[u]
        /\ \A u \in Threads : u # t /\ at[u] = "linking" => input'[t] = Torn /\ input'[u] = Torn
    BY <1>1, TakesApart, TakesOwn DEF StartLink
  <2>3. Pending(t)'
    BY <2>1 DEF Pending
  <2>4. ASSUME NEW u \in Threads \ {t}, at[u] = "linking"
        PROVE  \A w \in Threads \ {t} : at[w] = "linking" => input'[w] = Torn
    BY <2>2
  <2>5. HalfWritten'
    BY <2>1, <2>2, <2>4 DEF HalfWritten, Others
  <2>6. Listing' /\ Listed'
    BY <2>1 DEF Listing, Listed
  <2>7. Copied'
    BY <2>1, <2>3 DEF Copied, Others
  <2>8. Paired'
    BY <2>3 DEF Paired
  <2> QED
    BY <2>5, <2>6, <2>7, <2>8
<1>2. CASE StartLink(t) /\ ~Relinks(t)
  <2>1. /\ at[t] = "link" /\ at'[t] = "objdump" /\ \A u \in Threads : u # t => at'[u] = at[u]
        /\ UNCHANGED <<objects, stale, input, remade>> /\ ~remade[t]
    BY <1>2, WentOn DEF StartLink, Relinks
  <2>2. \A u \in Threads : (Pending(u)' <=> Pending(u)) /\ (Redoes(u)' <=> Redoes(u))
    BY <2>1 DEF Pending, Redoes
  <2>3. HalfWritten'
    BY <2>1 DEF HalfWritten, Others
  <2>4. Listing' /\ Listed'
    BY <2>1, <2>2 DEF Listing, Listed, Others
  <2>5. Copied' /\ Paired'
    BY <2>1, <2>2 DEF Copied, Paired, Others
  <2> QED
    BY <2>3, <2>4, <2>5
<1>3. CASE Link(t)
  <2>1. /\ at[t] = "linking" /\ at'[t] # "linking" /\ at'[t] \notin {"dumping", "objcopy", "copying"}
        /\ \A u \in Threads : u # t => at'[u] = at[u] /\ input'[u] = input[u] /\ remade'[u] = remade[u]
        /\ objects'.asm = objects.asm /\ objects'.bin = objects.bin
    BY <1>3, WentOn DEF Link, Fails, Ends
  <2>2. \/ objects'.elf = None
        \/ objects'.elf = input[t] /\ Redoes(t)' /\ Pending(t)'
    BY <1>3, WentOn DEF Link, Fails, Redoes, Pending
  <2>3. HalfWritten'
    BY <2>1, <2>2 DEF HalfWritten, Others
  <2>4. Listing'
    BY <2>1, <2>2 DEF Listing, Others
  <2>5. Listed'
    BY <2>1, <2>2 DEF Listed, Others
  <2>6. Copied' /\ Paired'
    BY <2>1, <2>2 DEF Copied, Paired, Others
  <2> QED
    BY <2>3, <2>4, <2>5, <2>6
<1> QED
  BY <1>1, <1>2, <1>3

\* The listing may be of a program that is no longer there only if another
\* thread has linked and is about to make it again.
LEMMA ObjdumpMatches ==
    ASSUME TypeOK, Matching, NEW t \in Threads, StartObjdump(t) \/ Objdump(t)
    PROVE  Matching'
<1> USE DEF Matching, TypeOK
<1>1. CASE StartObjdump(t) /\ Remakes(t)
  <2>1. /\ at'[t] = "dumping" /\ \A u \in Threads : u # t => at'[u] = at[u]
        /\ objects' = [objects EXCEPT !.asm = Torn] /\ remade' = remade /\ at[t] = "objdump"
    BY <1>1, WentOn DEF StartObjdump
  <2>2. /\ \A u \in Threads : u # t /\ at[u] # "dumping" => input'[u] = input[u]
        /\ \A u \in Threads : u # t /\ at[u] = "dumping" => input'[t] = Torn /\ input'[u] = Torn
        /\ input'[t] \in {objects.elf, Torn}
    BY <1>1, TakesApart, TakesOwn DEF StartObjdump
  <2>3. Pending(t)'
    BY <2>1 DEF Pending
  <2>4. HalfWritten'
    BY <2>1, <2>2 DEF HalfWritten, Others
  <2>5. Listing'
    BY <2>1, <2>2 DEF Listing, Others
  <2>6. Listed' /\ Copied' /\ Paired'
    BY <2>1, <2>3 DEF Listed, Copied, Paired
  <2> QED
    BY <2>4, <2>5, <2>6
<1>2. CASE StartObjdump(t) /\ ~Remakes(t)
  <2>1. /\ at[t] = "objdump" /\ at'[t] = "reply" /\ \A u \in Threads : u # t => at'[u] = at[u]
        /\ UNCHANGED <<objects, stale, input, remade>> /\ ~remade[t]
    BY <1>2, WentOn DEF StartObjdump, Remakes
  <2>2. \A u \in Threads : (Pending(u)' <=> Pending(u)) /\ (Redoes(u)' <=> Redoes(u))
    BY <2>1 DEF Pending, Redoes
  <2>3. HalfWritten'
    BY <2>1 DEF HalfWritten, Others
  <2>4. Listing' /\ Listed'
    BY <2>1, <2>2 DEF Listing, Listed, Others
  <2>5. Copied' /\ Paired'
    BY <2>1, <2>2 DEF Copied, Paired, Others
  <2> QED
    BY <2>3, <2>4, <2>5
<1>3. CASE Objdump(t) /\ at'[t] = "reply"
  <2>1. /\ at[t] = "dumping" /\ UNCHANGED <<objects, stale, remade>>
        /\ \A u \in Threads : u # t => at'[u] = at[u] /\ input'[u] = input[u]
    BY <1>3, WentOn DEF Objdump, Fails, Ends
  <2>2. objects.asm = Torn
    BY <2>1 DEF HalfWritten
  <2>3. \A u \in Threads : (Redoes(u)' <=> Redoes(u))
    BY <1>3, <2>1 DEF Redoes
  <2>4. HalfWritten'
    BY <1>3, <2>1 DEF HalfWritten, Others
  <2>5. Listing'
    BY <1>3, <2>1, <2>3 DEF Listing, Others
  <2>6. Listed' /\ Copied' /\ Paired'
    BY <2>1, <2>2 DEF Listed, Copied, Paired
  <2> QED
    BY <2>4, <2>5, <2>6
<1>4. CASE Objdump(t) /\ at'[t] # "reply"
  <2>1. /\ at[t] = "dumping" /\ at'[t] = "objcopy" /\ UNCHANGED <<stale, remade>>
        /\ \A u \in Threads : u # t => at'[u] = at[u] /\ input'[u] = input[u]
        /\ objects' = [objects EXCEPT !.asm = input[t]]
    BY <1>4, WentOn DEF Objdump, Fails, Ends
  <2>2. Pending(t)'
    BY <2>1 DEF Pending
  <2>3. \A u \in Threads : (Redoes(u)' <=> Redoes(u))
    BY <2>1 DEF Redoes
  <2>4. HalfWritten'
    BY <2>1 DEF HalfWritten, Others
  <2>5. Listing'
    BY <2>1, <2>3 DEF Listing, HalfWritten, Others
  <2>6. \/ input[t] = Torn \/ objects.elf \in {input[t], None, Torn}
        \/ \E w \in Others(t) : Redoes(w)'
    BY <2>1, <2>3 DEF Listing, Others
  <2>7. Listed'
    <3>1. ASSUME NEW u \in Threads, u # t, at[u] = "objcopy"
          PROVE  \A w \in Threads : Redoes(w)' => w \in Others(u)
      BY <2>1, <3>1 DEF Redoes, Others
    <3>2. at'[t] = "objcopy" /\ \A w \in Others(t) : w \in Threads
      BY <2>1 DEF Others
    <3> QED
      BY <2>1, <2>6, <3>1, <3>2 DEF Listed
  <2>8. Copied' /\ Paired'
    BY <2>1, <2>2 DEF Copied, Paired, Others
  <2> QED
    BY <2>4, <2>5, <2>7, <2>8
<1> QED
  BY <1>1, <1>2, <1>3, <1>4

\* The binary is of the program of the listing, or a listing is still to come.
LEMMA ObjcopyMatches ==
    ASSUME TypeOK, Matching, NEW t \in Threads, StartObjcopy(t) \/ Objcopy(t)
    PROVE  Matching'
<1> USE DEF Matching, TypeOK
<1>1. CASE StartObjcopy(t) /\ objects.elf = None
  <2>1. /\ at[t] = "objcopy" /\ at'[t] = "reply"
        /\ UNCHANGED <<objects, input, remade, stale>>
        /\ \A u \in Threads : u # t => at'[u] = at[u]
    BY <1>1, WentOn DEF StartObjcopy, Fails
  <2>2. HalfWritten'
    BY <2>1 DEF HalfWritten, Others
  <2>3. Listing' /\ Listed' /\ Copied' /\ Paired'
    BY <1>1, <2>1 DEF Listing, Listed, Copied, Paired
  <2> QED
    BY <2>2, <2>3
<1>2. CASE StartObjcopy(t) /\ objects.elf # None
  <2>1. /\ at'[t] = "copying" /\ \A u \in Threads : u # t => at'[u] = at[u]
        /\ objects' = [objects EXCEPT !.bin = Torn] /\ remade' = remade /\ at[t] = "objcopy"
    BY <1>2, WentOn DEF StartObjcopy
  <2>2. /\ \A u \in Threads : u # t /\ at[u] # "copying" => input'[u] = input[u]
        /\ \A u \in Threads : u # t /\ at[u] = "copying" => input'[t] = Torn /\ input'[u] = Torn
        /\ input'[t] \in {objects.elf, Torn}
    BY <1>2, TakesApart, TakesOwn DEF StartObjcopy
  <2>3. /\ \A u \in Threads : (Redoes(u)' <=> Redoes(u))
        /\ \A u \in Threads : Redoes(u) => Pending(u)'
    BY <2>1 DEF Redoes, Pending
  <2>4. HalfWritten'
    BY <2>1, <2>2 DEF HalfWritten, Others
  <2>5. Listing' /\ Listed'
    BY <2>1, <2>2, <2>3 DEF Listing, Listed, Others
  <2>6. \/ objects.asm \in {objects.elf, Torn} \/ objects.elf \in {None, Torn}
        \/ \E w \in Others(t) : Pending(w)'
    BY <2>1, <2>3 DEF Listed, Others
  <2>7. Copied'
    BY <2>1, <2>2, <2>6 DEF Copied, Others
  <2>8. Paired'
    BY <2>1 DEF Paired
  <2> QED
    BY <2>4, <2>5, <2>7, <2>8
<1>3. CASE Objcopy(t)
  <2>1. /\ at[t] = "copying" /\ at'[t] = "reply" /\ remade' = remade
        /\ \A u \in Threads : u # t => at'[u] = at[u] /\ input'[u] = input[u]
        /\ objects'.elf = objects.elf /\ objects'.asm = objects.asm
        /\ objects'.bin = input[t]
    BY <1>3, WentOn DEF Objcopy, Fails, Ends, HalfWritten
  <2>2. \A u \in Threads : u # t => (Pending(u)' <=> Pending(u)) /\ (Redoes(u)' <=> Redoes(u))
    BY <2>1 DEF Pending, Redoes
  <2>3. HalfWritten'
    BY <2>1 DEF HalfWritten, Others
  <2>4. ~Redoes(t)
    BY <2>1 DEF Redoes
  <2>5. Listing'
    BY <2>1, <2>2, <2>4 DEF Listing, Others
  <2>6. Listed'
    BY <2>1, <2>2, <2>4 DEF Listed, Others
  <2>7. Copied'
    BY <2>1 DEF Copied, HalfWritten, Others
  <2>8. Paired'
    BY <2>1, <2>2 DEF Copied, Paired, Others
  <2> QED
    BY <2>3, <2>5, <2>6, <2>7, <2>8
<1> QED
  BY <1>1, <1>2, <1>3

\* Nothing is there to match at the start.
LEMMA InitMatching == Init => Matching
BY DEF Init, Matching, HalfWritten, Listing, Listed, Copied, Paired

\* Every step keeps the match of what is on the disk.
LEMMA NextMatching == TypeOK /\ Matching /\ [Next]_vars => Matching'
<1> SUFFICES ASSUME TypeOK, Matching, [Next]_vars PROVE Matching'
  OBVIOUS
<1>1. ASSUME NEW t \in Threads, NEW type \in Types, Request(t, type) PROVE Matching'
  BY <1>1, WentOn, Bystander DEF Request, Busy, Others, disk
<1>2. ASSUME NEW t \in Threads, Store(t) PROVE Matching'
  <2>1. /\ at[t] = "store" /\ at'[t] = "open" /\ \A u \in Others(t) : at'[u] = at[u]
        /\ UNCHANGED <<objects, stale, input, remade>>
    BY <1>2, WentOn DEF Store, Others
  <2> QED
    BY <2>1, Bystander DEF Busy
<1>3. ASSUME NEW t \in Threads, OpenLog(t) PROVE Matching'
  <2>1. /\ at[t] = "open" /\ at'[t] = "compile" /\ \A u \in Others(t) : at'[u] = at[u]
        /\ UNCHANGED <<objects, stale, input>> /\ \A u \in Others(t) : remade'[u] = remade[u]
    BY <1>3, WentOn DEF OpenLog, Others, TypeOK
  <2> QED
    BY <2>1, Bystander DEF Busy
<1>4. ASSUME NEW t \in Threads, NoSource(t) \/ UpToDate(t) PROVE Matching'
  BY <1>4, WentOn, Bystander DEF NoSource, UpToDate, Fails, Busy, Others, disk
<1>5. ASSUME NEW t \in Threads, StartCompile(t) PROVE Matching'
  BY <1>5, WentOn, Bystander DEF StartCompile, Busy, Others, disk, TypeOK
<1>6. ASSUME NEW t \in Threads, Compile(t) PROVE Matching'
  <2>1. /\ at[t] = "compiling" /\ at'[t] \in {"link", "reply"}
        /\ \A u \in Others(t) : at'[u] = at[u]
    BY <1>6, WentOn DEF Compile, Fails, Others
  <2>2. \A u \in Others(t) : input'[u] = input[u] /\ remade'[u] = remade[u]
    BY <1>6 DEF Compile, Fails, Ends, Others, TypeOK
  <2>3. /\ objects'.elf = objects.elf /\ objects'.asm = objects.asm
        /\ objects'.bin = objects.bin /\ stale \subseteq stale'
    BY <1>6 DEF Compile, TypeOK
  <2> QED
    BY <2>1, <2>2, <2>3, Bystander DEF Busy
<1>7. ASSUME NEW t \in Threads, Reply(t) PROVE Matching'
  BY <1>7, WentOn, Bystander DEF Reply, Busy, Others, disk
<1>8. ASSUME NEW t \in Threads, Loads(t) PROVE Matching'
  BY <1>8, Bystander DEF Loads, Busy, Building, Others, disk
<1>9. CASE UNCHANGED vars
  BY <1>9 DEF vars, disk, threads, Matching, HalfWritten, Listing, Listed, Copied, Paired,
     Pending, Redoes
<1> QED
  BY <1>1, <1>2, <1>3, <1>4, <1>5, <1>6, <1>7, <1>8, <1>9, LinkMatches, ObjdumpMatches,
     ObjcopyMatches, StepKinds, Zenon DEF Make

-----------------------------------------------------------------------------
(* The theorems.                                                           *)

\* All of it.
IInv == TypeOK /\ InHand /\ Apart /\ OnItsWay /\ AnswerRight /\ OnBoard /\ RanWhole /\ Matching

\* The invariant of every reachable state.
LEMMA Inductive == Spec => []IInv
<1>1. Init => IInv
  BY InitTyped, InitApart, InitMatching DEF IInv
<1>2. IInv /\ [Next]_vars => IInv'
  BY NextTyped, NextApart, NextOnItsWay, NextAnswerRight, NextOnBoard, NextMatching DEF IInv
<1> QED
  BY <1>1, <1>2, PTL DEF Spec

(* The types, of every reachable state: a tool never reads what is no      *)
(* program, and every build that goes on is of a program that was sent.    *)
THEOREM TypeCorrect == Spec => []TypeOK
<1>1. IInv => TypeOK
  BY DEF IInv
<1> QED
  BY <1>1, Inductive, PTL

(* A build that met no other one, and no source of another language, is    *)
(* answered as a success only with the listing and the binary of the       *)
(* program sent, whatever the builds before it have left.                  *)
THEOREM SuccessAlways == Spec => []SuccessIsThisProgram
<1>1. IInv => SuccessIsThisProgram
  BY DEF IInv, AnswerRight, SuccessIsThisProgram
<1> QED
  BY <1>1, Inductive, PTL

(* A build that met no other one, and no source of another language, of a  *)
(* program the compiler or the linker rejects is reported as an error.     *)
THEOREM BadAlwaysReported == Spec => []BadIsReported
<1>1. IInv => BadIsReported
  BY DEF IInv, TypeOK, AnswerRight, Rejected, BadIsReported
<1> QED
  BY <1>1, Inductive, PTL

(* In any state with no build under way, whatever builds have run through  *)
(* each other, the listing and the binary are of one program, or one of    *)
(* them is torn, or the next make makes both again, as the binary is older *)
(* than the program or there is no program.                                *)
THEOREM QuietAlwaysMatches == Spec => []QuietMatches
<1>1. IInv => QuietMatches
  BY DEF IInv, Matching, Paired, Pending, QuietMatches, Quiet, Building
<1> QED
  BY <1>1, Inductive, PTL

(* A program whose build met no other one, had no source of another        *)
(* language beside it and was answered as a success, and that is uploaded  *)
(* after the answer, with no other upload beside or behind it and no build *)
(* behind it, runs whole and under the names of its own functions.         *)
THEOREM AlwaysRunsWhatWasSent == Spec => []RunsWhatWasSent
<1>1. IInv => RunsWhatWasSent
  BY DEF IInv, RanWhole, RunsWhatWasSent
<1> QED
  BY <1>1, Inductive, PTL
=============================================================================
