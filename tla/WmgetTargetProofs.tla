-------------------------- MODULE WmgetTargetProofs --------------------------
(***************************************************************************)
(* Proofs about the files wmget downloads to, for any requests, URLs,      *)
(* files and lengths.                                                      *)
(*                                                                         *)
(* A job may wait long between init_job, which looks at its file, and      *)
(* retrieve, which opens it.  KeepInv says what is left of what init_job   *)
(* has seen: enough to know which downloads may truncate or overwrite.     *)
(* SoloInv follows a job that has its file for itself from the request to  *)
(* its end: the file is as it was found, then what was there followed by   *)
(* what has been received.                                                 *)
(***************************************************************************)
EXTENDS WmgetTarget, SequenceTheorems, TLAPS

----------------------------------------------------------------------------
(* Types *)

LEMMA JobOf ==
    ASSUME TypeOK, NEW j \in Jobs, job[j].stage # "none"
    PROVE  job[j] \in Job
  <1>1. job[j] \in Job \/ job[j] = [stage |-> "none"]
    BY DEF TypeOK, NoJob
  <1> QED
    BY <1>1

LEMMA LiveJob ==
    ASSUME TypeOK, NEW j \in Jobs, Live(j)
    PROVE  /\ job[j] \in Job /\ job[j].path \in Paths /\ job[j].source \in Sources
           /\ job[j].from \in Int /\ job[j].at \in Nat /\ job[j].got \in Nat
           /\ job[j].start \in Seq(Byte)
           /\ files[job[j].path] \in File
  <1>1. job[j] \in Job
    BY JobOf DEF Live
  <1> QED
    BY <1>1 DEF Job, TypeOK

LEMMA CopyType ==
    ASSUME NEW s \in Sources
    PROVE  Copy(s) \in Seq(Byte) /\ Len(Copy(s)) = Size
  <1>1. Size \in Nat
    BY SizeAssumption
  <1>2. \A i \in 1 .. Size : <<s, i>> \in Byte
    BY DEF Byte
  <1>3. Copy(s) \in [1 .. Size -> Byte]
    BY <1>2 DEF Copy
  <1> QED
    BY <1>1, <1>3, IsASeq, LenProperties

\* A write within a file or behind its end keeps it a sequence of bytes.
LEMMA WriteAtType ==
    ASSUME NEW data \in Seq(Byte), NEW i \in Nat \ {0}, NEW byte \in Byte
    PROVE  /\ WriteAt(data, i, byte) \in Seq(Byte)
           /\ Len(WriteAt(data, i, byte)) = IF i > Len(data) THEN i ELSE Len(data)
           /\ \A k \in 1 .. Len(WriteAt(data, i, byte)) :
                WriteAt(data, i, byte)[k] = IF k = i THEN byte
                                            ELSE IF k <= Len(data) THEN data[k] ELSE Hole
  <1>1. PICK n : n = IF i > Len(data) THEN i ELSE Len(data)
    OBVIOUS
  <1>2. n \in Nat /\ Len(data) \in Nat
    BY <1>1, LenProperties
  <1>3. PICK w : w = [k \in 1 .. n |->
                        IF k = i THEN byte ELSE IF k <= Len(data) THEN data[k] ELSE Hole]
    OBVIOUS
  <1>4. \A k \in 1 .. n : (IF k = i THEN byte ELSE IF k <= Len(data) THEN data[k] ELSE Hole)
                            \in Byte
    <2> TAKE k \in 1 .. n
    <2>1. Hole \in Byte
      BY DEF Byte
    <2>2. k <= Len(data) => data[k] \in Byte
      BY <1>2, ElementOfSeq
    <2> QED
      BY <2>1, <2>2
  <1>5. w \in [1 .. n -> Byte]
    BY <1>3, <1>4
  <1>6. w \in Seq(Byte) /\ Len(w) = n
    BY <1>2, <1>5, IsASeq, LenProperties
  <1>7. WriteAt(data, i, byte) = w
    BY <1>1, <1>3 DEF WriteAt
  <1> QED
    BY <1>1, <1>3, <1>6, <1>7

\* What fopen leaves of a file, and where a download starts in it.
LEMMA OpenedType ==
    ASSUME NEW f \in File, NEW append
    PROVE  /\ Opened(f, append) \in File
           /\ Opened(f, append).kind = IF f.kind = "absent" THEN "regular" ELSE f.kind
           /\ Opened(f, append).data = IF f.kind # "absent" /\ append THEN f.data ELSE << >>
  <1>1. << >> \in Seq(Byte)
    BY EmptySeq
  <1>2. NewFile \in File /\ NewFile.kind = "regular" /\ NewFile.data = << >>
    BY <1>1 DEF NewFile, NoFile, File
  <1>3. f \in [kind : {"absent", "regular", "directory"}, data : Seq(Byte),
               mode : SUBSET {"user", "group", "other"}, mine : BOOLEAN, ours : BOOLEAN]
    BY DEF File
  <1>4. PICK g : g = [f EXCEPT !.data = << >>]
    OBVIOUS
  <1>5. g \in File /\ g.kind = f.kind /\ g.data = << >>
    BY <1>1, <1>3, <1>4 DEF File
  <1>6. Opened(f, append) = IF f.kind = "absent" THEN NewFile ELSE IF append THEN f ELSE g
    BY <1>4 DEF Opened
  <1> QED
    BY <1>2, <1>5, <1>6

\* What an int makes of a length: itself if it fits, and nothing only of a
\* multiple of what an int has values.
LEMMA IntOf ==
    ASSUME NEW n \in Nat
    PROVE  /\ AsInt(n) \in Int
           /\ n <= IntMax => AsInt(n) = n
           /\ AsInt(n) = 0 => n % Wrap = 0
  <1>1. PICK w \in Nat : w = Wrap /\ w = 2 * (IntMax + 1) /\ w > IntMax
    BY IntMaxAssumption DEF Wrap
  <1>2. PICK m \in 0 .. w - 1 : m = n % w
    BY <1>1, IntMaxAssumption
  <1>3. AsInt(n) = IF m <= IntMax THEN m ELSE m - w
    BY <1>1, <1>2 DEF AsInt
  <1>4. n <= IntMax => m = n
    BY <1>1, <1>2, IntMaxAssumption
  <1> QED
    BY <1>1, <1>2, <1>3, <1>4, IntMaxAssumption

LEMMA ResumeType ==
    ASSUME NEW f \in File, NEW continue \in BOOLEAN
    PROVE  ResumeAt(f, continue) \in Int
  <1>1. PICK n \in Nat : n = Len(f.data)
    BY LenProperties DEF File
  <1>2. AsInt(n) \in Int
    BY IntOf
  <1> QED
    BY <1>1, <1>2 DEF ResumeAt

\* A job that waits becomes one that has begun somewhere.
LEMMA BeginsType ==
    ASSUME NEW n \in Int, NEW m \in Begins(n)
    PROVE  m \in Nat /\ (n >= 0 => m = n)
  BY SizeAssumption DEF Begins

LEMMA ResolveType ==
    ASSUME NEW s \in Sources, NEW t \in Targets \cup {NoTarget}
    PROVE  Resolve(s, t) \in Paths
  BY BelowAssumption, TargetsAssumption DEF Resolve, NoTarget

LEMMA InitType == Init => TypeOK
  BY OldFilesAssumption DEF Init, TypeOK

\* What a request does, in terms of the file it resolves to.
Requested(j, s, p, overwrite, continue) ==
    LET f == files[p]
        alone == Writers(p) = {}
        refused == Refuses(f, overwrite, continue)
    IN job' = [i \in Jobs |->
            IF i = j
            THEN [stage |-> IF refused THEN "refused" ELSE "accepted",
                  source |-> s, path |-> p,
                  overwrite |-> overwrite, continue |-> continue,
                  from |-> ResumeAt(f, continue), at |-> 0, got |-> 0,
                  start |-> f.data, found |-> f.kind # "absent",
                  solo |-> alone]
            ELSE IF /\ Live(i) /\ job[i].path \in Writes(p)
                    /\ ~refused
            THEN [job[i] EXCEPT !.solo = FALSE]
            ELSE job[i]]

LEMMA RequestIs ==
    ASSUME TypeOK, NEW j \in Jobs, Request(j)
    PROVE  \E s \in Sources, p \in Paths, overwrite \in BOOLEAN, continue \in BOOLEAN :
             /\ Requested(j, s, p, overwrite, continue)
             /\ job[j] = NoJob /\ UNCHANGED files
  <1>1. PICK s \in Sources, t \in Targets \cup {NoTarget},
             overwrite \in BOOLEAN, continue \in BOOLEAN :
          /\ Requested(j, s, Resolve(s, t), overwrite, continue)
          /\ job[j] = NoJob /\ UNCHANGED files
    BY DEF Request, Requested
  <1>2. PICK p \in Paths : p = Resolve(s, t)
    BY ResolveType
  <1> QED
    BY <1>1, <1>2

LEMMA RequestType ==
    ASSUME TypeOK, NEW j \in Jobs, Request(j)
    PROVE  TypeOK'
  <1>1. PICK s \in Sources, p \in Paths, overwrite \in BOOLEAN, continue \in BOOLEAN :
             /\ Requested(j, s, p, overwrite, continue)
             /\ job[j] = NoJob /\ UNCHANGED files
    BY RequestIs
  <1>2. PICK f \in File : f = files[p]
    BY DEF TypeOK
  <1>3. f.data \in Seq(Byte)
    BY DEF File
  <1>4. PICK from \in Int : from = ResumeAt(f, continue)
    BY ResumeType
  <1>5. PICK stage \in {"refused", "accepted"} :
          stage = IF Refuses(f, overwrite, continue) THEN "refused" ELSE "accepted"
    OBVIOUS
  <1>6. PICK alone \in BOOLEAN : alone = (Writers(p) = {})
    OBVIOUS
  <1>7. PICK found \in BOOLEAN : found = (f.kind # "absent")
    OBVIOUS
  <1>8. PICK new : new = [stage |-> stage, source |-> s, path |-> p,
                  overwrite |-> overwrite, continue |-> continue,
                  from |-> from, at |-> 0, got |-> 0, start |-> f.data, found |-> found,
                  solo |-> alone]
    OBVIOUS
  <1>9. new \in Job
    BY <1>3, <1>8 DEF Job, Stage
  <1>10. \A i \in Jobs : Live(i) => [job[i] EXCEPT !.solo = FALSE] \in Job
    <2> TAKE i \in Jobs
    <2> HAVE Live(i)
    <2>1. job[i] \in Job
      BY LiveJob
    <2> QED
      BY <2>1 DEF Job
  <1>11. \A i \in Jobs : \/ i = j /\ job'[i] = new
                         \/ Live(i) /\ job'[i] = [job[i] EXCEPT !.solo = FALSE]
                         \/ job'[i] = job[i]
    BY <1>1, <1>2, <1>4, <1>5, <1>6, <1>7, <1>8 DEF Requested
  <1>12. job' \in [Jobs -> Job \cup {NoJob}]
    <2>1. \A i \in Jobs : job'[i] \in Job \cup {NoJob}
      BY <1>9, <1>10, <1>11 DEF TypeOK
    <2>2. job' = [i \in Jobs |-> job'[i]]
      BY <1>1 DEF Requested
    <2> QED
      BY <2>1, <2>2
  <1> QED
    BY <1>1, <1>12 DEF TypeOK

\* Steps that change no more of a job than its stage.
LEMMA StageType ==
    ASSUME TypeOK, NEW j \in Jobs, Live(j), NEW s \in Stage \ {"none"},
           job' = [job EXCEPT ![j].stage = s]
    PROVE  job' \in [Jobs -> Job \cup {NoJob}]
  <1>1. job[j] \in Job
    BY LiveJob
  <1>2. [job[j] EXCEPT !.stage = s] \in Job
    BY <1>1 DEF Job
  <1> QED
    BY <1>2 DEF TypeOK

LEMMA OpenType ==
    ASSUME TypeOK, NEW j \in Jobs, Open(j)
    PROVE  TypeOK'
  <1>1. PICK n \in Begins(job[j].from) :
          Live(j) /\ job' = [job EXCEPT ![j].stage = "open", ![j].at = n]
    BY DEF Open, Live
  <1>2. job' \in [Jobs -> Job \cup {NoJob}]
    <2>1. job[j] \in Job /\ n \in Nat
      BY <1>1, LiveJob, BeginsType
    <2>2. [job[j] EXCEPT !.stage = "open", !.at = n] \in Job
      BY <2>1 DEF Job, Stage
    <2> QED
      BY <1>1, <2>2 DEF TypeOK
  <1>3. files[job[j].path] \in File
    BY <1>1, LiveJob
  <1>4. Opened(files[job[j].path], Appends(j)) \in File
    BY <1>3, OpenedType
  <1>5. files' \in [Paths -> File]
    BY <1>4 DEF Open, TypeOK
  <1> QED
    BY <1>1, <1>2, <1>5 DEF TypeOK

\* The bytes of a file after a download has received one more.
Written(j) == LET byte == <<job[j].source, job[j].at + job[j].got + 1>>
                  data == files[job[j].path].data
              IN IF Appends(j) THEN Append(data, byte)
                 ELSE WriteAt(data, job[j].got + 1, byte)

LEMMA ReceiveIs ==
    ASSUME TypeOK, NEW j \in Jobs, Receive(j)
    PROVE  /\ Live(j) /\ job[j].stage = "open" /\ job[j].at + job[j].got + 1 <= Size
           /\ files' = [files EXCEPT ![job[j].path].data = Written(j)]
           /\ job' = [job EXCEPT ![j].got = @ + 1]
           /\ Written(j) \in Seq(Byte)
           /\ <<job[j].source, job[j].at + job[j].got + 1>> \in Byte
  <1>1. Live(j) /\ job[j].stage = "open"
    BY DEF Receive, Live
  <1>2. PICK s \in Sources, at \in Nat, got \in Nat, data \in Seq(Byte) :
          /\ s = job[j].source /\ at = job[j].at /\ got = job[j].got
          /\ data = files[job[j].path].data
    BY <1>1, LiveJob DEF File
  <1>3. at + got + 1 <= Size
    BY <1>2 DEF Receive
  <1>4. at + got + 1 \in 1 .. Size
    BY <1>3, SizeAssumption
  <1>5. PICK byte \in Byte : byte = <<s, at + got + 1>>
    BY <1>4 DEF Byte
  <1>6. Append(data, byte) \in Seq(Byte) /\ WriteAt(data, got + 1, byte) \in Seq(Byte)
    BY AppendProperties, WriteAtType
  <1>7. Written(j) \in Seq(Byte)
    BY <1>2, <1>5, <1>6 DEF Written
  <1>8. /\ files' = [files EXCEPT ![job[j].path].data = Written(j)]
        /\ job' = [job EXCEPT ![j].got = @ + 1]
    BY DEF Receive, Written
  <1> QED
    BY <1>1, <1>2, <1>3, <1>5, <1>7, <1>8

LEMMA ReceiveType ==
    ASSUME TypeOK, NEW j \in Jobs, Receive(j)
    PROVE  TypeOK'
  <1>1. /\ Live(j) /\ Written(j) \in Seq(Byte)
        /\ files' = [files EXCEPT ![job[j].path].data = Written(j)]
        /\ job' = [job EXCEPT ![j].got = @ + 1]
    BY ReceiveIs
  <1>2. job[j] \in Job /\ files[job[j].path] \in File
    BY <1>1, LiveJob
  <1>3. [job[j] EXCEPT !.got = @ + 1] \in Job
    BY <1>2 DEF Job
  <1>4. [files[job[j].path] EXCEPT !.data = Written(j)] \in File
    BY <1>1, <1>2 DEF File
  <1>5. files' \in [Paths -> File]
    BY <1>1, <1>4 DEF TypeOK
  <1>6. job' \in [Jobs -> Job \cup {NoJob}]
    BY <1>1, <1>3 DEF TypeOK
  <1> QED
    BY <1>1, <1>5, <1>6 DEF TypeOK

LEMMA EndType ==
    ASSUME TypeOK, NEW j \in Jobs, OpenFails(j) \/ Finish(j) \/ Interrupt(j)
    PROVE  TypeOK'
  <1>1. /\ Live(j) /\ files' = files
        /\ \E s \in {"failed", "done", "stopped"} : job' = [job EXCEPT ![j].stage = s]
    BY DEF OpenFails, Finish, Interrupt, Live
  <1>2. job' \in [Jobs -> Job \cup {NoJob}]
    BY <1>1, StageType DEF Stage
  <1> QED
    BY <1>1, <1>2 DEF TypeOK

\* What a failed download does to its error file, and to no other.
LEMMA FailIs ==
    ASSUME TypeOK, NEW j \in Jobs, Fail(j)
    PROVE  /\ Live(j) /\ job[j].stage = "open" /\ ErrorOf[job[j].path] \in Paths
           /\ job' = [job EXCEPT ![j].stage = "failed"]
           /\ files' \in [Paths -> File]
           /\ \A p \in Paths : \/ files'[p] = files[p]
                               \/ /\ p = ErrorOf[job[j].path]
                                  /\ files[p].kind \in {"absent", "regular"}
                                  /\ files'[p].kind = "regular"
                                  /\ files'[p].data = <<Report>>
  <1>1. /\ Live(j) /\ job[j].stage = "open"
        /\ job' = [job EXCEPT ![j].stage = "failed"]
    BY DEF Fail, Live
  <1>2. job[j].path \in Paths
    BY <1>1, LiveJob
  <1>3. PICK e \in Paths : e = ErrorOf[job[j].path]
    BY <1>2, ErrorOfAssumption
  <1>4. PICK f \in File : f = files[e]
    BY DEF TypeOK
  <1>5. PICK g \in File :
          /\ g = Opened(f, FALSE)
          /\ g.kind = IF f.kind = "absent" THEN "regular" ELSE f.kind
    BY OpenedType
  <1>6. PICK h : h = [g EXCEPT !.data = <<Report>>]
    OBVIOUS
  <1>7. h \in File /\ h.kind = g.kind /\ h.data = <<Report>>
    <2>1. PICK d : d = <<Report>>
      OBVIOUS
    <2>2. d \in Seq(Byte)
      BY <2>1 DEF Byte
    <2>3. g \in [kind : {"absent", "regular", "directory"}, data : Seq(Byte),
                mode : SUBSET {"user", "group", "other"}, mine : BOOLEAN, ours : BOOLEAN]
      BY DEF File
    <2> QED
      BY <1>6, <2>1, <2>2, <2>3 DEF File
  <1>8. files' = IF CanOpen(f) THEN [files EXCEPT ![e] = h] ELSE files
    BY <1>3, <1>4, <1>5, <1>6 DEF Fail
  <1>9. CanOpen(f) => f.kind \in {"absent", "regular"}
    BY DEF CanOpen
  <1>10. files' \in [Paths -> File]
    BY <1>7, <1>8 DEF TypeOK
  <1>11. \A p \in Paths : files'[p] # files[p] => p = e /\ CanOpen(f) /\ files'[p] = h
    BY <1>8 DEF TypeOK
  <1> QED
    BY <1>1, <1>3, <1>4, <1>5, <1>7, <1>9, <1>10, <1>11

LEMMA FailType ==
    ASSUME TypeOK, NEW j \in Jobs, Fail(j)
    PROVE  TypeOK'
  <1>1. /\ Live(j) /\ files' \in [Paths -> File]
        /\ job' = [job EXCEPT ![j].stage = "failed"]
    BY FailIs
  <1>2. job' \in [Jobs -> Job \cup {NoJob}]
    BY <1>1, StageType DEF Stage
  <1> QED
    BY <1>1, <1>2 DEF TypeOK

\* The files and the jobs of WmgetTarget keep their types: no file grows a byte
\* of no URL and no report, for any number of requests of anything.
THEOREM TypeCorrect == Spec => []TypeOK
  <1>1. TypeOK /\ [Next]_vars => TypeOK'
    <2> SUFFICES ASSUME TypeOK, [Next]_vars
                 PROVE  TypeOK'
      OBVIOUS
    <2>1. CASE UNCHANGED vars
      BY <2>1 DEF TypeOK, vars
    <2> QED
      BY <2>1, RequestType, OpenType, ReceiveType, EndType, FailType DEF Next
  <1> QED
    BY <1>1, InitType, PTL DEF Spec

----------------------------------------------------------------------------
(* What may be lost *)

\* There are no bytes where nothing is; a download has its file open; and
\* the mode that retrieve opens it with agrees with what init_job has checked.
\* What is a directory when it is requested still is one when it is opened.
KeepInv ==
    /\ \A p \in Paths : files[p].kind = "absent" => files[p].data = << >>
    /\ \A j \in Jobs : job[j].stage = "open" => files[job[j].path].kind = "regular"
    /\ \A j \in Jobs : Live(j) /\ ~Appends(j) =>
         MayLose(j) \/ (job[j].stage = "accepted" /\ files[job[j].path].kind = "directory")

LEMMA InitKeep == Init => KeepInv
  BY OldFilesAssumption DEF Init, KeepInv, Live, NoJob

\* What the steps do to the kinds of the files and to the terms of a job.
SameTerms(i) == /\ job'[i].path = job[i].path /\ job'[i].source = job[i].source
                /\ job'[i].overwrite = job[i].overwrite
                /\ job'[i].continue = job[i].continue
                /\ job'[i].from = job[i].from /\ job'[i].start = job[i].start
                /\ job'[i].found = job[i].found

LEMMA StageStep ==
    ASSUME TypeOK, NEW j \in Jobs, Live(j), NEW s, job' = [job EXCEPT ![j].stage = s]
    PROVE  /\ \A i \in Jobs : i # j => job'[i] = job[i]
           /\ SameTerms(j) /\ job'[j].stage = s
           /\ job'[j].at = job[j].at /\ job'[j].got = job[j].got
           /\ job'[j].solo = job[j].solo
  <1>1. job[j] \in Job
    BY LiveJob
  <1>2. job'[j] = [job[j] EXCEPT !.stage = s] /\ \A i \in Jobs : i # j => job'[i] = job[i]
    BY DEF TypeOK
  <1> QED
    BY <1>1, <1>2 DEF SameTerms, Job

LEMMA ReceiveStep ==
    ASSUME TypeOK, NEW j \in Jobs, Receive(j)
    PROVE  /\ \A i \in Jobs : i # j => job'[i] = job[i]
           /\ SameTerms(j) /\ job'[j].stage = "open" /\ job'[j].at = job[j].at
           /\ job'[j].got = job[j].got + 1 /\ job'[j].solo = job[j].solo
           /\ \A p \in Paths : files'[p].kind = files[p].kind
           /\ files'[job[j].path].data = Written(j)
           /\ \A p \in Paths : p # job[j].path => files'[p] = files[p]
  <1>1. /\ Live(j) /\ job[j].stage = "open" /\ job' = [job EXCEPT ![j].got = @ + 1]
        /\ files' = [files EXCEPT ![job[j].path].data = Written(j)]
    BY ReceiveIs
  <1>2. job[j] \in Job /\ job[j].path \in Paths /\ files[job[j].path] \in File
    BY <1>1, LiveJob
  <1>3. job'[j] = [job[j] EXCEPT !.got = @ + 1] /\ \A i \in Jobs : i # j => job'[i] = job[i]
    BY <1>1 DEF TypeOK
  <1>4. /\ files'[job[j].path] = [files[job[j].path] EXCEPT !.data = Written(j)]
        /\ \A p \in Paths : p # job[j].path => files'[p] = files[p]
    BY <1>1, <1>2 DEF TypeOK
  <1>5. /\ files'[job[j].path].data = Written(j)
        /\ files'[job[j].path].kind = files[job[j].path].kind
    BY <1>2, <1>4 DEF File
  <1>6. SameTerms(j) /\ job'[j].stage = "open" /\ job'[j].at = job[j].at
        /\ job'[j].got = job[j].got + 1 /\ job'[j].solo = job[j].solo
    BY <1>1, <1>2, <1>3 DEF SameTerms, Job
  <1> QED
    BY <1>3, <1>4, <1>5, <1>6

LEMMA OpenStep ==
    ASSUME TypeOK, NEW j \in Jobs, Open(j)
    PROVE  /\ Live(j) /\ job[j].stage = "accepted" /\ job[j].path \in Paths
           /\ \A i \in Jobs : i # j => job'[i] = job[i]
           /\ SameTerms(j) /\ job'[j].stage = "open"
           /\ job'[j].at \in Begins(job[j].from)
           /\ job'[j].got = job[j].got /\ job'[j].solo = job[j].solo
           /\ files[job[j].path].kind # "directory"
           /\ files'[job[j].path].kind = "regular"
           /\ files'[job[j].path].data = IF files[job[j].path].kind # "absent" /\ Appends(j)
                                         THEN files[job[j].path].data ELSE << >>
           /\ \A p \in Paths : p # job[j].path => files'[p] = files[p]
  <1>1. PICK n \in Begins(job[j].from) :
        /\ Live(j) /\ job[j].stage = "accepted"
        /\ job' = [job EXCEPT ![j].stage = "open", ![j].at = n]
        /\ CanOpen(files[job[j].path])
        /\ files' = [files EXCEPT ![job[j].path] = Opened(@, Appends(j))]
    BY DEF Open, Live
  <1>2. job[j].path \in Paths /\ files[job[j].path] \in File
    BY <1>1, LiveJob
  <1>3. files[job[j].path].kind # "directory" /\ files[job[j].path].kind \in {"absent", "regular"}
    BY <1>1, <1>2 DEF CanOpen, File
  <1>4. /\ files'[job[j].path] = Opened(files[job[j].path], Appends(j))
        /\ \A p \in Paths : p # job[j].path => files'[p] = files[p]
    BY <1>1, <1>2 DEF TypeOK
  <1>5. /\ files'[job[j].path].kind = "regular"
        /\ files'[job[j].path].data = IF files[job[j].path].kind # "absent" /\ Appends(j)
                                      THEN files[job[j].path].data ELSE << >>
    <2>1. PICK f \in File : f = files[job[j].path]
      BY <1>2
    <2>2. PICK a \in BOOLEAN : a = Appends(j)
      BY DEF Appends
    <2>3. /\ Opened(f, a).kind = IF f.kind = "absent" THEN "regular" ELSE f.kind
          /\ Opened(f, a).data = IF f.kind # "absent" /\ a THEN f.data ELSE << >>
      BY OpenedType, Zenon
    <2> QED
      BY <1>3, <1>4, <2>1, <2>2, <2>3
  <1>6. /\ \A i \in Jobs : i # j => job'[i] = job[i]
        /\ SameTerms(j) /\ job'[j].stage = "open" /\ job'[j].at = n
        /\ job'[j].got = job[j].got /\ job'[j].solo = job[j].solo
    <2>1. job[j] \in Job
      BY <1>1, LiveJob
    <2>2. /\ job'[j] = [job[j] EXCEPT !.stage = "open", !.at = n]
          /\ \A i \in Jobs : i # j => job'[i] = job[i]
      BY <1>1 DEF TypeOK
    <2> QED
      BY <2>1, <2>2 DEF SameTerms, Job
  <1> QED
    BY <1>1, <1>2, <1>3, <1>4, <1>5, <1>6

\* The file of i is one that a download to p writes.
Shares(i, p) == Live(i) /\ job[i].path \in Writes(p)

\* What a request makes of its own job and of the others.
LEMMA RequestStep ==
    ASSUME TypeOK, NEW j \in Jobs, Request(j)
    PROVE  \E p \in Paths :
             /\ UNCHANGED files /\ job[j].stage = "none"
             /\ \A i \in Jobs : i # j =>
                  /\ SameTerms(i)
                  /\ job'[i].stage = job[i].stage /\ job'[i].got = job[i].got
                  /\ job'[i] = job[i] \/ job'[i].solo = FALSE
                  /\ Shares(i, p) /\ job'[j].stage = "accepted" => job'[i].solo = FALSE
             /\ job'[j].path = p /\ job'[j].stage \in {"refused", "accepted"}
             /\ job'[j].stage = "accepted"
                  => ~Refuses(files[p], job'[j].overwrite, job'[j].continue)
             /\ job'[j].from = ResumeAt(files[p], job'[j].continue) /\ job'[j].got = 0
             /\ job'[j].continue \in BOOLEAN
             /\ job'[j].start = files[p].data
             /\ job'[j].found = (files[p].kind # "absent")
             /\ job'[j].solo = (Writers(p) = {})
  <1>1. PICK s \in Sources, p \in Paths, overwrite \in BOOLEAN, continue \in BOOLEAN :
             /\ Requested(j, s, p, overwrite, continue)
             /\ job[j] = NoJob /\ UNCHANGED files
    BY RequestIs
  <1>2. job[j].stage = "none"
    BY <1>1 DEF NoJob
  <1>3. PICK alone : alone = (Writers(p) = {})
    OBVIOUS
  <1>4. PICK found : found = (files[p].kind # "absent")
    OBVIOUS
  <1>5. PICK stage \in {"refused", "accepted"} :
          stage = IF Refuses(files[p], overwrite, continue) THEN "refused" ELSE "accepted"
    OBVIOUS
  <1>6. PICK from : from = ResumeAt(files[p], continue)
    OBVIOUS
  <1>7. job'[j] = [stage |-> stage, source |-> s, path |-> p,
                  overwrite |-> overwrite, continue |-> continue,
                  from |-> from, at |-> 0, got |-> 0,
                  start |-> files[p].data, found |-> found, solo |-> alone]
    BY <1>1, <1>3, <1>4, <1>5, <1>6 DEF Requested
  <1>8. \A i \in Jobs : i # j =>
          job'[i] = IF Shares(i, p) /\ stage = "accepted" THEN [job[i] EXCEPT !.solo = FALSE]
                    ELSE job[i]
    BY <1>1, <1>5 DEF Requested, Shares
  <1>9. \A i \in Jobs : Shares(i, p) => job[i] \in Job
    BY LiveJob DEF Shares
  <1>10. ASSUME NEW i \in Jobs, i # j
         PROVE  /\ SameTerms(i)
                /\ job'[i].stage = job[i].stage /\ job'[i].got = job[i].got
                /\ job'[i] = job[i] \/ job'[i].solo = FALSE
                /\ Shares(i, p) /\ stage = "accepted" => job'[i].solo = FALSE
    <2>1. CASE Shares(i, p) /\ stage = "accepted"
      <3>1. job[i] \in Job /\ job'[i] = [job[i] EXCEPT !.solo = FALSE]
        BY <1>8, <1>9, <1>10, <2>1
      <3> QED
        BY <3>1 DEF SameTerms, Job
    <2>2. CASE ~(Shares(i, p) /\ stage = "accepted")
      BY <1>8, <1>10, <2>2 DEF SameTerms
    <2> QED
      BY <2>1, <2>2
  <1>11. /\ job'[j].stage = stage /\ job'[j].path = p /\ job'[j].overwrite = overwrite
         /\ job'[j].continue = continue /\ job'[j].from = from /\ job'[j].got = 0
         /\ job'[j].start = files[p].data /\ job'[j].found = found /\ job'[j].solo = alone
    BY <1>7
  <1>12. stage = "accepted" => ~Refuses(files[p], overwrite, continue)
    BY <1>5
  <1>13. UNCHANGED files
    BY <1>1
  <1> WITNESS p \in Paths
  <1> QED
    BY <1>2, <1>3, <1>4, <1>6, <1>10, <1>11, <1>12, <1>13, Zenon

LEMMA EndStep ==
    ASSUME TypeOK, NEW j \in Jobs, OpenFails(j) \/ Finish(j) \/ Interrupt(j)
    PROVE  /\ UNCHANGED files
           /\ \A i \in Jobs : i # j => job'[i] = job[i]
           /\ SameTerms(j) /\ job'[j].got = job[j].got /\ job'[j].solo = job[j].solo
           /\ job'[j].stage \in {"failed", "done", "stopped"}
  <1>1. PICK s \in {"failed", "done", "stopped"} :
          Live(j) /\ UNCHANGED files /\ job' = [job EXCEPT ![j].stage = s]
    BY DEF OpenFails, Finish, Interrupt, Live
  <1> QED
    BY <1>1, StageStep

LEMMA JobPath ==
    ASSUME TypeOK, NEW j \in Jobs, job[j].stage # "none"
    PROVE  job[j].path \in Paths
  BY JobOf DEF Job

LEMMA KeepRequest ==
    ASSUME TypeOK, KeepInv, NEW j \in Jobs, Request(j)
    PROVE  KeepInv'
  <1>1. PICK p \in Paths :
             /\ UNCHANGED files
             /\ \A i \in Jobs : i # j => SameTerms(i) /\ job'[i].stage = job[i].stage
             /\ job'[j].path = p /\ job'[j].stage \in {"refused", "accepted"}
             /\ job'[j].stage = "accepted"
                  => ~Refuses(files[p], job'[j].overwrite, job'[j].continue)
             /\ job'[j].from = ResumeAt(files[p], job'[j].continue)
             /\ job'[j].continue \in BOOLEAN
             /\ job'[j].start = files[p].data
    BY RequestStep
  <1>2. \A q \in Paths : files'[q].kind = "absent" => files'[q].data = << >>
    BY <1>1 DEF KeepInv
  <1>3. \A i \in Jobs : job'[i].stage = "open" => files'[job'[i].path].kind = "regular"
    <2> TAKE i \in Jobs
    <2>1. CASE i = j
      BY <1>1, <2>1
    <2>2. CASE i # j
      BY <1>1, <2>2 DEF KeepInv, SameTerms
    <2> QED
      BY <2>1, <2>2
  <1>4. ASSUME NEW i \in Jobs, i # j, Live(i)', ~Appends(i)'
        PROVE  MayLose(i)' \/ (job'[i].stage = "accepted" /\ files'[job'[i].path].kind = "directory")
    <2>1. SameTerms(i) /\ job'[i].stage = job[i].stage /\ files' = files
      BY <1>1, <1>4
    <2>2. Live(i) /\ ~Appends(i)
      BY <1>4, <2>1 DEF Live, Appends, SameTerms
    <2> QED
      BY <2>1, <2>2 DEF KeepInv, MayLose, SameTerms
  <1>5. ASSUME Live(j)', ~Appends(j)'
        PROVE  MayLose(j)' \/ (job'[j].stage = "accepted" /\ files'[job'[j].path].kind = "directory")
    <2>1. job'[j].stage = "accepted" /\ job'[j].from = 0
      BY <1>1, <1>5 DEF Live, Appends
    <2>2. files[p].kind \in {"absent", "regular", "directory"} /\ files[p].data \in Seq(Byte)
      BY DEF TypeOK, File
    <2>3. CASE ~job'[j].continue
      <3>1. job'[j].overwrite \/ files[p].kind = "absent"
        BY <1>1, <2>1, <2>3 DEF Refuses
      <3>2. files[p].kind = "absent" => files[p].data = << >>
        BY DEF KeepInv
      <3> QED
        <4>1. CASE job'[j].overwrite
          BY <2>3, <4>1 DEF MayLose
        <4>2. CASE files[p].data = << >>
          <5>1. Len(job'[j].start) = 0
            BY <1>1, <4>2
          <5>2. 0 % Wrap = 0
            BY IntMaxAssumption DEF Wrap
          <5> QED
            BY <5>1, <5>2 DEF MayLose
        <4> QED
          BY <3>1, <3>2, <4>1, <4>2
    <2>4. CASE job'[j].continue /\ files[p].kind = "regular"
      <3>1. AsInt(Len(files[p].data)) = 0
        BY <1>1, <2>1, <2>4 DEF ResumeAt
      <3>2. Len(files[p].data) \in Nat
        BY <2>2, LenProperties
      <3>3. Len(files[p].data) % Wrap = 0
        BY <3>1, <3>2, IntOf
      <3> QED
        BY <1>1, <3>3 DEF MayLose
    <2>5. CASE job'[j].continue /\ files[p].kind = "absent"
      <3>1. ResumeAt(files[p], job'[j].continue) = 1
        BY <2>5 DEF ResumeAt
      <3>2. job'[j].from = ResumeAt(files[p], job'[j].continue)
        BY <1>1
      <3> QED
        BY <2>1, <3>1, <3>2
    <2>6. CASE files[p].kind = "directory"
      <3>1. files'[job'[j].path].kind = "directory"
        BY <1>1, <2>6
      <3> QED
        BY <2>1, <3>1, Zenon
    <2> QED
      BY <2>2, <2>3, <2>4, <2>5, <2>6
  <1> QED
    BY <1>2, <1>3, <1>4, <1>5 DEF KeepInv

LEMMA KeepOpen ==
    ASSUME TypeOK, KeepInv, NEW j \in Jobs, Open(j)
    PROVE  KeepInv'
  <1>1. PICK p \in Paths :
           /\ p = job[j].path /\ Live(j) /\ job[j].stage = "accepted"
           /\ \A i \in Jobs : i # j => job'[i] = job[i]
           /\ SameTerms(j) /\ job'[j].stage = "open"
           /\ files[p].kind # "directory" /\ files'[p].kind = "regular"
           /\ \A q \in Paths : q # p => files'[q] = files[q]
    BY OpenStep
  <1>2. \A q \in Paths : files'[q].kind = "absent" => files'[q].data = << >>
    BY <1>1 DEF KeepInv
  <1>3. ASSUME NEW i \in Jobs, job'[i].stage = "open"
        PROVE  files'[job'[i].path].kind = "regular"
    <2>1. CASE i = j
      BY <1>1, <2>1 DEF SameTerms
    <2>2. CASE i # j
      <3>1. job'[i] = job[i] /\ files[job[i].path].kind = "regular"
        BY <1>1, <1>3, <2>2 DEF KeepInv
      <3>2. job[i].path \in Paths
        BY <1>3, <3>1, JobPath
      <3> QED
        BY <1>1, <3>1, <3>2
    <2> QED
      BY <2>1, <2>2
  <1>4. ASSUME NEW i \in Jobs, Live(i)', ~Appends(i)'
        PROVE  MayLose(i)' \/ (job'[i].stage = "accepted" /\ files'[job'[i].path].kind = "directory")
    <2>1. CASE i = j
      <3>1. ~Appends(j)
        BY <1>1, <1>4, <2>1 DEF Appends, SameTerms
      <3>2. MayLose(j)
        BY <1>1, <3>1 DEF KeepInv
      <3> QED
        BY <1>1, <2>1, <3>2 DEF MayLose, SameTerms
    <2>2. CASE i # j
      <3>1. job'[i] = job[i] /\ Live(i) /\ ~Appends(i)
        BY <1>1, <1>4, <2>2 DEF Live, Appends
      <3>2. job[i].path \in Paths
        BY <3>1, LiveJob
      <3>3. MayLose(i) \/ (job[i].stage = "accepted" /\ files[job[i].path].kind = "directory")
        BY <3>1 DEF KeepInv
      <3> QED
        BY <1>1, <3>1, <3>2, <3>3 DEF MayLose
    <2> QED
      BY <2>1, <2>2
  <1> QED
    BY <1>2, <1>3, <1>4 DEF KeepInv

LEMMA KeepReceive ==
    ASSUME TypeOK, KeepInv, NEW j \in Jobs, Receive(j)
    PROVE  KeepInv'
  <1>1. PICK p \in Paths :
           /\ p = job[j].path /\ job[j].stage = "open"
           /\ \A i \in Jobs : i # j => job'[i] = job[i]
           /\ SameTerms(j) /\ job'[j].stage = "open"
           /\ \A q \in Paths : files'[q].kind = files[q].kind
           /\ \A q \in Paths : q # p => files'[q] = files[q]
    BY ReceiveIs, ReceiveStep, LiveJob
  <1>2. files[p].kind = "regular"
    BY <1>1 DEF KeepInv
  <1>3. \A q \in Paths : files'[q].kind = "absent" => files'[q].data = << >>
    BY <1>1, <1>2 DEF KeepInv
  <1>4. \A i \in Jobs : SameTerms(i) /\ job'[i].stage = job[i].stage
    BY <1>1 DEF SameTerms
  <1>5. ASSUME NEW i \in Jobs, job'[i].stage = "open"
        PROVE  files'[job'[i].path].kind = "regular"
    <2>1. files[job[i].path].kind = "regular" /\ job[i].path \in Paths
      BY <1>4, <1>5, JobPath DEF KeepInv
    <2> QED
      BY <1>1, <1>4, <2>1 DEF SameTerms
  <1>6. ASSUME NEW i \in Jobs, Live(i)', ~Appends(i)'
        PROVE  MayLose(i)' \/ (job'[i].stage = "accepted" /\ files'[job'[i].path].kind = "directory")
    <2>1. Live(i) /\ ~Appends(i)
      BY <1>4, <1>6 DEF Live, Appends, SameTerms
    <2>2. job[i].path \in Paths
      BY <2>1, LiveJob
    <2>3. MayLose(i) \/ (job[i].stage = "accepted" /\ files[job[i].path].kind = "directory")
      BY <2>1 DEF KeepInv
    <2> QED
      BY <1>1, <1>4, <2>2, <2>3 DEF MayLose, SameTerms
  <1> QED
    BY <1>3, <1>5, <1>6 DEF KeepInv

LEMMA KeepEnd ==
    ASSUME TypeOK, KeepInv, NEW j \in Jobs,
           OpenFails(j) \/ Finish(j) \/ Interrupt(j)
    PROVE  KeepInv'
  <1>1. /\ UNCHANGED files
        /\ \A i \in Jobs : i # j => job'[i] = job[i]
        /\ job'[j].stage \in {"failed", "done", "stopped"}
    BY EndStep
  <1> QED
    BY <1>1 DEF KeepInv, Live, Appends, MayLose

LEMMA KeepFail ==
    ASSUME TypeOK, KeepInv, NEW j \in Jobs, Fail(j)
    PROVE  KeepInv'
  <1>1. /\ \A p \in Paths : \/ files'[p] = files[p]
                            \/ /\ files[p].kind \in {"absent", "regular"}
                               /\ files'[p].kind = "regular"
        /\ Live(j) /\ job' = [job EXCEPT ![j].stage = "failed"]
    BY FailIs
  <1>2. /\ \A i \in Jobs : i # j => job'[i] = job[i]
        /\ job'[j].stage = "failed"
    BY <1>1, StageStep
  <1>3. \A p \in Paths : files'[p].kind = "absent" => files'[p].data = << >>
    BY <1>1 DEF KeepInv
  <1>4. ASSUME NEW i \in Jobs, job'[i].stage = "open"
        PROVE  files'[job'[i].path].kind = "regular"
    <2>1. job'[i] = job[i] /\ files[job[i].path].kind = "regular" /\ job[i].path \in Paths
      BY <1>2, <1>4, JobPath DEF KeepInv
    <2> QED
      BY <1>1, <2>1
  <1>5. ASSUME NEW i \in Jobs, Live(i)', ~Appends(i)'
        PROVE  MayLose(i)' \/ (job'[i].stage = "accepted" /\ files'[job'[i].path].kind = "directory")
    <2>1. job'[i] = job[i] /\ Live(i) /\ ~Appends(i)
      BY <1>2, <1>5 DEF Live, Appends
    <2>2. job[i].path \in Paths
      BY <2>1, LiveJob
    <2>3. MayLose(i) \/ (job[i].stage = "accepted" /\ files[job[i].path].kind = "directory")
      BY <2>1 DEF KeepInv
    <2> QED
      BY <1>1, <2>1, <2>2, <2>3 DEF MayLose
  <1> QED
    BY <1>3, <1>4, <1>5 DEF KeepInv

LEMMA KeepStutter == KeepInv /\ UNCHANGED vars => KeepInv'
  BY DEF KeepInv, Live, Appends, MayLose, vars

LEMMA AlwaysKeep == Spec => [](TypeOK /\ KeepInv)
  <1>1. TypeOK /\ KeepInv /\ [Next]_vars => KeepInv'
    BY KeepRequest, KeepOpen, KeepReceive, KeepEnd, KeepFail, KeepStutter DEF Next
  <1> QED
    BY <1>1, InitKeep, TypeCorrect, PTL DEF Spec

\* A longer sequence begins with the shorter one.
LEMMA BeginsWith ==
    ASSUME NEW S, NEW q \in Seq(S), NEW r \in Seq(S), Len(q) <= Len(r),
           \A i \in 1 .. Len(q) : q[i] = r[i]
    PROVE  IsPrefix(q, r)
  <1>1. Len(q) \in Nat /\ Len(r) \in Nat
    BY LenProperties
  <1>2. SubSeq(q, 1, Len(q)) = q
    BY SubSeqFull
  <1>3. PICK t : t = SubSeq(r, 1, Len(q))
    OBVIOUS
  <1>4. t \in Seq(S) /\ Len(t) = Len(q) /\ \A i \in 1 .. Len(q) : t[i] = r[i]
    <2>1. \A i \in 1 .. Len(q) : r[i] \in S
      BY <1>1, ElementOfSeq
    <2> QED
      BY <1>1, <1>3, <2>1, SubSeqProperties
  <1>5. t = q
    BY <1>4, SeqEqual
  <1>6. SubSeq(q, 1, Len(q)) = SubSeq(r, 1, Len(q))
    BY <1>2, <1>3, <1>5
  <1> QED
    BY <1>6 DEF IsPrefix

LEMMA SameBegins ==
    ASSUME TypeOK, NEW p \in Paths, files'[p].data = files[p].data
    PROVE  IsPrefix(files[p].data, files'[p].data)
  <1>1. PICK d \in Seq(Byte) : d = files[p].data
    BY DEF TypeOK, File
  <1>2. Len(d) \in Nat
    BY LenProperties
  <1>3. IsPrefix(d, d)
    BY <1>2, BeginsWith
  <1> QED
    BY <1>1, <1>3

\* Bytes that were in a file are lost only to a download whose request allows
\* it or to the report of a failed one, however many requests of the same file there are, and however long each
\* of them waits between the check of init_job and the fopen of retrieve.
THEOREM OldBytesStay == Spec => OldBytesKept
  <1>1. ASSUME TypeOK, KeepInv, [Next]_vars, NEW p \in Paths
        PROVE  \/ IsPrefix(files[p].data, files'[p].data)
               \/ \E j \in On(p) : MayLose(j)
               \/ Reports(p)
    <2>1. CASE files'[p].data = files[p].data
      BY <1>1, <2>1, SameBegins
    <2>2. ASSUME NEW j \in Jobs, Open(j), files'[p].data # files[p].data
          PROVE  j \in On(p) /\ MayLose(j)
      <3>1. /\ Live(j) /\ job[j].stage = "accepted" /\ job[j].path = p
            /\ files[p].kind # "directory"
            /\ files'[p].data = IF files[p].kind # "absent" /\ Appends(j)
                                THEN files[p].data ELSE << >>
        BY <1>1, <2>2, OpenStep
      <3>2. files[p].kind # "absent"
        BY <1>1, <2>2, <3>1 DEF KeepInv
      <3>3. ~Appends(j)
        BY <2>2, <3>1, <3>2
      <3> QED
        BY <1>1, <3>1, <3>3 DEF KeepInv, On
    <2>3. ASSUME NEW j \in Jobs, Receive(j), files'[p].data # files[p].data, ~Appends(j)
          PROVE  j \in On(p) /\ MayLose(j)
      <3>1. Live(j) /\ job[j].stage = "open" /\ job[j].path = p
        BY <1>1, <2>3, ReceiveIs, ReceiveStep
      <3> QED
        BY <1>1, <2>3, <3>1 DEF KeepInv, On
    <2>4. ASSUME NEW j \in Jobs, Receive(j), files'[p].data # files[p].data, Appends(j)
          PROVE  IsPrefix(files[p].data, files'[p].data)
      <3>1. job[j].path = p /\ files'[p].data = Written(j)
        BY <1>1, <2>4, ReceiveStep
      <3>2. PICK byte \in Byte : byte = <<job[j].source, job[j].at + job[j].got + 1>>
        BY <1>1, <2>4, ReceiveIs
      <3>3. PICK d \in Seq(Byte) : d = files[p].data
        BY <1>1 DEF TypeOK, File
      <3>4. files'[p].data = Append(d, byte)
        BY <2>4, <3>1, <3>2, <3>3 DEF Written
      <3>5. PICK r \in Seq(Byte) : r = Append(d, byte)
        BY AppendProperties
      <3>6. Len(d) \in Nat /\ Len(r) = Len(d) + 1 /\ \A i \in 1 .. Len(d) : r[i] = d[i]
        BY <3>5, AppendProperties, LenProperties
      <3>7. IsPrefix(d, r)
        BY <3>6, BeginsWith
      <3> QED
        BY <3>3, <3>4, <3>5, <3>7
    <2>5. ASSUME NEW j \in Jobs,
                 Request(j) \/ OpenFails(j) \/ Finish(j) \/ Interrupt(j)
          PROVE  files' = files
      BY <1>1, <2>5, RequestStep, EndStep
    <2>6. ASSUME NEW j \in Jobs, Fail(j), files'[p].data # files[p].data
          PROVE  Reports(p)
      <3>1. /\ p = ErrorOf[job[j].path] /\ files'[p].data = <<Report>>
            /\ Live(j) /\ job[j].stage = "open" /\ job' = [job EXCEPT ![j].stage = "failed"]
        BY <1>1, <2>6, FailIs
      <3>2. job'[j].stage = "failed"
        BY <1>1, <3>1, StageStep
      <3> QED
        BY <3>1, <3>2 DEF Reports
    <2>7. UNCHANGED vars => files' = files
      BY DEF vars
    <2> QED
      BY <1>1, <2>1, <2>2, <2>3, <2>4, <2>5, <2>6, <2>7 DEF Next
  <1>2. /\ TypeOK /\ KeepInv /\ [Next]_vars
        => [\A p \in Paths : \/ IsPrefix(files[p].data, files'[p].data)
                             \/ \E j \in On(p) : MayLose(j)
                             \/ Reports(p)]_vars
    BY <1>1
  <1> QED
    BY <1>2, AlwaysKeep, PTL DEF Spec, OldBytesKept

----------------------------------------------------------------------------
(* Exact copies *)

\* Nobody else writes the file of j, not even the report of a failure.
Alone(j) == \A i \in Jobs : Live(i) /\ job[j].path \in Writes(job[i].path) => i = j

\* The file is as init_job has found it, and the offset fits it.
Untouched(j) ==
    /\ files[job[j].path].data = job[j].start
    /\ job[j].found = (files[job[j].path].kind # "absent")
    /\ job[j].from = ResumeAt(files[job[j].path], job[j].continue)
    /\ job[j].got = 0

\* What has been received so far follows what was there, or replaces it.
Partial(j) ==
    LET data == files[job[j].path].data IN
    /\ Appends(j) =>
         /\ job[j].continue
         /\ job[j].found /\ Len(job[j].start) <= IntMax =>
              /\ job[j].at = Len(job[j].start)
              /\ Len(data) = job[j].at + job[j].got
              /\ \A i \in 1 .. Len(data) :
                   data[i] = IF i <= job[j].at THEN job[j].start[i]
                             ELSE <<job[j].source, i>>
    /\ ~Appends(j) =>
         /\ job[j].at = 0
         /\ Len(data) = job[j].got
         /\ \A i \in 1 .. Len(data) : data[i] = <<job[j].source, i>>

Solo(j) == /\ Alone(j)
           /\ job[j].stage = "accepted" => Untouched(j)
           /\ job[j].stage = "open" => Partial(j)

SoloInv == \A j \in Jobs : Live(j) /\ job[j].solo => Solo(j)

LEMMA InitSolo == Init => SoloInv
  BY DEF Init, SoloInv, Live, NoJob

\* Steps of others leave a job that has its file for itself as it was.
LEMMA SoloOther ==
    ASSUME SoloInv, NEW i \in Jobs, Live(i)', job'[i].solo, job'[i] = job[i],
           files'[job[i].path] = files[job[i].path],
           \A k \in Jobs : Live(k)' /\ job[i].path \in Writes(job'[k].path)
                             => Live(k) /\ job[i].path \in Writes(job[k].path)
    PROVE  Solo(i)'
  <1>1. Solo(i)
    BY DEF SoloInv, Live
  <1>2. Alone(i)'
    BY <1>1 DEF Solo, Alone
  <1>3. job'[i].stage = "accepted" => Untouched(i)'
    BY <1>1 DEF Solo, Untouched
  <1>4. job'[i].stage = "open" => Partial(i)'
    <2>1. /\ job'[i] = job[i]
          /\ files'[job'[i].path].data = files[job[i].path].data
      OBVIOUS
    <2>2. Partial(i) => Partial(i)'
      BY <2>1, Zenon DEF Partial, Appends
    <2> QED
      BY <1>1, <2>1, <2>2 DEF Solo
  <1> QED
    BY <1>2, <1>3, <1>4 DEF Solo

LEMMA SoloRequest ==
    ASSUME TypeOK, SoloInv, NEW j \in Jobs, Request(j)
    PROVE  SoloInv'
  <1>1. PICK p \in Paths :
             /\ UNCHANGED files /\ job[j].stage = "none"
             /\ \A i \in Jobs : i # j =>
                  /\ SameTerms(i)
                  /\ job'[i].stage = job[i].stage /\ job'[i].got = job[i].got
                  /\ job'[i] = job[i] \/ job'[i].solo = FALSE
                  /\ Shares(i, p) /\ job'[j].stage = "accepted" => job'[i].solo = FALSE
             /\ job'[j].path = p /\ job'[j].stage \in {"refused", "accepted"}
             /\ job'[j].from = ResumeAt(files[p], job'[j].continue) /\ job'[j].got = 0
             /\ job'[j].start = files[p].data
             /\ job'[j].found = (files[p].kind # "absent")
             /\ job'[j].solo = (Writers(p) = {})
    BY RequestStep
  <1>2. ASSUME NEW i \in Jobs, i # j, Live(i)'
        PROVE  Live(i) /\ job'[i].path = job[i].path
    BY <1>1, <1>2 DEF Live, SameTerms
  <1>3. ASSUME NEW i \in Jobs, i # j, Live(i)', job'[i].solo
        PROVE  Solo(i)'
    <2>1. job'[i] = job[i] /\ Live(i)
      BY <1>1, <1>2, <1>3
    <2>2. ASSUME NEW k \in Jobs, Live(k)', job[i].path \in Writes(job'[k].path)
          PROVE  Live(k) /\ job[i].path \in Writes(job[k].path)
      <3>1. CASE k # j
        BY <1>2, <2>2, <3>1
      <3>2. CASE k = j
        <4>1. job'[j].stage = "accepted" /\ Shares(i, p)
          BY <1>1, <2>1, <2>2, <3>2 DEF Live, Shares
        <4> QED
          BY <1>1, <1>3, <4>1
      <3> QED
        BY <3>1, <3>2
    <2> QED
      BY <1>1, <1>3, <2>1, <2>2, SoloOther
  <1>4. ASSUME Live(j)', job'[j].solo
        PROVE  Solo(j)'
    <2>1. job'[j].stage = "accepted" /\ Writers(p) = {}
      BY <1>1, <1>4 DEF Live
    <2>2. Alone(j)'
      BY <1>1, <1>2, <2>1 DEF Alone, Writers
    <2>3. Untouched(j)'
      BY <1>1 DEF Untouched
    <2> QED
      BY <2>1, <2>2, <2>3 DEF Solo
  <1> QED
    BY <1>3, <1>4 DEF SoloInv

LEMMA SoloEnd ==
    ASSUME TypeOK, SoloInv, NEW j \in Jobs,
           OpenFails(j) \/ Finish(j) \/ Interrupt(j)
    PROVE  SoloInv'
  <1>1. /\ UNCHANGED files
        /\ \A i \in Jobs : i # j => job'[i] = job[i]
        /\ job'[j].stage \in {"failed", "done", "stopped"}
    BY EndStep
  <1>2. \A i \in Jobs : Live(i)' => i # j /\ Live(i) /\ job'[i] = job[i]
    BY <1>1 DEF Live
  <1> QED
    BY <1>1, <1>2, SoloOther DEF SoloInv

\* When a job moves on alone, jobs that have another file for themselves do not
\* notice, and nobody else has its file for himself.
LEMMA SoloOthers ==
    ASSUME TypeOK, SoloInv, NEW j \in Jobs, Live(j), SameTerms(j),
           \A i \in Jobs : i # j => job'[i] = job[i],
           \A p \in Paths : p \notin Writes(job[j].path) => files'[p] = files[p],
           NEW i \in Jobs, i # j, Live(i)', job'[i].solo
    PROVE  Solo(i)'
  <1>1. job'[i] = job[i] /\ Live(i)
    BY DEF Live
  <1>2. job[i].path \notin Writes(job[j].path)
    BY <1>1 DEF SoloInv, Solo, Alone
  <1>3. job[i].path \in Paths
    BY <1>1, LiveJob
  <1>4. ASSUME NEW k \in Jobs, Live(k)', job[i].path \in Writes(job'[k].path)
        PROVE  Live(k) /\ job[i].path \in Writes(job[k].path)
    <2>1. k # j
      BY <1>2, <1>4 DEF SameTerms
    <2> QED
      BY <1>4, <2>1 DEF Live
  <1> QED
    BY <1>1, <1>2, <1>3, <1>4, SoloOther

\* Nobody joins the file of a job when the job itself moves on.
LEMMA StaysAlone ==
    ASSUME NEW j \in Jobs, Alone(j), SameTerms(j), \A i \in Jobs : i # j => job'[i] = job[i]
    PROVE  Alone(j)'
  BY DEF Alone, SameTerms, Live

\* A failed download writes the file of nobody who has it for himself.
LEMMA SoloFail ==
    ASSUME TypeOK, SoloInv, NEW j \in Jobs, Fail(j)
    PROVE  SoloInv'
  <1>1. /\ Live(j) /\ job' = [job EXCEPT ![j].stage = "failed"]
        /\ \A p \in Paths : p # ErrorOf[job[j].path] => files'[p] = files[p]
    BY FailIs
  <1>2. /\ \A i \in Jobs : i # j => job'[i] = job[i]
        /\ SameTerms(j) /\ job'[j].stage = "failed"
    BY <1>1, StageStep
  <1>3. \A p \in Paths : p \notin Writes(job[j].path) => files'[p] = files[p]
    BY <1>1 DEF Writes
  <1>4. \A i \in Jobs : i # j /\ Live(i)' /\ job'[i].solo => Solo(i)'
    BY <1>1, <1>2, <1>3, SoloOthers
  <1>5. ~Live(j)'
    BY <1>2 DEF Live
  <1> QED
    BY <1>4, <1>5 DEF SoloInv

LEMMA SoloOpen ==
    ASSUME TypeOK, SoloInv, NEW j \in Jobs, Open(j)
    PROVE  SoloInv'
  <1>1. PICK p \in Paths : p = job[j].path
    BY OpenStep
  <1>2. /\ Live(j) /\ job[j].stage = "accepted"
        /\ \A i \in Jobs : i # j => job'[i] = job[i]
        /\ SameTerms(j) /\ job'[j].stage = "open"
        /\ job'[j].at \in Begins(job[j].from)
        /\ job'[j].got = job[j].got /\ job'[j].solo = job[j].solo
        /\ files[p].kind # "directory"
        /\ files'[p].data = IF files[p].kind # "absent" /\ Appends(j)
                            THEN files[p].data ELSE << >>
        /\ \A q \in Paths : q # p => files'[q] = files[q]
    BY <1>1, OpenStep
  <1>3. \A i \in Jobs : i # j /\ Live(i)' /\ job'[i].solo => Solo(i)'
    <2>1. \A q \in Paths : q \notin Writes(job[j].path) => files'[q] = files[q]
      BY <1>1, <1>2 DEF Writes
    <2> QED
      BY <1>2, <2>1, SoloOthers
  <1>4. ASSUME job'[j].solo
        PROVE  Solo(j)'
    <2>1. Alone(j) /\ Untouched(j)
      BY <1>2, <1>4 DEF SoloInv, Solo
    <2>2. files[p].kind \in {"absent", "regular", "directory"} /\ job[j].continue \in BOOLEAN
      BY <1>2, LiveJob DEF TypeOK, File, Job
    <2>3. /\ files[p].data = job[j].start /\ job[j].got = 0
          /\ job[j].found = (files[p].kind # "absent")
          /\ job[j].from = ResumeAt(files[p], job[j].continue)
      BY <1>1, <2>1 DEF Untouched
    <2>4. job[j].from # 0 => job[j].continue
      BY <2>3 DEF ResumeAt
    <2>5. job[j].from # 0 /\ job[j].found
            => job[j].from = AsInt(Len(files[p].data)) /\ files[p].kind # "absent"
      BY <1>2, <2>2, <2>3, <2>4 DEF ResumeAt
    <2>6. CASE Appends(j)
      <3>1. PICK n \in Nat, from \in Int, at \in Nat :
              /\ n = Len(job[j].start) /\ from = job[j].from
              /\ at = job'[j].at /\ at \in Begins(from)
        BY <1>2, LiveJob, LenProperties, BeginsType
      <3>2. ASSUME job[j].found, n <= IntMax
            PROVE  at = n /\ files'[p].data = job[j].start
        <4>1. from = AsInt(n) /\ files[p].kind # "absent"
          BY <2>3, <2>5, <2>6, <3>1, <3>2 DEF Appends
        <4>2. from = n
          BY <3>2, <4>1, IntOf
        <4>3. at = n
          BY <3>1, <4>2, BeginsType
        <4> QED
          BY <1>2, <2>3, <2>6, <4>1, <4>3
      <3>3. /\ job'[j].path = p /\ job'[j].from = from /\ job'[j].got = 0
            /\ job'[j].start = job[j].start /\ job'[j].found = job[j].found
            /\ job'[j].continue = job[j].continue
        BY <1>1, <1>2, <2>3, <3>1 DEF SameTerms
      <3>4. ASSUME job[j].found, n <= IntMax
            PROVE  /\ Len(files'[p].data) = at + 0
                   /\ \A i \in 1 .. Len(files'[p].data) :
                        i <= at /\ files'[p].data[i] = job'[j].start[i]
        BY <3>1, <3>2, <3>3, <3>4
      <3>5. Partial(j)'
        BY <2>4, <2>6, <3>1, <3>2, <3>3, <3>4 DEF Partial, Appends
      <3> QED
        BY <1>2, <2>1, <3>5, StaysAlone DEF Solo
    <2>7. CASE ~Appends(j)
      <3>1. files'[p].data = << >> /\ Len(<< >>) = 0
        BY <1>2, <2>7, EmptySeq
      <3>2. job[j].from = 0
        BY <2>7 DEF Appends
      <3>3. job'[j].at = 0
        BY <1>2, <3>2, BeginsType
      <3>4. Partial(j)'
        BY <1>1, <1>2, <2>3, <2>7, <3>1, <3>3 DEF Partial, Appends, SameTerms
      <3> QED
        BY <1>2, <2>1, <3>4, StaysAlone DEF Solo
    <2> QED
      BY <2>6, <2>7
  <1> QED
    BY <1>3, <1>4 DEF SoloInv

LEMMA SoloReceive ==
    ASSUME TypeOK, SoloInv, NEW j \in Jobs, Receive(j)
    PROVE  SoloInv'
  <1>1. Live(j) /\ job[j].stage = "open"
    BY ReceiveIs
  <1>2. PICK p \in Paths, s \in Sources, at \in Nat, got \in Nat, data \in Seq(Byte),
             start \in Seq(Byte) :
          /\ p = job[j].path /\ s = job[j].source /\ at = job[j].at /\ got = job[j].got
          /\ data = files[p].data /\ start = job[j].start
    BY <1>1, LiveJob DEF File
  <1>3. /\ \A i \in Jobs : i # j => job'[i] = job[i]
        /\ SameTerms(j) /\ job'[j].stage = "open" /\ job'[j].at = at
        /\ job'[j].got = got + 1 /\ job'[j].solo = job[j].solo
        /\ files'[p].data = Written(j)
        /\ \A q \in Paths : q # p => files'[q] = files[q]
    BY <1>2, ReceiveStep
  <1>4. \A i \in Jobs : i # j /\ Live(i)' /\ job'[i].solo => Solo(i)'
    <2>1. \A q \in Paths : q \notin Writes(job[j].path) => files'[q] = files[q]
      BY <1>2, <1>3 DEF Writes
    <2> QED
      BY <1>1, <1>2, <1>3, <2>1, SoloOthers
  <1>5. ASSUME job'[j].solo
        PROVE  Solo(j)'
    <2>1. Alone(j) /\ Partial(j)
      BY <1>1, <1>3, <1>5 DEF SoloInv, Solo
    <2>2. PICK byte \in Byte : byte = <<s, at + got + 1>>
      BY <1>2, ReceiveIs
    <2>3. CASE Appends(j)
      <3>1. PICK a \in Seq(Byte) : a = Append(data, byte)
        BY AppendProperties
      <3>2. Len(a) = Len(data) + 1 /\ a[Len(data) + 1] = byte
            /\ \A i \in 1 .. Len(data) : a[i] = data[i]
        BY <3>1, AppendProperties
      <3>3. files'[p].data = a
        BY <1>2, <1>3, <2>2, <2>3, <3>1 DEF Written
      <3>4. ASSUME job[j].found, Len(start) <= IntMax
            PROVE  /\ at = Len(start) /\ Len(a) = at + (got + 1)
                   /\ \A i \in 1 .. Len(a) : a[i] = IF i <= at THEN start[i] ELSE <<s, i>>
        <4>1. /\ at = Len(start) /\ Len(data) = at + got
              /\ \A i \in 1 .. Len(data) : data[i] = IF i <= at THEN start[i] ELSE <<s, i>>
          BY <1>2, <2>1, <2>3, <3>4 DEF Partial
        <4>2. PICK n \in Nat : n = at + got
          OBVIOUS
        <4>3. Len(data) = n /\ Len(a) = n + 1 /\ a[n + 1] = <<s, n + 1>>
          BY <2>2, <3>2, <4>1, <4>2
        <4>4. \A i \in 1 .. n + 1 : i \in 1 .. n \/ (i = n + 1 /\ ~(i <= at))
          BY <4>2
        <4>5. \A i \in 1 .. n : a[i] = IF i <= at THEN start[i] ELSE <<s, i>>
          BY <3>2, <4>1, <4>3
        <4>6. \A i \in 1 .. n + 1 : a[i] = IF i <= at THEN start[i] ELSE <<s, i>>
          BY <4>3, <4>4, <4>5
        <4>7. Len(a) = at + (got + 1)
          BY <4>2, <4>3
        <4> QED
          BY <4>1, <4>3, <4>6, <4>7
      <3>5. job[j].continue
        BY <2>1, <2>3 DEF Partial
      <3>6. Appends(j)'
        BY <1>3, <2>3 DEF Appends, SameTerms
      <3>7. Partial(j)'
        BY <1>2, <1>3, <3>3, <3>4, <3>5, <3>6 DEF Partial, SameTerms
      <3> QED
        BY <1>3, <2>1, <3>7, StaysAlone DEF Solo
    <2>4. CASE ~Appends(j)
      <3>1. Len(data) = got /\ \A i \in 1 .. got : data[i] = <<s, i>>
        BY <1>2, <2>1, <2>4 DEF Partial
      <3>2. at = 0 /\ byte = <<s, got + 1>>
        BY <1>2, <2>1, <2>2, <2>4 DEF Partial
      <3>3. PICK w : w = WriteAt(data, got + 1, byte)
        OBVIOUS
      <3>4. Len(w) = got + 1 /\ \A i \in 1 .. Len(w) : w[i] = IF i = got + 1 THEN byte
                                                             ELSE data[i]
        <4>1. PICK n \in Nat \ {0} : n = got + 1
          OBVIOUS
        <4>2. /\ Len(w) = IF got + 1 > Len(data) THEN got + 1 ELSE Len(data)
              /\ \A i \in 1 .. Len(w) :
                   w[i] = IF i = got + 1 THEN byte
                          ELSE IF i <= Len(data) THEN data[i] ELSE Hole
          <5>1. w = WriteAt(data, n, byte)
            BY <3>3, <4>1
          <5>2. /\ Len(WriteAt(data, n, byte)) = IF n > Len(data) THEN n ELSE Len(data)
                /\ \A i \in 1 .. Len(WriteAt(data, n, byte)) :
                     WriteAt(data, n, byte)[i] = IF i = n THEN byte
                                                 ELSE IF i <= Len(data) THEN data[i] ELSE Hole
            BY WriteAtType, Zenon
          <5> QED
            BY <4>1, <5>1, <5>2
        <4>3. Len(w) = got + 1
          BY <3>1, <4>2
        <4>4. \A i \in 1 .. Len(w) : i = got + 1 \/ i <= Len(data)
          BY <3>1, <4>3
        <4> QED
          BY <4>2, <4>3, <4>4
      <3>5. files'[p].data = w
        BY <1>2, <1>3, <2>2, <2>4, <3>3 DEF Written
      <3>6. \A i \in 1 .. Len(w) : w[i] = <<s, i>>
        <4>1. \A i \in 1 .. Len(w) : i = got + 1 \/ i \in 1 .. got
          BY <3>4
        <4> QED
          BY <3>1, <3>2, <3>4, <4>1
      <3>7. ~Appends(j)'
        BY <1>3, <2>4 DEF Appends, SameTerms
      <3>8. Partial(j)'
        BY <1>2, <1>3, <3>2, <3>4, <3>5, <3>6, <3>7 DEF Partial, SameTerms
      <3> QED
        BY <1>3, <2>1, <3>8, StaysAlone DEF Solo
    <2> QED
      BY <2>3, <2>4
  <1> QED
    BY <1>4, <1>5 DEF SoloInv

LEMMA SoloStutter == SoloInv /\ UNCHANGED vars => SoloInv'
  <1> SUFFICES ASSUME SoloInv, UNCHANGED vars
               PROVE  SoloInv'
    OBVIOUS
  <1>1. files' = files /\ job' = job
    BY DEF vars
  <1> QED
    BY <1>1, SoloOther DEF SoloInv, Live

LEMMA AlwaysSolo == Spec => [](TypeOK /\ SoloInv)
  <1>1. TypeOK /\ SoloInv /\ [Next]_vars => SoloInv'
    BY SoloRequest, SoloOpen, SoloReceive, SoloEnd, SoloFail, SoloStutter DEF Next
  <1> QED
    BY <1>1, InitSolo, TypeCorrect, PTL DEF Spec

\* A download that comes to a good end is complete.
LEMMA Complete ==
    ASSUME TypeOK, SoloInv, NEW j \in Jobs, Live(j), job[j].stage = "open", job[j].solo,
           job[j].at + job[j].got = Size,
           job[j].continue => /\ job[j].found
                              /\ Len(job[j].start) <= IntMax
                              /\ IsPrefix(job[j].start, Copy(job[j].source))
    PROVE  files[job[j].path].data = Copy(job[j].source)
  <1>1. PICK s \in Sources, at \in Nat, got \in Nat, data \in Seq(Byte),
             start \in Seq(Byte), copy \in Seq(Byte) :
          /\ s = job[j].source /\ at = job[j].at /\ got = job[j].got
          /\ data = files[job[j].path].data /\ start = job[j].start
          /\ copy = Copy(s)
    BY LiveJob, CopyType DEF File
  <1>2. Len(copy) = Size /\ \A i \in 1 .. Size : copy[i] = <<s, i>>
    BY <1>1, CopyType DEF Copy
  <1>3. Partial(j)
    BY DEF SoloInv, Solo
  <1>4. CASE Appends(j)
    <2>1. /\ job[j].continue /\ job[j].found /\ Len(start) <= IntMax
          /\ IsPrefix(start, copy)
      BY <1>1, <1>3, <1>4 DEF Partial
    <2>2. /\ at = Len(start) /\ Len(data) = Size
          /\ \A i \in 1 .. Len(data) : data[i] = IF i <= at THEN start[i] ELSE <<s, i>>
      BY <1>1, <1>3, <1>4, <2>1 DEF Partial
    <2>3. Len(start) <= Len(copy) /\ SubSeq(start, 1, Len(start)) = SubSeq(copy, 1, Len(start))
      BY <2>1 DEF IsPrefix
    <2>4. \A i \in 1 .. at : start[i] = copy[i]
      <3>1. SubSeq(start, 1, Len(start)) = start
        BY SubSeqFull
      <3>2. PICK t : t = SubSeq(copy, 1, at)
        OBVIOUS
      <3>3. \A i \in 1 .. at : copy[i] \in Byte
        BY <1>2, <2>2, <2>3, ElementOfSeq, LenProperties
      <3>4. \A i \in 1 .. at : t[i] = copy[i]
        BY <3>2, <3>3, SubSeqProperties
      <3>5. t = start
        BY <2>2, <2>3, <3>1, <3>2
      <3> QED
        BY <3>4, <3>5
    <2>5. \A i \in 1 .. Size : data[i] = copy[i]
      <3>1. \A i \in 1 .. Size : i <= at => i \in 1 .. at
        OBVIOUS
      <3>2. \A i \in 1 .. Size : data[i] = IF i <= at THEN start[i] ELSE <<s, i>>
        BY <2>2
      <3> QED
        BY <1>2, <2>4, <3>1, <3>2
    <2>6. data = copy
      BY <1>2, <2>2, <2>5, SeqEqual
    <2> QED
      BY <1>1, <2>6
  <1>5. CASE ~Appends(j)
    <2>1. at = 0 /\ got = Size
      BY <1>1, <1>3, <1>5 DEF Partial
    <2>2. Len(data) = Size /\ \A i \in 1 .. Size : data[i] = <<s, i>>
      BY <1>1, <1>3, <1>5, <2>1 DEF Partial
    <2>3. data = copy
      BY <1>2, <2>2, SeqEqual
    <2> QED
      BY <1>1, <2>3
  <1> QED
    BY <1>4, <1>5

\* A download that ends well and had the file for itself leaves an exact copy,
\* whether it starts from nothing, overwrites, or completes the beginning that an
\* earlier one has left; whatever the URLs yield and however many jobs run.
THEOREM CopiesAreExact == Spec => ExactCopy
  <1>1. ASSUME TypeOK, SoloInv, [Next]_vars, NEW j \in Jobs,
               job[j].stage = "open", job'[j].stage = "done", job[j].solo,
               job[j].continue => /\ job[j].found
                                  /\ Len(job[j].start) <= IntMax
                                  /\ IsPrefix(job[j].start, Copy(job[j].source))
        PROVE  files'[job[j].path].data = Copy(job[j].source)
    <2>1. Finish(j)
      <3>1. ASSUME NEW i \in Jobs, Request(i)
            PROVE  FALSE
        BY <1>1, <3>1, RequestStep
      <3>2. ASSUME NEW i \in Jobs, Open(i) \/ Receive(i)
            PROVE  FALSE
        BY <1>1, <3>2, OpenStep, ReceiveStep
      <3>3. ASSUME NEW i \in Jobs, i # j,
                   OpenFails(i) \/ Finish(i) \/ Fail(i) \/ Interrupt(i)
            PROVE  FALSE
        <4>1. job'[j] = job[j]
          <5>1. CASE Fail(i)
            <6>1. Live(i) /\ job' = [job EXCEPT ![i].stage = "failed"]
              BY <1>1, <5>1, FailIs
            <6> QED
              BY <1>1, <3>3, <6>1, StageStep
          <5>2. CASE ~Fail(i)
            BY <1>1, <3>3, <5>2, EndStep
          <5> QED
            BY <5>1, <5>2
        <4> QED
          BY <1>1, <4>1
      <3>4. ASSUME OpenFails(j) \/ Fail(j) \/ Interrupt(j)
            PROVE  FALSE
        <4>1. PICK s \in {"failed", "stopped"} : job' = [job EXCEPT ![j].stage = s]
          BY <3>4 DEF OpenFails, Fail, Interrupt
        <4>2. Live(j)
          BY <1>1 DEF Live
        <4> QED
          BY <1>1, <4>1, <4>2, StageStep
      <3>5. ASSUME UNCHANGED vars
            PROVE  FALSE
        BY <1>1, <3>5 DEF vars
      <3> QED
        BY <1>1, <3>1, <3>2, <3>3, <3>4, <3>5 DEF Next
    <2>2. files' = files /\ job[j].at + job[j].got = Size /\ Live(j)
      BY <1>1, <2>1 DEF Finish, Live
    <2> QED
      BY <1>1, <2>2, Complete
  <1>2. /\ TypeOK /\ SoloInv /\ [Next]_vars
        => [\A j \in Jobs :
              (/\ job[j].stage = "open" /\ job'[j].stage = "done"
               /\ job[j].solo
               /\ job[j].continue => /\ job[j].found
                                     /\ Len(job[j].start) <= IntMax
                                     /\ IsPrefix(job[j].start, Copy(job[j].source)))
              => files'[job[j].path].data = Copy(job[j].source)]_vars
    BY <1>1
  <1> QED
    BY <1>2, AlwaysSolo, PTL DEF Spec, ExactCopy

=============================================================================
