---------------------------- MODULE WmgetTarget ----------------------------
(***************************************************************************)
(* Where a download goes.  init_job (server.c) looks at the file a request *)
(* resolves to, refuses it or fixes the offset at which to continue, and   *)
(* the child opens the file in retrieve (retrieve.c) whenever the job gets *)
(* a slot, which may be much later and after other downloads of the same   *)
(* file.  The slots and the queue themselves are the business of WmgetJobs:*)
(* here an accepted job starts at any time, or never.                      *)
(***************************************************************************)
EXTENDS Integers, Sequences, SequencesExt

CONSTANTS
  Jobs,      \* the requests
  Sources,   \* the URLs they may name
  Paths,     \* the files they may resolve to
  Below,     \* Below[d][s]: the file named after URL s in directory d
  Size,      \* the length of what every URL yields
  OldFiles,  \* the file systems there may be before anything runs
  Targets,   \* the relative paths a request may name
  ErrorOf,   \* the file that is to tell of a failed download to each path
  IntMax     \* the largest int

ASSUME SizeAssumption == Size \in Nat \ {0}
ASSUME BelowAssumption ==
  Below \in [Paths \cup {"default"} -> [Sources -> Paths]]
ASSUME TargetsAssumption == Targets \subseteq Paths
ASSUME IntMaxAssumption == IntMax \in Nat \ {0}
\* ".ERROR" is cut where the path gets too long: at worst it is the path itself.
ASSUME ErrorOfAssumption == ErrorOf \in [Paths -> Paths]

VARIABLES
  files,   \* the file system: one record per path
  job      \* the job of each request

vars == <<files, job>>

(***************************************************************************)
(* A file: what is at the path, its bytes, who may write (the classes with *)
(* the write bit), and whether the user owns it and is in its group.  A    *)
(* byte is <<source, index>>, so that a file tells where it came from; an  *)
(* error report is one byte.                                               *)
(***************************************************************************)
Hole == <<"none", 0>>
Report == <<"report", 0>>
Byte == ((Sources \cup {"other"}) \X (1 .. Size)) \cup {Hole, Report}
Copy(s) == [i \in 1 .. Size |-> <<s, i>>]

File == [kind : {"absent", "regular", "directory"}, data : Seq(Byte),
         mode : SUBSET {"user", "group", "other"},
         mine : BOOLEAN, ours : BOOLEAN]

\* Where nothing is there are no bytes.
ASSUME OldFilesAssumption ==
  /\ OldFiles \subseteq [Paths -> File]
  /\ \A old \in OldFiles : \A p \in Paths :
       old[p].kind = "absent" => old[p].data = <<>>

NoFile == [kind |-> "absent", data |-> <<>>, mode |-> {}, mine |-> FALSE,
           ours |-> FALSE]
NewFile == [NoFile EXCEPT !.kind = "regular", !.mode = {"user"},
                          !.mine = TRUE, !.ours = TRUE]

Stage == {"none", "refused", "accepted", "open", "done", "failed", "stopped"}
NoJob == [stage |-> "none"]
Job == [stage : Stage \ {"none"}, source : Sources, path : Paths,
        overwrite : BOOLEAN, continue : BOOLEAN,
        from : Int, at : Nat, got : Nat,
        start : Seq(Byte), found : BOOLEAN,
        solo : BOOLEAN]

Live(j) == job[j].stage \in {"accepted", "open"}
On(p) == {j \in Jobs : Live(j) /\ job[j].path = p}

\* The files a download to p writes, and the jobs that may yet write p.
Writes(p) == {p, ErrorOf[p]}
Writers(p) == {j \in Jobs : Live(j) /\ p \in Writes(job[j].path)}

Init == /\ files \in OldFiles
        /\ job = [j \in Jobs |-> NoJob]

-----------------------------------------------------------------------------
(* init_job *)

\* A relative target is looked up in the default directory, and one that is a
\* directory is extended by the name of the URL.  Without a target, or with an
\* absolute one, which is noted and not copied into the job, the file is the one
\* of the default directory that bears that name.
NoTarget == "default"
Resolve(s, t) ==
  IF t = NoTarget \/ files[t].kind = "directory" THEN Below[t][s] ELSE t

ModeAllows(f) == \/ "other" \in f.mode
                 \/ "group" \in f.mode /\ f.ours
                 \/ "user" \in f.mode /\ f.mine

\* Mutation: forgets to look at overwrite when the file is there.
RefusesUnwritable(f, overwrite, continue) ==
  f.kind # "absent" /\ ~ModeAllows(f)

Refuses(f, overwrite, continue) ==
  /\ f.kind # "absent"
  /\ \/ ~overwrite /\ ~continue
     \/ ~ModeAllows(f)

\* What is left of a number that is stored in an int.
Wrap == 2 * (IntMax + 1)
AsInt(n) == IF n % Wrap <= IntMax THEN n % Wrap ELSE (n % Wrap) - Wrap

\* Mutation: off by one at the end of the file.
ResumeAfter(f, continue) ==
  IF continue /\ f.data # <<>> THEN AsInt(Len(f.data) + 1) ELSE 0

\* The value of options.continue_from that the child will see: the client's
\* flag, or st_size, which is stored over it, in an int.
ResumeAt(f, continue) ==
  CASE ~continue -> 0
    [] continue /\ f.kind = "absent" -> 1
    [] continue /\ f.kind = "regular" -> AsInt(Len(f.data))
    [] OTHER -> 0

Request(j) ==
  \E s \in Sources, t \in Targets \cup {NoTarget}, overwrite, continue \in BOOLEAN :
    LET p == Resolve(s, t)
        f == files[p]
        alone == Writers(p) = {}
        refused == Refuses(f, overwrite, continue)
    IN /\ job[j] = NoJob
       /\ job' = [i \in Jobs |->
            IF i = j
            THEN [stage |-> IF refused THEN "refused" ELSE "accepted",
                  source |-> s, path |-> p,
                  overwrite |-> overwrite, continue |-> continue,
                  from |-> ResumeAt(f, continue), at |-> 0, got |-> 0,
                  start |-> f.data, found |-> f.kind # "absent",
                  solo |-> alone]
            ELSE IF /\ Live(i) /\ job[i].path \in Writes(p)
                    /\ ~refused
            THEN [job[i] EXCEPT !.solo = FALSE]
            ELSE job[i]]
       /\ UNCHANGED files

-----------------------------------------------------------------------------
(* retrieve *)

\* What open(2) allows: the first class the user is in decides.
CanOpen(f) ==
  \/ f.kind = "absent"
  \/ /\ f.kind = "regular"
     /\ (IF f.mine THEN "user" ELSE IF f.ours THEN "group" ELSE "other")
          \in f.mode

Appends(j) == job[j].from # 0

\* fopen with "a" keeps what is there, with "w" it does not.
Opened(f, append) ==
  IF f.kind = "absent" THEN NewFile
  ELSE IF append THEN f
  ELSE [f EXCEPT !.data = <<>>]

\* Where curl begins when it is told to resume at n.  A negative n means what
\* the protocol makes of it: the beginning, or so many bytes before the end.
Begins(n) == IF n >= 0 THEN {n} ELSE {0, Size + n} \cap Nat

Open(j) ==
  LET p == job[j].path IN
  /\ job[j].stage = "accepted"
  /\ CanOpen(files[p])
  /\ files' = [files EXCEPT ![p] = Opened(@, Appends(j))]
  /\ \E n \in Begins(job[j].from) :
       job' = [job EXCEPT ![j].stage = "open", ![j].at = n]

\* retrieve gives up and writes no error file.
OpenFails(j) ==
  /\ job[j].stage = "accepted"
  /\ ~CanOpen(files[job[j].path])
  /\ job' = [job EXCEPT ![j].stage = "failed"]
  /\ UNCHANGED files

\* A write at byte i of what is there.
WriteAt(data, i, byte) ==
  [k \in 1 .. (IF i > Len(data) THEN i ELSE Len(data)) |->
     IF k = i THEN byte ELSE IF k <= Len(data) THEN data[k] ELSE Hole]

\* Mutation: does not know where the end is.
ReceiveMore(j) ==
  /\ job[j].stage = "open"
  /\ job[j].got < Size
  /\ files' = [files EXCEPT ![job[j].path].data =
                 Append(@, <<job[j].source, job[j].at + job[j].got + 1>>)]
  /\ job' = [job EXCEPT ![j].got = @ + 1]

Receive(j) ==
  LET p == job[j].path
      n == job[j].at + job[j].got + 1
      byte == <<job[j].source, n>>
  IN /\ job[j].stage = "open"
     /\ n <= Size
     /\ files' = [files EXCEPT ![p].data =
                    IF Appends(j) THEN Append(@, byte)
                    ELSE WriteAt(@, job[j].got + 1, byte)]
     /\ job' = [job EXCEPT ![j].got = @ + 1]

\* curl_easy_perform returns 0: everything after the offset is there.
Finish(j) ==
  /\ job[j].stage = "open"
  /\ job[j].at + job[j].got = Size
  /\ job' = [job EXCEPT ![j].stage = "done"]
  /\ UNCHANGED files

\* curl_easy_init or curl_easy_perform fails.  The report replaces whatever
\* is in the error file, if that can be written at all.
Fail(j) ==
  LET e == ErrorOf[job[j].path] IN
  /\ job[j].stage = "open"
  /\ job' = [job EXCEPT ![j].stage = "failed"]
  /\ files' = IF CanOpen(files[e])
               THEN [files EXCEPT ![e] = [Opened(@, FALSE) EXCEPT !.data = <<Report>>]]
               ELSE files

\* Stopped by the user, cancelled before it had a slot, or killed: what has
\* been received stays and no error file is written.
Interrupt(j) ==
  /\ Live(j)
  /\ job' = [job EXCEPT ![j].stage = "stopped"]
  /\ UNCHANGED files

Next == \E j \in Jobs : \/ Request(j)
                        \/ Open(j)
                        \/ OpenFails(j)
                        \/ Receive(j)
                        \/ Finish(j)
                        \/ Fail(j)
                        \/ Interrupt(j)

\* Every request may have ended: the system rests.
Spec == Init /\ [][Next]_vars

-----------------------------------------------------------------------------
(* Properties *)

\* The files and the jobs keep their types: no file grows a byte that is
\* neither of a URL nor of a report, and no download begins before its URL.
TypeOK == /\ files \in [Paths -> File]
          /\ job \in [Jobs -> Job \cup {NoJob}]

\* The request of j allows what was in its file to go, or nothing was there
\* that could; as many bytes as an int cannot tell from none count as none.
MayLose(j) == \/ job[j].overwrite /\ ~job[j].continue
              \/ Len(job[j].start) % Wrap = 0

\* A failed download replaces the error file e by its report.
Reports(e) == /\ \E j \in Jobs : /\ job[j].stage = "open" /\ job'[j].stage = "failed"
                                 /\ ErrorOf[job[j].path] = e
              /\ files'[e].data = <<Report>>

\* Bytes that were in a file are lost only to a download that was allowed to
\* overwrite and did not ask to continue, or that found no bytes there when
\* it was requested (or a multiple of the 2^32 that an int takes for none), or
\* to the report of a failure: the check of init_job and the mode retrieve
\* opens the file with agree, however long the job waits between the two.
OldBytesKept ==
  [][\A p \in Paths :
       \/ IsPrefix(files[p].data, files'[p].data)
       \/ \E j \in On(p) : MayLose(j)
       \/ Reports(p)]_vars

\* A download that ends well and had the file for itself leaves an exact copy
\* of what the URL yields, whether it starts from nothing, overwrites, or
\* completes the beginning an earlier, interrupted download has left and whose
\* length an int can hold.
ExactCopy ==
  [][\A j \in Jobs :
       (/\ job[j].stage = "open" /\ job'[j].stage = "done"
        /\ job[j].solo
        /\ job[j].continue => /\ job[j].found
                              /\ Len(job[j].start) <= IntMax
                              /\ IsPrefix(job[j].start, Copy(job[j].source)))
       => files'[job[j].path].data = Copy(job[j].source)]_vars

=============================================================================
