---------------------------- MODULE WmgetJobs ----------------------------
(***************************************************************************)
(* The job scheduler of the wmget dock (src/wmget/server.c) and its        *)
(* download processes (src/wmget/retrieve.c).                              *)
(*                                                                         *)
(* One dock process owns a private array of waiting jobs and shares a      *)
(* segment of MaxActive job slots with the children it forks, one child    *)
(* per download.  Nothing locks the segment: the dock scans it from its    *)
(* periodic callback, from CANCEL and LIST requests and from mouse clicks, *)
(* while each child writes the status of the slot it was given.  A child   *)
(* announces its end only by writing J_EMPTY into its slot, because        *)
(* SIGCHLD is ignored (init_grim_reaper).                                  *)
(*                                                                         *)
(* An action of the dock is atomic when it touches the segment at most     *)
(* once; process_queue, cancel_job and process_list touch it several times *)
(* and are split there.                                                    *)
(***************************************************************************)
EXTENDS Integers, FiniteSets, SequencesExt

CONSTANTS
    MaxActive,  \* MAX_ACTIVE_JOBS, slots of the shared segment (4 in wmget.h)
    MaxQueued,  \* MAX_QUEUED_JOBS, length of job_queue (20 in wmget.h)
    MaxJobs,    \* bound of the model: how many job ids are handed out
    MaxFaults   \* bound of the model: failed forks and killed children

ASSUME SizesAssumption ==
    /\ MaxActive \in Nat \ {0}
    /\ MaxQueued \in Nat \ {0}
    /\ MaxJobs \in Nat
    /\ MaxFaults \in Nat

Slots  == 0 .. MaxActive - 1
JobIds == 1 .. MaxJobs
NoSlot == -1
NoJob  == 0                     \* "Job id 0 is never valid"

\* enum JobStatus
Status == {"EMPTY", "INIT", "RUNNING", "PAUSED", "STOPPING", "COMPLETE",
           "FAILED"}

\* The part of struct Job the scheduling depends on.  stop_request is a
\* counter nothing but its being zero is ever read of: a Boolean here.
Job == [id : JobIds \cup {NoJob}, status : Status, stop : BOOLEAN]

\* A download process: in retrieve() before the transfer ("opening"), inside
\* curl_easy_perform ("transferring"), back from retrieve ("returned"), gone;
\* or why the job has none: not started, cancelled before, fork() failed.
Alive   == {"opening", "transferring", "returned"}
Process == Alive \cup {"none", "dropped", "exited", "killed", "unforked"}

VARIABLES
    shm,          \* shmem->jobs
    queue,        \* job_queue[0 .. job_queue_depth - 1], the ids in it
    nextId,       \* next_job_id
    barSelected,  \* bar_selected, the progress bar showing its stop button
    pc,           \* what the dock is in the middle of
    at,           \* the slot its loop has reached
    proc,         \* the child of each job
    slotOf,       \* the slot each job was started in: the child's Job pointer
    asked,        \* history: jobs somebody asked to stop
    faults        \* failed forks and killed children so far

dock  == <<queue, nextId, barSelected, pc, at>>
vars  == <<shm, queue, nextId, barSelected, pc, at, proc, slotOf, asked,
           faults>>

----------------------------------------------------------------------------
Down        == pc \in {"quit", "crashed"}
Live(j)     == proc[j] \in Alive
Queued      == ToSet(queue)
SlotsOf(j)  == {s \in Slots : shm[s].id = j}

\* init_shmem, and the "initial refresh" server() makes before dockapp_run.
Init ==
    /\ shm = [s \in Slots |-> [id |-> NoJob, status |-> "EMPTY",
                               stop |-> FALSE]]
    /\ queue = << >>
    /\ nextId = 1
    /\ barSelected = NoSlot
    /\ pc = "queue" /\ at = 0
    /\ proc = [j \in JobIds |-> "none"]
    /\ slotOf = [j \in JobIds |-> NoSlot]
    /\ asked = {}
    /\ faults = 0

----------------------------------------------------------------------------
(* The periodic callback: process_queue, one slot at a time. *)

Periodic ==
    /\ pc = "idle"
    /\ pc' = "queue" /\ at' = 0
    /\ UNCHANGED <<shm, queue, nextId, barSelected, proc, slotOf, asked, faults>>

\* default: and the early continue of case J_EMPTY.
SkipSlot ==
    /\ pc = "queue" /\ at < MaxActive
    /\ shm[at].status # "EMPTY" \/ queue = << >>
    /\ at' = at + 1
    /\ UNCHANGED <<shm, queue, nextId, barSelected, pc, proc, slotOf, asked,
                   faults>>

\* What start_job leaves in the slot before it forks.
Started(j) == [id |-> j, status |-> "INIT", stop |-> FALSE]

\* Mutations: the job stays on the queue; its stop_request is not cleared; a
\* slot counts as open when its download is complete.
TakeWithoutPop ==
    /\ pc = "queue" /\ at < MaxActive
    /\ shm[at].status = "EMPTY" /\ queue # << >>
    /\ shm' = [shm EXCEPT ![at] = Started(Last(queue))]
    /\ slotOf' = [slotOf EXCEPT ![Last(queue)] = at]
    /\ UNCHANGED <<queue, nextId, barSelected, asked>>
TakeWithoutReset ==
    /\ pc = "queue" /\ at < MaxActive
    /\ shm[at].status = "EMPTY" /\ queue # << >>
    /\ shm' = [shm EXCEPT ![at].id = Last(queue), ![at].status = "INIT"]
    /\ queue' = Front(queue)
    /\ slotOf' = [slotOf EXCEPT ![Last(queue)] = at]
    /\ UNCHANGED <<nextId, barSelected, asked>>
TakeWhenComplete ==
    /\ pc = "queue" /\ at < MaxActive
    /\ shm[at].status \in {"EMPTY", "COMPLETE"} /\ queue # << >>
    /\ shm' = [shm EXCEPT ![at] = Started(Last(queue))]
    /\ queue' = Front(queue)
    /\ slotOf' = [slotOf EXCEPT ![Last(queue)] = at]
    /\ UNCHANGED <<nextId, barSelected, asked>>

\* Copy the job from the top of job_queue into the empty slot; start_job.
TakeFromQueue ==
    /\ pc = "queue" /\ at < MaxActive
    /\ shm[at].status = "EMPTY" /\ queue # << >>
    /\ shm' = [shm EXCEPT ![at] = Started(Last(queue))]
    /\ queue' = Front(queue)
    /\ slotOf' = [slotOf EXCEPT ![Last(queue)] = at]
    /\ UNCHANGED <<nextId, barSelected, asked>>

StartJob ==
    /\ TakeFromQueue
    /\ proc' = [proc EXCEPT ![Last(queue)] = "opening"]
    /\ at' = at + 1
    /\ UNCHANGED <<pc, faults>>

\* fork() < 0: process_queue returns 1, on_periodic_callback dockapp_exit,
\* which dockapp_run does not look at.
ForkFails ==
    /\ faults < MaxFaults
    /\ TakeFromQueue
    /\ proc' = [proc EXCEPT ![Last(queue)] = "unforked"]
    /\ faults' = faults + 1
    /\ pc' = "idle" /\ UNCHANGED at

\* Mutation: the loop ends one slot early.
QueueScannedShort ==
    /\ pc = "queue" /\ at >= MaxActive - 1
    /\ pc' = "idle"
    /\ UNCHANGED <<shm, queue, nextId, barSelected, at, proc, slotOf, asked,
                   faults>>

QueueScanned ==
    /\ pc = "queue" /\ at = MaxActive
    /\ pc' = "idle"
    /\ UNCHANGED <<shm, queue, nextId, barSelected, at, proc, slotOf, asked,
                   faults>>

----------------------------------------------------------------------------
(* Requests for a download that init_job has accepted. *)

\* Mutation: one job too many.
InsertOneMore ==
    /\ Len(queue) <= MaxQueued
    /\ nextId <= MaxJobs
    /\ queue' = Append(queue, nextId)
    /\ nextId' = nextId + 1
    /\ UNCHANGED <<shm, barSelected, pc, at, proc, slotOf, asked, faults>>

\* insert_job below MAX_QUEUED_JOBS.
Insert ==
    /\ Len(queue) < MaxQueued
    /\ nextId <= MaxJobs
    /\ queue' = Append(queue, nextId)
    /\ nextId' = nextId + 1
    /\ UNCHANGED <<shm, barSelected, pc, at, proc, slotOf, asked, faults>>

\* process_get turns a request away before insert_job when the queue is full.
Get == pc = "idle" /\ Insert

\* on_got_selection has no such test ...
Paste == pc = "idle" /\ Insert

\* ... so that insert_job refuses, frees the job, and on_got_selection frees
\* it again: the allocator aborts the dock, or it runs on as if unharmed.
PasteWhenFull ==
    /\ pc = "idle"
    /\ Len(queue) >= MaxQueued
    /\ pc' \in {"idle", "crashed"}
    /\ UNCHANGED <<shm, queue, nextId, barSelected, at, proc, slotOf, asked,
                   faults>>

----------------------------------------------------------------------------
(* cancel_job. *)

\* A slot holds the job: read its status ...
CancelActive(j) ==
    /\ pc = "idle"
    /\ \E s \in SlotsOf(j) :
         /\ shm[s].status \notin {"EMPTY", "STOPPING", "COMPLETE"}
         /\ IF shm[s].status = "FAILED"
            THEN /\ shm' = [shm EXCEPT ![s].status = "COMPLETE"]
                 /\ UNCHANGED <<pc, at>>
            ELSE /\ pc' = "cancel" /\ at' = s
                 /\ UNCHANGED shm
    /\ asked' = asked \cup {j}
    /\ UNCHANGED <<queue, nextId, barSelected, proc, slotOf, faults>>

\* Mutation: the dock marks the slot itself.
RaiseStopping(s) == shm' = [shm EXCEPT ![s].stop = TRUE, ![s].status = "STOPPING"]

\* ++stop_request of a slot.
RaiseStop(s) == shm' = [shm EXCEPT ![s].stop = TRUE]

\* ... then raise stop_request, whatever the child has done in between.
CancelRaise ==
    /\ pc = "cancel"
    /\ RaiseStop(at)
    /\ pc' = "idle"
    /\ UNCHANGED <<queue, nextId, barSelected, at, proc, slotOf, asked, faults>>

\* Mutation: without the memmove.
CancelQueuedLast(j) ==
    /\ pc = "idle"
    /\ SlotsOf(j) = {}
    /\ j \in Queued
    /\ queue' = Front(queue)
    /\ proc' = [proc EXCEPT ![j] = "dropped"]
    /\ UNCHANGED <<shm, nextId, barSelected, pc, at, slotOf, asked, faults>>

\* No slot holds it: delete the first entry of the queue that names it.
CancelQueued(j) ==
    /\ pc = "idle"
    /\ SlotsOf(j) = {}
    /\ \E i \in 1 .. Len(queue) :
         /\ queue[i] = j
         /\ \A k \in 1 .. i - 1 : queue[k] # j
         /\ queue' = RemoveAt(queue, i)
    /\ proc' = [proc EXCEPT ![j] = "dropped"]
    /\ UNCHANGED <<shm, nextId, barSelected, pc, at, slotOf, asked, faults>>

----------------------------------------------------------------------------
(* process_list: the test of a slot and the status printed are two reads. *)

ListStart ==
    /\ pc = "idle"
    /\ pc' = "list" /\ at' = 0
    /\ UNCHANGED <<shm, queue, nextId, barSelected, proc, slotOf, asked, faults>>

ListTest ==
    /\ pc = "list" /\ at < MaxActive
    /\ IF shm[at].status # "EMPTY"
       THEN pc' = "print" /\ UNCHANGED at
       ELSE at' = at + 1 /\ UNCHANGED pc
    /\ UNCHANGED <<shm, queue, nextId, barSelected, proc, slotOf, asked, faults>>

\* client_list_job of a slot.
ListPrint ==
    /\ pc = "print"
    /\ pc' = "list" /\ at' = at + 1
    /\ UNCHANGED <<shm, queue, nextId, barSelected, proc, slotOf, asked, faults>>

\* client_list_job of the waiting jobs, all of them J_INIT, and the end.
ListQueue ==
    /\ pc = "list" /\ at = MaxActive
    /\ pc' = "idle"
    /\ UNCHANGED <<shm, queue, nextId, barSelected, at, proc, slotOf, asked, faults>>

----------------------------------------------------------------------------
(* Mouse clicks on row s.  The stop region is registered first and reaches *)
(* from the middle of the row past its end; the bar's covers the row.      *)

\* on_click_pbar
Toggle(s) == barSelected' = IF barSelected = s THEN NoSlot ELSE s

\* left of the stop button: the bar's region alone.
ClickBar(s) ==
    /\ pc = "idle"
    /\ Toggle(s)
    /\ UNCHANGED <<shm, queue, nextId, pc, at, proc, slotOf, asked, faults>>

\* on_click_stop; the user means the job of that row.
Stop(s) ==
    /\ RaiseStop(s)
    /\ asked' = asked \cup ({shm[s].id} \ {NoJob})

\* where the stop button is drawn: on_click_stop, then on_click_pbar.
ClickButton(s) ==
    /\ pc = "idle"
    /\ IF barSelected = s THEN Stop(s) ELSE UNCHANGED <<shm, asked>>
    /\ Toggle(s)
    /\ UNCHANGED <<queue, nextId, pc, at, proc, slotOf, faults>>

\* right of the bar: the stop region alone.
ClickEdge(s) ==
    /\ pc = "idle"
    /\ barSelected = s
    /\ Stop(s)
    /\ UNCHANGED <<queue, nextId, barSelected, pc, at, proc, slotOf, faults>>

\* DestroyNotify: dockapp_run returns and the dock exits, its children stay.
Quit ==
    /\ pc = "idle"
    /\ pc' = "quit"
    /\ UNCHANGED <<shm, queue, nextId, barSelected, at, proc, slotOf, asked,
                   faults>>

----------------------------------------------------------------------------
(* The child of job j, which works on the slot it was forked for. *)

Become(j, step, status) ==
    /\ proc' = [proc EXCEPT ![j] = step]
    /\ shm' = [shm EXCEPT ![slotOf[j]].status = status]
    /\ UNCHANGED <<dock, slotOf, asked, faults>>

\* fopen or curl_easy_init fails: retrieve returns with the slot at J_INIT.
OpenFails(j) ==
    /\ proc[j] = "opening"
    /\ Become(j, "returned", shm[slotOf[j]].status)

\* Mutation: the child clears stop_request instead of start_job.
BeginTransferResets(j) ==
    /\ proc[j] = "opening"
    /\ proc' = [proc EXCEPT ![j] = "transferring"]
    /\ shm' = [shm EXCEPT ![slotOf[j]].status = "RUNNING",
                          ![slotOf[j]].stop = FALSE]
    /\ UNCHANGED <<dock, slotOf, asked, faults>>

BeginTransfer(j) ==
    /\ proc[j] = "opening"
    /\ Become(j, "transferring", "RUNNING")

\* progress_callback sees stop_request, and makes curl give up.
Abort(j) ==
    /\ proc[j] = "transferring"
    /\ shm[slotOf[j]].stop
    /\ shm[slotOf[j]].status # "STOPPING"
    /\ Become(j, "transferring", "STOPPING")

\* Mutation: retrieve frees the slot.
TransferFreesSlot(j) ==
    /\ proc[j] = "transferring"
    /\ Become(j, "returned", "EMPTY")

\* curl_easy_perform returns: done, aborted, or in error.
TransferEnds(j) ==
    /\ proc[j] = "transferring"
    /\ Become(j, "returned", "COMPLETE")

\* Mutation: the slot is not freed.
ReleaseKeepsSlot(j) ==
    /\ proc[j] = "returned"
    /\ Become(j, "exited", shm[slotOf[j]].status)

\* Back in start_job: wait for an acknowledgement if J_FAILED, free the slot.
Release(j) ==
    /\ proc[j] = "returned"
    /\ shm[slotOf[j]].status = "FAILED" => shm[slotOf[j]].stop
    /\ Become(j, "exited", "EMPTY")

\* A signal from outside; the dock is not told.
Killed(j) ==
    /\ Live(j)
    /\ faults < MaxFaults
    /\ proc' = [proc EXCEPT ![j] = "killed"]
    /\ faults' = faults + 1
    /\ UNCHANGED <<shm, dock, slotOf, asked>>

----------------------------------------------------------------------------
Scan   == Periodic \/ SkipSlot \/ StartJob \/ ForkFails \/ QueueScanned
List   == ListStart \/ ListTest \/ ListPrint \/ ListQueue
Cancel == CancelRaise \/ \E j \in JobIds : CancelActive(j) \/ CancelQueued(j)
Mouse  == \/ Paste \/ PasteWhenFull \/ Quit
          \/ \E s \in Slots : ClickBar(s) \/ ClickButton(s) \/ ClickEdge(s)
Child(j) == \/ OpenFails(j) \/ BeginTransfer(j) \/ Abort(j)
            \/ TransferEnds(j) \/ Release(j)

Next ==
    \/ Scan \/ Get \/ Cancel \/ List \/ Mouse
    \/ \E j \in JobIds : Child(j) \/ Killed(j)

\* The dock finishes what it began; dockapp_run looks at the timer between
\* any two events, so the callback is strongly fair; a child keeps running,
\* curl calls progress_callback again and again (Abort), and a transfer comes
\* to an end, which is an assumption on the network.
Fairness ==
    /\ WF_vars(SkipSlot \/ StartJob \/ QueueScanned)
    /\ WF_vars(CancelRaise \/ ListTest \/ ListPrint \/ ListQueue)
    /\ SF_vars(Periodic)
    /\ \A j \in JobIds : WF_vars(OpenFails(j) \/ BeginTransfer(j))
    /\ \A j \in JobIds : WF_vars(Abort(j)) /\ WF_vars(Release(j))

\* Aborted transfers end by themselves; the others when the network lets them.
AbortEnds(j) == shm[slotOf[j]].status = "STOPPING" /\ TransferEnds(j)

Spec == Init /\ [][Next]_vars

FairSpec ==
    /\ Spec /\ Fairness
    /\ \A j \in JobIds : WF_vars(proc[j] = "transferring" /\ AbortEnds(j))

----------------------------------------------------------------------------
(* Properties. *)

DockStep == {"idle", "queue", "cancel", "list", "print", "quit", "crashed"}

\* Every variable has its type, and job_queue never outgrows its array.
TypeOK ==
    /\ shm \in [Slots -> Job]
    /\ queue \in Seq(JobIds) /\ Len(queue) <= MaxQueued
    /\ nextId \in 1 .. MaxJobs + 1
    /\ barSelected \in Slots \cup {NoSlot}
    /\ pc \in DockStep
    /\ at \in 0 .. MaxActive
    /\ pc \in {"cancel", "print"} => at \in Slots
    /\ proc \in [JobIds -> Process]
    /\ slotOf \in [JobIds -> Slots \cup {NoSlot}]
    /\ asked \subseteq JobIds
    /\ faults \in 0 .. MaxFaults

\* A running child owns its slot: the slot still holds the child's job and is
\* not marked empty, so the dock cannot hand it to another download while
\* retrieve() still writes progress and status there.
SlotOwnership ==
    \A j \in JobIds :
        Live(j) => /\ slotOf[j] \in Slots
                   /\ shm[slotOf[j]].id = j
                   /\ shm[slotOf[j]].status # "EMPTY"

\* The status in a slot says what the child there is doing; J_PAUSED and
\* J_FAILED, which the dock handles in several places, never occur.
Stage(step) ==
    CASE step = "opening"      -> {"INIT"}
      [] step = "transferring" -> {"RUNNING", "STOPPING"}
      [] OTHER                 -> {"INIT", "COMPLETE"}

StatusShowsStage ==
    /\ \A s \in Slots : shm[s].status \notin {"PAUSED", "FAILED"}
    /\ \A j \in JobIds :
         Live(j) => shm[slotOf[j]].status \in Stage(proc[j])

\* Every job id handed out is at one place: waiting in job_queue (once),
\* or started or cancelled; an id not handed out yet is at none of them.
Accounted ==
    /\ \A i, k \in 1 .. Len(queue) : queue[i] = queue[k] => i = k
    /\ \A j \in JobIds :
         /\ j \in Queued <=> j < nextId /\ proc[j] = "none"
         /\ j >= nextId => proc[j] = "none"

\* Only a job somebody asked to stop carries a stop request: none is left in
\* a slot for the next job, and a CANCEL never reaches another one.
StopOnlyIfAsked ==
    \A s \in Slots :
        shm[s].stop /\ shm[s].status # "EMPTY" => shm[s].id \in asked

\* "wmget will never be downloading more than four files at a time".
AtMostMaxActive == Cardinality({j \in JobIds : Live(j)}) <= MaxActive

\* A slot passes from one job to the next only when the last one has written
\* J_EMPTY there, and then its child has stopped writing.
SlotHandover ==
    [][\A s \in Slots :
         shm'[s].id # shm[s].id =>
            /\ shm[s].status = "EMPTY"
            /\ \A j \in JobIds : slotOf[j] = s => ~Live(j)]_vars

\* Nobody is told when a child ends, so a slot comes back only if each child
\* frees its own: an occupied slot has its child, running or killed, or has
\* none because fork() failed.  Nothing but a fault costs a slot.
Lost == {"killed", "unforked"}
SlotsComeBack ==
    \A s \in Slots :
        shm[s].status # "EMPTY" =>
            \E j \in JobIds : /\ slotOf[j] = s /\ shm[s].id = j
                             /\ proc[j] \in Alive \cup Lost

\* The life cycle of a job as LIST and the progress bars see it.  No step of
\* the dock or of a child ever takes a job back or past one of its stages.
Follows(status) ==
    CASE status = "EMPTY"    -> {"INIT"}
      [] status = "INIT"     -> {"RUNNING", "EMPTY"}
      [] status = "RUNNING"  -> {"STOPPING", "COMPLETE"}
      [] status = "STOPPING" -> {"COMPLETE"}
      [] status = "COMPLETE" -> {"EMPTY"}
      [] OTHER               -> {}

LifeCycle ==
    [][\A s \in Slots :
         shm'[s].status # shm[s].status =>
            shm'[s].status \in Follows(shm[s].status)]_vars

\* "clicking on that stop button cancels the download": a child whose slot has
\* a stop request comes to an end.
StopHonoured ==
    \A j \in JobIds :
        (Live(j) /\ shm[slotOf[j]].stop) ~> ~Live(j)

\* "waiting for one to complete": an empty slot does not stay empty while
\* jobs wait, as long as the dock runs.
SlotsServed ==
    \A s \in Slots :
        (shm[s].status = "EMPTY" /\ queue # << >>)
            ~> (shm[s].status # "EMPTY" \/ queue = << >> \/ Down)

----------------------------------------------------------------------------
\* The dock implements the pool of downloads its manual describes.
Pool == INSTANCE WmgetPool WITH
            Jobs      <- JobIds,
            Places    <- MaxActive,
            QueueSize <- MaxQueued,
            waiting   <- Queued,
            active    <- {j \in JobIds : Live(j)},
            over      <- {j \in JobIds : ~Live(j) /\ proc[j] # "none"}

\* "additional requests will queue up, waiting for one to complete; wmget will
\* never be downloading more than four files at a time": every step of the dock
\* and of its children is a step of the pool, or none.
ImplementsPool == Pool!Spec
============================================================================
