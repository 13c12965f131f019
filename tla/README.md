# Models of five dockapps: wmget, wmcliphist, wmmp3, wmppp, wmtetris

The repository is a collection of about a hundred Window Maker dockapps. Most
of them are gauges and clocks: one process, one loop, no state that outlives a
redraw. The five modelled here keep state that a sequence of events can spoil:

- `src/wmget`, a download manager made of one long-lived dock process, a child
  process per download, and short-lived client processes. They share a memory
  segment without locks, a socket in the file system, and the files they write.
- `src/wmcliphist`, a clipboard history: a bounded list with locks, a selection
  that other programs take and give, dialogs with main loops of their own, and
  a file that outlives the session.
- `src/wmmp3`, a player front end: a main loop interrupted by the handler of
  `SIGCHLD`, which itself starts the next player.
- `src/wmppp.app`, a dial-up button: child programs that end in any order
  around a loop that looks at the line once a second.
- `src/wmtetris`, a game whose board is written without a test.

`PROJECT.json` lists every dockapp of the repository, with the reason it is
left out or the module that models it.

Contents: [the system](#the-system) · [modules](#modules) · [runs](#runs) ·
[fairness](#fairness) · [abstractions and bounds](#abstractions-and-bounds) ·
[proofs](#proofs) · [divergences](#divergences-between-code-and-documents) ·
[not modelled](#not-modelled) · [plan](#plan)

## The system

### wmget

```
   user ── clicks, selection ──> X server
                                    │ X connection
   wmget URL / list / cancel        v
      │  ~/.wmget.iq     ┌──────────────────────┐  fork   ┌──────────────┐
      └────────────────> │ wmget dock           │ ──────> │ child of a   │──> target file
          one command,   │  dockapp_run         │         │ download     │──> .ERROR file
          one answer     │  job_queue (private) │         │  retrieve()  │
                         └─────────┬────────────┘         └──────┬───────┘
                                   └── shmem->jobs[4], no lock ──┘
```

| part | code | state it keeps | operations |
| --- | --- | --- | --- |
| scheduler | `server.c` | `shmem->jobs[4]` (shared), `job_queue[20]`, `next_job_id`, `bar_selected` | `process_queue`/`start_job` (timer), `process_get`, `process_cancel`, `process_list` (socket), `on_click_pbar`, `on_click_stop`, `on_got_selection` (mouse) |
| download | `retrieve.c` | the slot it was forked for, its target file | `retrieve`, `progress_callback`, `write_error_file` |
| target files | `init_job` in `server.c`, `retrieve.c` | the files of the user | resolve, refuse, choose an offset; later open and write |
| main loop | `dockapp/da_run.c`, `dockapp/da_x.c` | timer, table of descriptors, events in the X socket and in the queue of Xlib | `dockapp_run`, `da_xfd_callback`, `da_redraw_icon`, `da_receive_selection` |
| request socket | `iq.c`, `request.c`, `list.c`, `cancel.c` | the name `~/.wmget.iq`, the listening socket and its backlog | `iq_server_init`, `iq_server_accept`, `iq_client_connect`, `on_iq_ready` |
| commands | `request.c`, `process_request` in `server.c` | none | quoting, unquoting, dispatch |
| display | `draw_pbars` in `server.c`, `da_mouse.c` | the regions that can be clicked | draw bars and percentages, find the region |
| configuration | `configure.c` | read once at start | options, resource file |

How they interact:

- **dock and child** meet only in a job slot. The dock fills it and forks. The
  child writes `J_RUNNING`, `J_STOPPING`, `J_COMPLETE` and finally `J_EMPTY`,
  which is the only way the dock learns that it has ended (`SIGCHLD` is
  ignored). The dock raises `stop_request`, which the child polls in the
  progress callback of curl.
- **dock and client** speak over one connection, one command and one answer,
  all inside `on_iq_ready`: a client that says nothing holds up the whole dock.
- **dock and X server**: events wait on the socket, which `poll` watches, or in
  the queue of Xlib, which it does not.
- **children and the socket**: a forked child inherits the listening socket of
  its dock and keeps it alive after the dock has gone.
- **children and each other** meet in target files. The check of a target is
  made by the dock when the request comes, the file is opened by the child when
  the job gets a slot.

What is hard: a slot handed over while somebody still writes to it; a stop
request that outlives its job or comes just too late; a queue at its limit; a
child or a dock that is killed; a file that has changed between check and use;
two writers of one file; a timer that runs out between two looks at the clock;
events that were read but not handled; two docks starting at once; a client
that disappears before its answer. `hazards` in `PROJECT.json` names each with
its line and the properties aimed at it.

What makes each part correct, in one sentence: every accepted job is at exactly
one place, one child owns each slot and every slot comes back (scheduler); a download gives an exact
copy and destroys nothing it was not allowed to (targets); no event or
connection is lost, and the timer keeps firing (loop); a dock that runs can be
reached, and a client waits for ever only for an orphaned download or behind a
client that says nothing (socket).

### The other four

| part | code | state it keeps | operations | what makes it correct |
| --- | --- | --- | --- | --- |
| clipboard history | `wmcliphist/{gui,history,clipboard,hotkeys}.c` | `history_items`, `num_items`, `locked_count`, `selected`, `old_content`, the data file | poll the clipboard, receive an answer (with or without a question), move, lock, save, load, exit | the counters agree with the list, a full list has an item to replace, locked items stay, a session begins with the list last saved |
| player control | `wmmp3/mpg123ctl.c` | `play_pid`, `next_song`, `current_dir`, what `SIGCHLD` does | PLAY, STOP, NEXT, BACK, the directories; the handler | one player sounds, that of `play_pid`; the handler waits for no song; songs follow one another |
| dial-up button | `wmppp.app/wmppp.c` | `starttime`, `waittime`, the LED, `start_child`, `stop_child` | one turn of the loop in stages, clicks, the end of the window | the LED tells the truth, one hang-up program at a time, the window closes |
| game | `wmtetris/wmtetris/wmtetris.c` | board, figure, next figure, score | fall, land, clear a row, new figure, move, turn | the board is never written outside, all full rows go and nothing else |

What is hard in them: an answer of the clipboard that comes when the clipboard
has changed hands; a text freed by a second selection while a dialog about the
first is open; a list that was saved under a larger limit; a save cut short; a
signal between the test of `play_pid` and the line that ignores the signal;
programs that end before, after or instead of the event they cause; rows that
move while they are counted.

## Modules

| module | models | kind |
| --- | --- | --- |
| `WmgetJobs` | scheduler and children | detailed model |
| `WmgetPool` | what the manual promises of accepted jobs | abstract specification |
| `WmgetTarget`, `MCWmgetTarget` | target files; their small instance | detailed model, MC |
| `DaLoop` | `dockapp_run` and the X callback | detailed model |
| `WmgetIq` | the socket, across docks, children, clients | detailed model |
| `Cliphist` | the clipboard history, across sessions | detailed model |
| `WmMp3`, `MCWmMp3` | player control and its signal handler; their small instance | detailed model, MC |
| `WmPpp` | the main loop of wmppp, its programs and the line | detailed model |
| `WmTetris` | the game | detailed model |
| `WmgetTargetClaims`, `DaLoopClaims`, `CliphistClaims`, `WmPppClaims` | one sentence each of a document the code does not live up to | refuted by a run |
| `WmgetJobsProofs`, `WmgetTargetProofs`, `DaLoopProofs`, `WmgetIqProofs`, `CliphistProofs`, `WmMp3Proofs`, `WmPppProofs`, `WmTetrisProofs` | theorems about the models, one module each | proofs |

In every model module a definition whose comment begins with "Mutation:" is not
part of the behaviour. It is a plausible wrong version of the definition that
follows it, kept to show that the property it belongs to would notice.

**WmgetJobs.** `shm` is `shmem->jobs`, reduced to id, status and stop request;
`queue` is `job_queue[0 .. job_queue_depth-1]`; `pc` and `at` say which loop the
dock is in and which slot it has reached; `proc[j]` and `slotOf[j]` are the
child of job `j` and its `Job` pointer. The dock is one thread, but its loops
touch the shared segment several times, and a child may write in between. So
`process_queue` is `Periodic`, then one `SkipSlot`, `StartJob` or `ForkFails`
per slot, then `QueueScanned`; `cancel_job` is `CancelActive` (the test of the
status) and `CancelRaise` (the increment), or `CancelQueued`; `process_list` is
`ListStart`, `ListTest`, `ListPrint`, `ListQueue`. Everything that touches the
segment at most once is one action: `Get`, `Paste`, `PasteWhenFull`, and the
three places of a row that can be clicked (`ClickBar`, `ClickButton`,
`ClickEdge`), where the stop region overlaps the bar and reaches past it. The
child is `OpenFails` or `BeginTransfer`, `Abort`, `TransferEnds`, `Release`;
`Killed` is a signal from outside. `asked` is a history variable.

**WmgetPool** knows three sets: waiting, active, over. `WmgetJobs` maps its
queue to waiting, its live children to active, and everything that has ended to
over; slots, statuses, loops and clicks disappear. `ImplementsPool` states the
refinement.

**WmgetTarget.** `Request` is `init_job`: resolve the target (`Resolve`), refuse
it (`Refuses`, `ModeAllows`), fix the offset (`ResumeAt`). The offset is the
size of the file put into an `int`: `AsInt` wraps it at `2 * (IntMax + 1)`, so
that it may come out negative or 0, and 0 means to start afresh. `Open`,
`Receive`, `Finish`, `Fail`, `OpenFails` and `Interrupt` are `retrieve`;
`Begins` is what a negative offset means to curl, and `Fail` writes the report
into `ErrorOf[path]`, whatever that file was, if it can be opened at all. A byte
is `<<source, index>>`, so a file tells where each byte of it came from. An
accepted job may open its file at any later time: that over-approximates every
schedule of `WmgetJobs`.

**DaLoop.** `pc` follows the body of `dockapp_run`; `left` and `wait` are its
timer and the timeout it gives to `poll`, whose computation looks at the clock a
second time. `wire` and `xq` are the two places events wait at: a redraw, `XSync`
and every answer the X server is asked for (`RoundTrip`) move all that is on the
first to the second. The environment is `Send`, `Move`, `Connect` and `Tick`.

**WmgetIq.** `iq_server_init` is `Refused` or `ProbeFails`, then `Unlink`,
`Bind`, `Listen` (together `Starts`): four system calls that other processes can
come between. `Accept`, `Answer`, `EndOfFile` and `AnswerNobody` (`Serves`) are
`on_iq_ready`; `Fork` and `KidEnds` are downloads as far as the socket is
concerned; `Connect`, `SendCommand` and `Leave` are the clients.

**Cliphist.** The list is the sequence `items` of its texts, newest first, and
the set `locked`; `num` and `lockedCount` are the program's own counters, which
decide independently of them. `Learn` is `process_item`: `Promote`, `Insert` or
`Replace`, then `TakeUp` when `auto_take_up` is set, then `Retake`, which
`my_get_selection_text` adds. A poll is two steps, `Ask` and one of
`ReceiveNothing`, `ReceiveOld`, `ReceiveNew`, `ReceiveAsked`: the answer is that
of the owner at the time of `Ask`. The last opens a dialog; `Answered` goes on
in the innermost one, and `Freed` is what became of the texts of the outer ones.
Sessions end with `Exit`, `Stop`, `Decline` or `Abort` (every way the program
crashes is collected there), begin with `Start`, which is `history_load`, and
share the clipboard and the file. `saved` and `largest` are history variables.

**WmMp3.** The main program is followed statement by statement where the
handler can tell the difference: `Pick`, `Fork`, `Assign`, `Count`, `Install` are
`play_next`, `Ignore` and `Kill` are `stop`, and between any two of them
`Deliver` may call `signal_play`, whose body is `SignalPlay`. A song is its
place in its directory. Players end (`SongEnds`), or are stopped and continued
from outside (`Suspend`), which raises `SIGCHLD` as well: `signal` installs the
handler without `SA_NOCLDSTOP`. A signal that comes while the handler runs is
delivered when it ends. `fork` may fail (`Failed`). Two history variables mark
what the properties do not speak of: `early`, a player's signal came before the
`play_next` that started it was over; `paused`, the handler was told of a stop
or a continuation.

**WmPpp.** A turn of the loop is `Top` (time, one `waitpid`), `Detect` (the
interface, once a second), `Expire` (the yellow LED), the clicks, and `Sleep`.
Programs end by themselves in `ProgramEnds`, with the exit status 10, another
one, or a signal; `CloseWaits` and `Exit` are the end of the window.
`Exec` is `execCommand`, which may return a process, -1 or 0, and `Waited` is
what `waitpid` may return: an ended program, 0 while all run, or -1 when there
is none, which the loop takes for the end of a program that could not be
forked.

**WmTetris.** The board is the set of its filled cells. `ClearRow` is one
iteration of the loop that moves rows down; `Rotate`, `Move` and `NextTurn` are
what may happen until the next `Fall` or `Land`.

## Runs

| run | instance | distinct states | shows |
| --- | --- | --- | --- |
| `jobs` | 2 slots, queue of 2, 3 jobs, 1 fault, fair | 352 212 | each child owns its slot; each job at one place; status agrees with the child; only who was asked to stop has a stop request; at most `MaxActive` downloads; an occupied slot has its child or a fault; slots change hands only after their child has ended; the life cycle of a slot; refinement of the pool; a stop request ends its child; an empty slot is filled while jobs wait |
| `target` | 2 requests (symmetric), 1 URL of 2 bytes, 3 paths, an `int` of at most 2, 24 initial file systems | 217 204 | what was in a file is kept unless its download may overwrite, or the file is the error file of a failed one; a download that had its file to itself is an exact copy |
| `loop` | timer of 2 ticks, 1 tick between the two looks, 2 events, 1 client, fair | 53 680 | no event lost, doubled or overtaken; the timer keeps firing; clients are accepted; events are handled if the pointer keeps moving |
| `iq` | 3 docks one after another, 2 clients, backlog of 5, fair | 35 104 | a start that passed the test succeeds; a running dock is reachable; a client waits for ever only for an orphaned download or behind a silent client |
| `cliphist` | 3 texts (one ignored, one asked about), 1 or 2 items to keep, 1 answer and 1 dialog at a time | 2 101 680 | the counters agree with the list; a full list has an unlocked item unless it was loaded into less room; the item offered is the newest; locked items stay; a session starts with the list last saved |
| `mp3` | directories of 2, 0 and 1 songs, 3 process numbers, fair | 181 868 | `play_pid` is the one player that sounds; the handler waits for no song unless one is stopped or continued; a song that ends is followed by the next |
| `ppp` | 3 process numbers, a timeout of 2 s, turns of up to 2 s, fair | 990 743 | the LED tells the state of the line; one hang-up program; the window closes unless a program was lost |
| `tetris` | 5 by 5, figures I, T, O, score up to 4 | 1 043 682 | the figure is always on free cells of the board; one pass clears all full rows and moves the others by as much as is meant |
| `claim_overwrite`, `claim_clicks`, `claim_only_copied`, `claim_redial` | smallest instance that shows it | | refuted, see [divergences](#divergences-between-code-and-documents) |

Why the bounds are enough.

- `jobs`: two slots let one be emptied, scanned or refilled while the other is
  in any state; three jobs let one slot be used twice, or both be in use while a
  job waits; a queue of two can be full, and can have its older or its younger
  entry cancelled. One fault gives every position of a single failed fork or
  killed child. The theorems remove these bounds for safety.
- `target`: two requests for one file disturb each other in every order of
  their checks, openings, bytes and ends, and a second request can continue or
  overwrite what the first has left, or name the error file of the first
  (`e1`); two bytes give an empty, a partial and a complete file. An `int` of at
  most 2 wraps at 6: the initial file systems have at the default path nothing,
  a partial copy, a complete copy, something else of a length that an `int`
  holds, that it makes negative (5) and that it makes 0 (6), a foreign writable
  file, one with misleading mode bits, or a directory, the latter with each of
  the others in it; the former with and without an old file at `e1`. Longer
  chains of requests are left to the theorems, which hold for any number of
  requests, files and bytes.
- `loop`: two events of every kind cover an event that is left behind by the
  early return after another, and an `Expose` that a redraw takes out from
  under it. That none is lost or overtaken is proved for any number.
- `iq`: three docks give a running one, one that has left a child behind, and
  one that starts; at most two probes and two clients wait at a time, so the
  backlog of five never fills. `Race = FALSE` keeps two docks from starting at
  once. What happens otherwise is under
  [divergences](#divergences-between-code-and-documents). The theorems remove
  the bounds; `RunningIsReachable` assumes that no test for a running dock meets
  a full backlog.
- `cliphist`: with one or two items to keep, sessions follow one another with
  more, less and the same room; a list of two can have either item replaced,
  moved or locked. One dialog and one answer are enough for a text to be
  learned while a question about another is open. The theorems remove these
  bounds.
- `mp3`: a directory that can be played through, an empty one that play_next
  falls through, and a last one; three numbers are a player that dies, the one
  the handler starts and the one that follows; more forks fail, as they may
  anyway. Safety is proved without them.
- `ppp`: three programs are one of each kind; when all three numbers are in use
  forks fail, as they may anyway. Turns of up to two seconds can jump over the
  timeout.
- `tetris`: five columns let two bars and a column fill a row, five rows let two
  and more be filled at once under a figure that lands above them; a score of
  four is two rows at once. All its safety is proved for every board and figure.

`CHECK_DEADLOCK FALSE` is set in every configuration because the system may
stop: a dock quits, its requests are used up, a window is closed, a game ends.

## Fairness

- `WmgetJobs`: the steps of the dock inside a loop are weakly fair, since the
  process runs. `Periodic` is strongly fair: other requests may come between,
  but `dockapp_run` looks at the timer before each `poll`. This is only true if
  the loop's two looks at the clock are at most a millisecond apart (`Slip = 1`
  in `loop`, where `TimerFires` holds). Children run; curl calls the progress callback again and
  again, so `Abort` is weakly fair. Only *aborted* transfers are assumed to end: no run
  assumes that the network finishes a download, here or in `WmgetIq`. Nothing makes a user click,
  a client send, or a process die.
- `DaLoop`: the loop runs and time passes. `Send`, `Move`, `Connect` and
  interrupted polls are never required. `EventsHandled` has the condition it
  needs in its statement: the pointer keeps coming back.
- `WmgetIq`: a running dock goes on with its socket (`Serves`), and that is all:
  `retrieve.c` gives curl no timeout, so no download has to end, no client that
  has connected has to send or leave, and no dock has to start, quit or die.
  `NoClientLeftWaiting` therefore names the two ways in which a client may wait
  for ever: its dock has gone and one of the dock's downloads goes on with the
  socket (`Orphaned`), or the dock reads from a client that says nothing
  (`Silenced`). Without either exception the run fails.
- `WmMp3`: the main program and the handler go on when they can. No song has to
  end, no stopped player has to be continued, and nobody has to click. `PlaysOn`
  excludes what follows an early signal.
- `WmPpp`: the loop turns, and every program ends some day: the property is about
  closing the window, which waits for the programs on purpose. No line comes up
  and nobody clicks.
- `Cliphist` and `WmTetris` have safety properties only: nothing in them waits
  for anything but the user.

## Abstractions and bounds

- `stop_request` is a counter nothing but its being zero is read of: a Boolean.
- `MaxJobs`, `MaxFaults`, `MaxEvents`, `MaxClients` and `Slip` bound counters of
  the environment, `Size` the length of a download. They are constants with
  named assumptions.
- The double `free` in `on_got_selection` either aborts the dock or seems to do
  nothing (`PasteWhenFull`).
- `event.xany.window` is read before it is set in `da_redraw_icon`; `Redraw` and
  `Expose` let every or no `Expose` event be taken out.
- An answer of the X server moves all that is on the socket to the queue of Xlib
  (`RoundTrip`); the atom that a middle click asks for may be known already.
- Mere motion has no case in `da_xfd_callback`: it wakes `poll` and is left out
  of the queue.
- stdio buffers between curl and the file are not modelled: a byte that has been received
  but not flushed is one not received yet.
- Creating a file always succeeds where there is none; directories stay
  directories; nobody but wmget touches the files. A report of a failure is one
  byte. That `.ERROR` is cut from a name that gets too long is an error file
  that may be any path (`ErrorOf`).
- URLs yield the same bytes whenever they are fetched, all of them have the same
  length.
- `Cliphist`: a text belongs to one menu, so `menu_item_exists` is a test of the
  text. A freed text reads as `Garbage`. A save that fails is no step; one whose
  `fclose` loses what was buffered is `WriteShort`. `MaxReplies` and
  `MaxDialogs` bound what is under way.
- `WmMp3`: every directory can be read; the random order permutes songs behind
  their places and is left out, and with it what `mpg123ctl.c:180` reads of
  `rand_song_num` when there are no songs (see the divergences).
- `WmPpp`: time is what is left of `waittime`; statistics and speed are drawn
  only. `Pids` bounds the programs at a time. A command that is not configured
  does what an empty one does (`Exec` gives 0). When there is no process to wait
  for, `waitpid` leaves `status` as it was: it may be any.
- `WmTetris`: colours and fast mode are left out; `MaxScore` ends the run.
- In `WmgetIq` a child is one Boolean per dock: the number of children that hold
  the socket does not matter, that there is one does.

## Proofs

All eight models are proved about, each for every value of its constants that
its named assumptions allow. Every safety property that a run checks is the
subject of a theorem. `NoFullRows` of `WmTetris` is proved and is not a property
of the run: `RowsCleared`, which is, says more of the same loop.

**WmgetJobs**, for any number of slots, any length of the queue, any number of
jobs and of faults:

| theorem | property | argument |
| --- | --- | --- |
| `TypeCorrect` | `TypeOK` | inductive by itself; `Front`, `Last` and `RemoveAt` need lemmas about sequences |
| `Invariance` | `IInv` | the inductive invariant, below |
| `ChildOwnsSlot`, `NoJobLost`, `StatusTellsStage` | `SlotOwnership`, `Accounted`, `StatusShowsStage` | conjuncts of `IInv` |
| `OnlyAskedJobsStop` | `StopOnlyIfAsked` | a second invariant, `StopInv`, on top of `IInv` |
| `SlotsAreFreed` | `SlotsComeBack` | inductive on top of `IInv`, slot by slot: what fills a slot makes its child or is a failed fork, and only the child empties it |
| `NeverMoreThanMaxActive` | `AtMostMaxActive` | `slotOf` is an injection of the live children into the slots |
| `HandoverIsSafe` | `SlotHandover` | only `TakeFromQueue` changes an id, and it needs an empty slot, which no live child has |
| `LifeCycleHolds` | `LifeCycle` | the stage of the child fixes the status it overwrites |
| `DockImplementsPool` | `ImplementsPool` | each step is a step of the pool or a stutter; `QueuedFits` and `RoomForOne` count |

`IInv == TypeOK /\ Accounted /\ SlotOwnership /\ StatusShowsStage`.
`SlotOwnership` alone is not inductive: when the dock starts a job it must be
known that this job has no child already, which is `Accounted` (a queued job's
process is "none", and it is queued once). `Accounted` is not inductive without
the queue being duplicate free, which is one of its parts. `StatusShowsStage`
says that a live child's status matches its stage. `LifeCycle` and the
unreachability of `J_FAILED` follow from it; the latter means that two branches the code has for
failed jobs (waiting for an acknowledgement, and `cancel_job` marking them
complete) never run.

`StopInv` adds that a dock between the test and the increment of `cancel_job`
still finds the job in the slot, though perhaps empty by now: no other thread of
the dock could have refilled it.

**WmgetTarget**, for any requests, URLs, paths, lengths and old files:

| theorem | property | argument |
| --- | --- | --- |
| `TypeCorrect` | `TypeOK` | inductive by itself; `Append` and `WriteAt` keep sequences of bytes, `AsInt` gives integers (`IntOf`) |
| `OldBytesStay` | `OldBytesKept` | from `KeepInv`, below |
| `CopiesAreExact` | `ExactCopy` | from `SoloInv`, below |

Both hold for files of any length and any largest `int`. `KeepInv` bridges the
time between `init_job` and `retrieve`: a live job that will not append may lose
what is there (`MayLose`: its request allows it, or found a number of bytes that
an `int` takes for none), or waits for what was a directory when it was
requested and, since directories stay directories, cannot be opened. `SoloInv`
follows a job that has been alone on its file since its request: no other live
job writes the file, as its target or as its error file; until it is opened the
file is as it was found; from then on it is what was there followed by what has
been received, or only the latter. For a length that an `int` holds the offset
is that length, and the bytes that follow it complete the copy. What a failed
download does to another file, its report, is the exception `Reports` of the
first property, and ends the solitude of whoever downloads to that name in the
second. `OldFilesAssumption` says that where no file is there are no bytes:
without it `OldBytesKept` would be false, as `fopen` makes a new file.

**DaLoop**, for any interval, slip, number of events and of clients:
`TypeCorrect` (`TypeOK`) and `NoneLostOrOvertaken` (`EventsInOrder`). The
invariant is `TypeOK /\ Connected /\ EventsInOrder`; `Connected` says that a
callback collected for the listening socket has a connection to accept, which
`TypeOK` needs. Steps move events from the socket to the queue of Xlib and from
there to the handlers, and leave out motion and expose events, so the proof is
about concatenations (a round trip moves like a redraw that finds nothing to
take out): `WithoutConcat` (what is kept of a whole is what is kept of
its parts), `WithoutTwice` (leaving out twice is leaving out once).

**WmgetIq**, for any docks and clients:

| theorem | property | hypotheses |
| --- | --- | --- |
| `TypeCorrect` | `TypeOK`: a connection waits only on a socket somebody holds, and no waiting client's connection is lost | none |
| `StartAlwaysSucceeds` | `StartSucceeds` | `~Race`: docks start one after another |
| `RunningIsReachable` | `RunningReachable` | `~Race`, and no test meets a full backlog (`TestTells`) |

`TypeOK` is the safe half of `NoClientLeftWaiting`: a client that waits is being
served or is in the backlog of a socket that a dock or one of its children
holds, so there is always somebody whose step, or whose end, lets it go on
(which need not come: see [fairness](#fairness)). Both hypotheses of the others
are necessary: two docks that start at a time both run, and a full backlog
refuses the test of a third (see the divergences). `StartInv` is
what `~Race` gives: at most one dock is between its test and `listen`, the name
is free after `unlink` and its own after `bind`. `RunInv` adds that no dock runs
while one starts. It needs the test: a test that fails when there is room means
that nobody holds the socket behind the name, so that no dock runs, since every
dock that runs has the name. That the test tells is a hypothesis the code does not
enforce: with a full backlog it fails and a second dock takes the name.

**Cliphist**, for any texts, any numbers of items to keep and any number of
sessions: `TypeCorrect`, `CountersHold`, `RoomIsLeft`, `NewestIsOffered`,
`LockedAreSpared`, `SessionRestores` prove the six properties of its run. They
share one invariant, `IInv == ListOK /\ ClipOK /\ PollOK /\ FileOK`. The
properties of the list are not inductive across sessions: a session begins with
what the file holds. So `FileOK` says of the file what `ListOK` says of the list
(no text twice, fewer locked records than `largest`), and that it is
`Records(Reverse(saved.items), saved.locked)` unless a save was cut short.
`RoomForNew` follows by counting: a full list has `keep` different texts, fewer
than `largest` of them are locked. `LearnStep` is the central lemma: whatever
`process_item` does with a text, `ListOK` and `ClipOK` hold again and no locked
item is gone. Texts that were freed are covered too: they are texts that may be
learned like others.

**WmMp3**, for any list of directories and any process numbers: `TypeCorrect`,
`OnePlayer` (`PidIsPlayer`), `HandlerNeverWaits` (`HandlerReturns`). The
invariant `Claims` has two parts, and claims nothing after an `early` signal.
`Calm` has a conjunct for the places of the main program: which process may
sound there, what `play_pid` says, and where a signal may be on its way; it
holds whoever stops, continues or kills players, and `OnePlayer` follows from
it. `Prompt` says that a signal on its way or being handled is that of the end
of the player of `play_pid`, and that never two are; it holds until a player is
stopped or continued under the handler (`paused`), and gives
`HandlerNeverWaits`. Without that condition the latter is false: see the
[divergences](#divergences-between-code-and-documents).

**WmPpp**, for any timeout and any process numbers: `TypeCorrect`, `LedIsTrue`
(`LedTellsLine`), `NoSecondStop` (`OneStopProgram`, from the invariant that a
running hang-up program is the one of `stop_child`).

**WmTetris**, for any board of at least 5 by 4 and any of the seven figures:
`FigureStaysOnBoard` (`FigureFits`), from `TypeOK` and the invariant that the
figure is placed; `RowsAreCleared` (`NoFullRows`), from the invariant that the
loop leaves no full row above the one it has come to; `LoopCollapses`
(`RowsCleared`), from `Clearing`: the rows from the loop's row on are still as
the figure left them, `progress` counts the full ones above it, and unless the
figure landed in the top row the board is the landed one closed up so far. A
round of the loop adds at most one row to the count.

*Lemmas about data.* What `Front`, `RemoveAt`, `Cons`, `Append` and `Reverse` do
to the elements of a sequence without repetitions is proved without induction,
in the modules that need it. `DaLoop` does need induction over sequences, which
the library's theorems cannot give here, since their parameter is a formula.
`NatSetInduction` and `SeqSetInduction` of `DaLoopProofs` quantify over a set
instead, that of the values for which the formula holds, and follow from the
existence of a smallest element in a set of numbers.

Model-checked only: all liveness (`StopHonoured`, `SlotsServed`, `TimerFires`,
`ClientsServed`, `EventsHandled`, `NoClientLeftWaiting`, `PlaysOn`,
`CloseEnds`), because fairness and `ENABLED` are out of the reach of the prover.

## Divergences between code and documents

With a run that exhibits them (`findings` quotes both sides):

| run | what the code does |
| --- | --- |
| `claim_overwrite` | wmget: a second request for the same file, accepted while it was absent, empties what the first has fetched |
| `claim_clicks` | wmget: a click can stay in the queue of Xlib until something else happens |
| `claim_only_copied` | wmcliphist: a selection that arrives while a question is open frees the text the question is about, which then goes into the list |
| `claim_redial` | wmppp: the redial program is run although the user has hung up, when the line outlives the click by a turn |

Seen while modelling, without a run of their own.

wmget:

- `server.c:320`: the youngest waiting job is started first, where
  `wmget.1.in:70` has requests queue up (`TakeFromQueue`).
- `server.c:1023`: pasting a URL while the queue is full frees the job twice
  (`PasteWhenFull`).
- `server.c:599`, `server.c:647`: `--continue` on a file that is not there skips
  its first byte: `continue_from` is a flag and an offset at once (`ResumeAt`).
- `server.c:653`: the size of the file, an `off_t`, is stored in the `int`
  `continue_from` (`wmget.h:126`). From 2 GiB on `--continue` resumes elsewhere
  or at a negative offset, and at a multiple of 4 GiB, which comes out as 0, the
  file is opened to be emptied (`AsInt`; `MayLose` and `ExactCopy` have the
  condition).
- `retrieve.c:93`: the report of a failed download is written to the name of the
  target followed by `.ERROR` without a look at what is there: an existing file
  of that name is emptied, and another download may be writing to it (`Fail`).
- `da_run.c:206`: if more than a millisecond lies between the two looks at the
  clock, the timeout can be negative and the timer stops for good (`SetTimeout`
  with `Slip` above 1).
- `iq.c:169`: two docks started at the same time both pass the test at line 163
  and both run, the first unreachable (`Race = TRUE`).
- `server.c:812`: `process_list` tests a status and `client_list_job` reads it
  again; a job that ends in between is listed as "UNKNOWN: Internal Error!",
  where `wmget.1.in:110` promises its status. Both reads are in `WmgetJobs`.
- `server.c:314`: "If a job has finished, pull it from its slot" (comment, line
  303); nobody pulls out a child that was killed, or one that could not be
  forked. `Killed` and `ForkFails` leave the slot occupied for good.
- `retrieve.c:121`: a target that cannot be opened leaves no `.ERROR` file,
  against `wmget.1.in:91` (`OpenFails`).
- `server.c:573`: an absolute `--output` is noted and then ignored, against
  `wmget.1.in:141` (`Resolve`).
- `da_run.c:202`: what the periodic callback returns is dropped, against
  `dockapp.h:42`: a dock that cannot fork goes on (`TimerDue`).
- `da_x.c:92`: a selection that is empty never calls back, against
  `dockapp.h:147` (`Selection`).
- `iq.c:159`: the probe for another dock does not block, so with a full backlog
  it fails and a second dock takes the name (`ProbeFails` with a small `MaxPending`).
- `server.c:925`: `SIGPIPE` is not handled, so a client that leaves before its
  answer takes the dock with it (`AnswerNobody`).
- `server.c:275`: children keep the listening socket; while one of them lives
  after its dock has quit, a new dock is refused (`Refused`) and clients wait
  (`KidEnds`).
- `da_run.c:105`: `dockapp_remove_pollfd` does not decrement the count. wmget
  never calls it.
- `request.c:47`: `enquote_strdup` counts the characters to quote with
  `strcspn`, which stays where it is at one: a text with such a character is
  never sent. The text of commands is not modelled.
- `server.c:204`: `draw_pbars` reads `progress` and `prog_max` while the child
  writes one after the other. The counters are not modelled.

wmcliphist:

- `README:35` says that with the clipboard lock a new text "could not be stored
  in history too"; `my_get_selection_text` tests only `clip_ignore` before it
  stores it (`IsNews`).
- `gui.c:180`: an item that is replaced while it is `selected` leaves the
  pointer; without `auto_take_up`, locking the clipboard afterwards offers freed
  memory (`Dangling`, `Garbage`).
- `gui.c:173`: a list with all of its loaded items locked, started with a
  smaller `-n`, meets the assertion at the next copy (`NothingToReplace`,
  `Abort`; `RoomForNew` has the condition).
- `history.c:327`: what `fclose` returns is not looked at, so a full disk
  replaces the good file by a cut one (`WriteShort`).
- `wmcliphist.c:44`: closing the window saves nothing; only "Exit" does (`Stop`).
- `hotkeys.c:57`: the hotkey that runs a command uses the first item of a list
  that may be empty (`Abort`). A list of no items (`-n 0`) is not modelled.

wmmp3:

- `README:15`: without "repeat" the last directory is played for ever, "instead
  of just playing them once": there is no next directory, so the same one is
  loaded again (`NextDir`).
- `mpg123ctl.c:250`: `init_ctl` is never called, so NEXT before the first PLAY
  skips the first directory (`Init`, `Chosen`).
- `mpg123ctl.c:160`: a player that ends before `fork()` has been assigned, or
  before the handler is installed, leaves `play_pid` with a number nobody has;
  PLAY does nothing, a second player may sound beside it, and a missing
  `mpg123` forks again and again (`early`).
- `mpg123ctl.c:225`: the handler may find no song inside `stop`, after the test
  of `play_pid`: `kill (0, ...)` goes to the whole process group (`KillGroup`).
- `mpg123ctl.c:153`: `SIGCHLD` also comes when a player is stopped or continued,
  as `signal` (lines 191 and 214) does not exclude that. The handler then waits
  for that song to end, with the window dead; its end leaves a signal behind,
  for which the handler waits through the next song, and so on for ever
  (`Suspend`, `Deliver`, `SignalPlay`; `HandlerReturns` has the condition).
- `mpg123ctl.c:160`: when `fork()` fails, -1 becomes `play_pid` and the song
  counts as played: STOP finds no player, PLAY refuses, since line 213 compares
  with 0, and only NEXT and BACK start a song again. If the handler cannot fork
  between the test of `stop` and its kills, they go to every other process of
  the user (`Failed`, `ClickPlay`, `KillAll`).
- `mpg123ctl.c:180`: in random order `rand_song_num[next_song]` is read before
  it is known that there is a song: past the end of an empty list, or from NULL
  when no list has been loaded. Not modelled.
- A player sounds on after the window has been closed (`Close`).

wmppp:

- `wmppp.c:509`: a start program ended by a signal is buried without clearing
  `start_child`; closing the window waits for it for ever (`Lost`).
- A second click on V while the start program runs forgets the first one
  (`ClickV`).
- `wmppp.c:683`: a stop program that could not be forked leaves -1 in
  `stop_child`. The next `waitpid` that finds no child at all returns -1, which
  counts as its end: the line is taken for down, and found up again at the next
  look (`Exec`, `Waited`, `ChildEnds`).

wmtetris:

- `wmtetris.c:119`: the top row is not emptied when a row below it is cleared:
  blocks in it are doubled, and a full top row is counted again at each landing
  (`Lowered`; `RowsCleared` and `NoFullRows` have the condition).

## Not modelled

- *wmget, text of commands and answers*: quoting, unquoting, argument names and
  limits. *Progress counters and bars*: drawing, fonts, percentages.
- *Configuration and display of all five*: resource files, options, pictures,
  menu labels and titles are read or drawn without a state of their own; they
  enter as constants.
- *curl and the network*: a transfer yields bytes, ends, fails, or is aborted.
- *`init_job`'s limits on lengths* and the copies of options that only reach
  curl.
- *`dockapp_init_gui` and removal of callbacks*, which wmget does once or never.
- *Every other dockapp*: see the notes in `PROJECT.json`. Gauges and clocks have
  no state to state properties of; a few with logic of their own are in the plan.

## Plan

Done: `WmgetJobs`, `WmgetPool`, `WmgetTarget`, `DaLoop`, `WmgetIq`; `Cliphist`,
`WmMp3`, `WmPpp`, `WmTetris`; the proofs of the safety of all of them.

1. *wmget, composition.* An abstract dock that serves each connected client
   once, implemented by `WmgetIq`; an abstract loop without Xlib's second queue,
   which `DaLoop` implements for safety.
2. *wmget, the rest of it.* `WmgetProgress`: the two counters a child writes one
   after the other while the dock draws a percentage into three characters.
   `WmgetQuote`: `enquote_strdup` against the unquoting in `process_request`.
3. *Other dockapps*: `yawmppp` (the same job as wmppp with another loop),
   `libdockapp` (events and timeouts), `wmtictactoe`, `wmcalc`, `ascd`, `wmbiff`.
