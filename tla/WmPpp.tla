------------------------------- MODULE WmPpp -------------------------------
(***************************************************************************)
(* The main loop of wmppp (src/wmppp.app/wmppp.c): it starts the programs  *)
(* that dial and hang up, waits for them without blocking, looks for the   *)
(* interface once a second and shows what it knows with one LED.           *)
(*                                                                         *)
(* Time is counted from the last click on V, as far as it matters: the     *)
(* seconds that are left of waittime.  Counters of packets, the speed and  *)
(* the online timer are drawn from starttime and leave the state alone; so *)
(* does a button that is pressed and released elsewhere.                   *)
(***************************************************************************)
EXTENDS Integers, FiniteSets

CONSTANTS
    Pids,       \* process numbers, the bound on the programs under way
    Timeout,    \* ORANGE_LED_TIMEOUT, in seconds
    MaxPassed,  \* bound of the model: seconds that pass in one turn of the loop
    NotWaiting  \* waittime = 0

ASSUME PppAssumption ==
    /\ Pids \subseteq Nat \ {0} /\ IsFiniteSet(Pids)
    /\ Timeout \in Nat \ {0} /\ MaxPassed \in Nat \ {0}
    /\ NotWaiting \notin Int

VARIABLES
    pc,           \* where the main loop is
    newSecond,    \* currenttime # lasttime
    starttime,    \* whether it is not 0: the line is taken to be up
    waittime,     \* the seconds left of it, or NotWaiting
    led,          \* the status LED
    start_child,
    stop_child,
    kid,          \* what each process is: a program that runs, or how it ended
    line,         \* whether the routing table has the interface
    hungUp        \* history: stop has been run since the line came up

loop   == <<starttime, waittime, led>>
childs == <<start_child, stop_child>>
vars   == <<pc, newSecond, loop, childs, kid, line, hungUp>>

Programs == {"start", "stop", "ifdown"}
\* An exit status of 10 means that the program could not be executed.
Ends     == {"ten", "other", "signal"}

Running(k) == kid[k] \in Programs
Zombies    == {k \in Pids : kid[k] \in Ends}
\* A number that fork() may return, and what it returns when it fails.
Free       == {k \in Pids : kid[k] = "none"}
Failed     == -1

Init ==
    /\ pc = "top" /\ newSecond = FALSE
    /\ starttime = FALSE /\ waittime = NotWaiting /\ led = "off"
    /\ start_child = 0 /\ stop_child = 0
    /\ kid = [k \in Pids |-> "none"]
    /\ line \in BOOLEAN
    /\ hungUp = FALSE

----------------------------------------------------------------------------
(* One turn of the loop. *)

\* What execCommand returns: the new process, -1 when there can be none, and 0
\* for an empty command.  A click without a command does the same as an empty
\* one, as nothing can have been started before.
Exec(program, k) ==
    /\ k \in Free \cup {Failed, 0}
    /\ kid' = IF k \in Pids THEN [kid EXCEPT ![k] = program] ELSE kid

\* What waitpid returns: one that has ended, 0 when all still run, -1 when there
\* is none.  Then the status is the last one, or was never set: any.
Waited == IF Zombies # {} THEN Zombies
          ELSE IF \A k \in Pids : kid[k] = "none" THEN {Failed}
          ELSE {0}
Status(k) == IF k \in Pids THEN {kid[k]} ELSE Ends

Bury(k) == kid' = IF k \in Pids THEN [kid EXCEPT ![k] = "none"] ELSE kid

TimePasses ==
    \E d \in 0 .. MaxPassed :
        /\ newSecond' = (d > 0)
        /\ waittime' = IF waittime = NotWaiting THEN NotWaiting ELSE waittime - d

\* What follows the waitpid that has returned k.  Mutation: the end of any
\* program is taken for that of stop_child.
AnyChildEnds(k, status) ==
    /\ stop_child' = IF k = 0 THEN stop_child ELSE 0
    /\ start_child' = IF k = start_child /\ status # "signal" THEN 0 ELSE start_child
    /\ starttime' = (starttime /\ k = 0)
    /\ led' = IF k = 0 THEN led ELSE "off"

ChildEnds(k, status) ==
    LET stopped == k = stop_child /\ k # 0
        failed  == k = start_child /\ k # 0 /\ status = "ten"
    IN  /\ stop_child' = IF stopped THEN 0 ELSE stop_child
        /\ start_child' = IF k = start_child /\ status # "signal" THEN 0 ELSE start_child
        /\ starttime' = (starttime /\ ~stopped /\ ~failed)
        /\ led' = IF stopped \/ failed THEN "off" ELSE led

Top ==
    /\ pc = "top" /\ pc' = "detect"
    /\ TimePasses
    /\ \E k \in Waited : \E status \in Status(k) : Bury(k) /\ ChildEnds(k, status)
    /\ UNCHANGED <<line, hungUp>>

\* Mutation: waittime goes on.
ComesUpWaiting ==
    /\ starttime' = TRUE /\ led' = "on"
    /\ UNCHANGED <<waittime, kid>>

\* The interface is there and starttime is 0.
ComesUp ==
    /\ starttime' = TRUE /\ led' = "on" /\ waittime' = NotWaiting
    /\ UNCHANGED kid

\* The interface has gone: "error", and the redial program.
GoesDown ==
    /\ starttime' = FALSE /\ led' = "err"
    /\ \E k \in Pids \cup {Failed, 0} : Exec("ifdown", k)
    /\ UNCHANGED waittime

Detect ==
    /\ pc = "detect" /\ pc' = "expire"
    /\ \/ newSecond /\ line /\ ~starttime /\ ComesUp
       \/ newSecond /\ ~line /\ starttime /\ GoesDown
       \/ (newSecond => line = starttime) /\ UNCHANGED <<loop, kid>>
    /\ UNCHANGED <<newSecond, childs, line, hungUp>>

\* waittime <= currenttime.  Mutation: waittime == currenttime.
IsNow  == waittime # NotWaiting /\ waittime = 0
IsTime == waittime # NotWaiting /\ waittime <= 0

Expire ==
    /\ pc = "expire" /\ pc' = "events"
    /\ IF IsTime THEN led' = "off" /\ waittime' = NotWaiting ELSE UNCHANGED <<led, waittime>>
    /\ UNCHANGED <<newSecond, starttime, childs, kid, line, hungUp>>

\* A click on V: dial, unless the line is up.  The start program that may still
\* run is forgotten.
ClickV ==
    /\ pc = "events" /\ ~starttime
    /\ \E k \in Pids \cup {Failed, 0} : Exec("start", k) /\ start_child' = k
    /\ led' = "wait" /\ waittime' = Timeout
    /\ UNCHANGED <<pc, newSecond, starttime, stop_child, line, hungUp>>

\* A click on X: hang up.
ClickX ==
    /\ pc = "events" /\ stop_child = 0
    /\ \E k \in Pids \cup {Failed, 0} :
         Exec("stop", k) /\ stop_child' = k /\ hungUp' = (hungUp \/ k \in Pids)
    /\ UNCHANGED <<pc, newSecond, loop, start_child, line>>

Sleep ==
    /\ pc = "events" /\ pc' = "top"
    /\ UNCHANGED <<newSecond, loop, childs, kid, line, hungUp>>

\* DestroyNotify: wait for the two programs, and leave.
Close ==
    /\ pc = "events" /\ pc' = "closing"
    /\ UNCHANGED <<newSecond, loop, childs, kid, line, hungUp>>

\* Mutation: only start_child is looked for.
CloseWaitsForStart ==
    /\ pc = "closing"
    /\ \E k \in Waited :
         /\ Bury(k)
         /\ start_child' = IF k = start_child THEN 0 ELSE start_child
    /\ UNCHANGED <<pc, newSecond, loop, stop_child, line, hungUp>>

CloseWaits ==
    /\ pc = "closing"
    /\ start_child # 0 \/ stop_child # 0
    /\ \E k \in Waited :
         /\ Bury(k)
         /\ start_child' = IF k = start_child THEN 0 ELSE start_child
         /\ stop_child' = IF k = stop_child THEN 0 ELSE stop_child
    /\ UNCHANGED <<pc, newSecond, loop, line, hungUp>>

Exit ==
    /\ pc = "closing" /\ start_child = 0 /\ stop_child = 0
    /\ pc' = "gone"
    /\ UNCHANGED <<newSecond, loop, childs, kid, line, hungUp>>

----------------------------------------------------------------------------
(* The programs and the line. *)

ProgramEnds(k) ==
    /\ Running(k)
    /\ \E e \in Ends : kid' = [kid EXCEPT ![k] = e]
    /\ UNCHANGED <<pc, newSecond, loop, childs, line, hungUp>>

LineUp ==
    /\ ~line /\ line' = TRUE
    /\ hungUp' = FALSE
    /\ UNCHANGED <<pc, newSecond, loop, childs, kid>>

LineDown ==
    /\ line /\ line' = FALSE
    /\ UNCHANGED <<pc, newSecond, loop, childs, kid, hungUp>>

Turn == Top \/ Detect \/ Expire \/ Sleep \/ CloseWaits \/ Exit
User == ClickV \/ ClickX \/ Close

Next == Turn \/ User \/ LineUp \/ LineDown \/ \E k \in Pids : ProgramEnds(k)

Spec == Init /\ [][Next]_vars

\* The loop turns, and every program ends.
FairSpec ==
    /\ Spec
    /\ WF_vars(Turn)
    /\ \A k \in Pids : WF_vars(ProgramEnds(k))

----------------------------------------------------------------------------
(* Properties. *)

TypeOK ==
    /\ pc \in {"top", "detect", "expire", "events", "closing", "gone"}
    /\ newSecond \in BOOLEAN /\ starttime \in BOOLEAN
    /\ waittime \in {NotWaiting} \cup (1 - MaxPassed .. Timeout)
    /\ led \in {"off", "on", "wait", "err"}
    /\ start_child \in Pids \cup {Failed, 0} /\ stop_child \in Pids \cup {Failed, 0}
    /\ kid \in [Pids -> Programs \cup Ends \cup {"none"}]
    /\ line \in BOOLEAN /\ hungUp \in BOOLEAN

\* "yellow means dialing, green means online, red means error" (CHANGES): the
\* LED is green exactly while starttime is set, it is yellow only with a time
\* at which it goes out, and that time never puts out a green or a red one.
LedTellsLine ==
    /\ led = "on" <=> starttime
    /\ led = "wait" => waittime # NotWaiting
    /\ waittime # NotWaiting => led \in {"wait", "off"}

\* However programs end and lines go up and down, a second hang-up program is
\* not started beside one that runs.
OneStopProgram == Cardinality({k \in Pids : kid[k] = "stop"}) <= 1

\* A start program that was ended by a signal and buried is waited for in vain.
Lost == start_child \in Pids /\ kid[start_child] = "none"

\* When the window is closed, wmppp goes as soon as its programs have, unless
\* one of them is lost.
CloseEnds == pc = "closing" /\ ~Lost ~> pc = "gone"
=============================================================================
