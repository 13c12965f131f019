---------------------------- MODULE WmPppProofs ----------------------------
(***************************************************************************)
(* Proofs about the main loop of wmppp, for any number of processes and    *)
(* any timeout.                                                            *)
(*                                                                         *)
(* The types need to know that the time of the LED has run out only within *)
(* a turn (TimeLeft); what the LED tells is inductive on top of that; and  *)
(* there is one hang-up program because stop_child names it.               *)
(***************************************************************************)
EXTENDS WmPpp, FiniteSetTheorems, TLAPS

\* Between two turns the time is not over.
TimeLeft ==
    pc \notin {"detect", "expire"} => waittime = NotWaiting \/ waittime > 0

LEMMA TypeStep == TypeOK /\ TimeLeft /\ [Next]_vars => TypeOK' /\ TimeLeft'
  <1> SUFFICES ASSUME TypeOK, TimeLeft, [Next]_vars
               PROVE  TypeOK' /\ TimeLeft'
    OBVIOUS
  <1> USE PppAssumption DEF TypeOK, TimeLeft
  <1>1. CASE Top
    <2>1. /\ newSecond' \in BOOLEAN
          /\ waittime' \in {NotWaiting} \cup (1 - MaxPassed .. Timeout)
      BY <1>1 DEF Top, TimePasses
    <2>2. /\ starttime' \in BOOLEAN /\ led' \in {"off", "on", "wait", "err"}
          /\ start_child' \in Pids \cup {Failed, 0} /\ stop_child' \in Pids \cup {Failed, 0}
          /\ kid' \in [Pids -> Programs \cup Ends \cup {"none"}]
      BY <1>1 DEF Top, ChildEnds, Bury
    <2> QED
      BY <1>1, <2>1, <2>2 DEF Top
  <1>2. CASE Detect
    <2>1. /\ starttime' \in BOOLEAN /\ led' \in {"off", "on", "wait", "err"}
          /\ waittime' \in {NotWaiting, waittime}
          /\ kid' \in [Pids -> Programs \cup Ends \cup {"none"}]
      BY <1>2 DEF Detect, ComesUp, GoesDown, Exec, Programs, loop
    <2> QED
      BY <1>2, <2>1 DEF Detect, childs
  <1>3. CASE Expire
    BY <1>3 DEF Expire, IsTime, childs
  <1>4. CASE ClickV
    BY <1>4 DEF ClickV, Exec, Programs, Failed
  <1>5. CASE ClickX
    BY <1>5 DEF ClickX, Exec, Programs, loop
  <1>6. CASE Sleep \/ Close \/ Exit \/ UNCHANGED vars
    BY <1>6 DEF Sleep, Close, Exit, loop, childs, vars
  <1>7. CASE CloseWaits
    BY <1>7 DEF CloseWaits, Bury, loop
  <1>8. ASSUME NEW k \in Pids, ProgramEnds(k)
        PROVE  TypeOK' /\ TimeLeft'
    BY <1>8 DEF ProgramEnds, loop, childs
  <1>9. CASE LineUp \/ LineDown
    BY <1>9 DEF LineUp, LineDown, loop, childs
  <1> QED
    BY <1>1, <1>2, <1>3, <1>4, <1>5, <1>6, <1>7, <1>8, <1>9 DEF Next, Turn, User

LEMMA AlwaysTyped == Spec => [](TypeOK /\ TimeLeft)
  <1>1. Init => TypeOK /\ TimeLeft
    BY PppAssumption DEF Init, TypeOK, TimeLeft
  <1> QED
    BY <1>1, TypeStep, PTL DEF Spec

\* Every variable keeps its type; waittime is never missed by more than the
\* time one turn of the loop takes.
THEOREM TypeCorrect == Spec => []TypeOK
  <1> QED
    BY AlwaysTyped, PTL

----------------------------------------------------------------------------
(* The LED. *)

LEMMA LedStep == TypeOK /\ LedTellsLine /\ [Next]_vars => LedTellsLine'
  <1> SUFFICES ASSUME TypeOK, LedTellsLine, [Next]_vars
               PROVE  LedTellsLine'
    OBVIOUS
  <1> USE DEF LedTellsLine
  <1>1. CASE Top
    <2>1. waittime' = NotWaiting <=> waittime = NotWaiting
      BY <1>1, PppAssumption DEF Top, TimePasses, TypeOK
    <2>2. PICK k \in Waited : \E status \in Status(k) : ChildEnds(k, status)
      BY <1>1 DEF Top
    <2>3. \/ starttime' = starttime /\ led' = led
          \/ ~starttime' /\ led' = "off"
      BY <2>2 DEF ChildEnds, TypeOK
    <2> QED
      BY <2>1, <2>3
  <1>2. CASE Detect
    BY <1>2 DEF Detect, ComesUp, GoesDown, loop
  <1>3. CASE Expire
    BY <1>3 DEF Expire, IsTime
  <1>4. CASE ClickV
    BY <1>4, PppAssumption DEF ClickV
  <1>5. ASSUME UNCHANGED loop
        PROVE  LedTellsLine'
    BY <1>5 DEF loop
  <1>6. CASE ClickX \/ Sleep \/ Close \/ CloseWaits \/ Exit \/ LineUp \/ LineDown
             \/ UNCHANGED vars
    BY <1>5, <1>6 DEF ClickX, Sleep, Close, CloseWaits, Exit, LineUp, LineDown, vars
  <1>7. ASSUME NEW k \in Pids, ProgramEnds(k)
        PROVE  LedTellsLine'
    BY <1>5, <1>7 DEF ProgramEnds
  <1> QED
    BY <1>1, <1>2, <1>3, <1>4, <1>6, <1>7 DEF Next, Turn, User

\* In any order of clicks, ends of programs and changes of the line: the LED is
\* green exactly while the line is taken to be up, a yellow one goes out by
\* itself, and the timeout of the yellow LED puts out no other.
THEOREM LedIsTrue == Spec => []LedTellsLine
  <1>1. Init => LedTellsLine
    BY DEF Init, LedTellsLine
  <1> QED
    BY <1>1, LedStep, AlwaysTyped, PTL DEF Spec

----------------------------------------------------------------------------
(* The hang-up program. *)

StopIsNamed == \A k \in Pids : kid[k] = "stop" => k = stop_child

LEMMA StopStep == TypeOK /\ StopIsNamed /\ [Next]_vars => StopIsNamed'
  <1> SUFFICES ASSUME TypeOK, StopIsNamed, [Next]_vars
               PROVE  StopIsNamed'
    OBVIOUS
  <1> USE DEF StopIsNamed
  <1>0. 0 \notin Pids /\ Failed \notin Pids
    BY PppAssumption DEF Failed
  <1>1. ASSUME NEW k \in Waited, Bury(k),
               stop_child' = stop_child \/ k = stop_child
        PROVE  StopIsNamed'
    <2>1. \A x \in Pids : kid'[x] = "stop" => kid[x] = "stop" /\ x # k
      BY <1>1 DEF Bury, TypeOK
    <2> QED
      BY <1>1, <2>1
  <1>2. ASSUME UNCHANGED stop_child,
               \A k \in Pids : kid'[k] = "stop" => kid[k] = "stop"
        PROVE  StopIsNamed'
    BY <1>2
  <1>3. CASE Top
    <2>1. PICK k \in Waited : \E status \in Status(k) : Bury(k) /\ ChildEnds(k, status)
      BY <1>3 DEF Top
    <2> QED
      BY <1>1, <2>1 DEF ChildEnds
  <1>4. CASE Detect
    BY <1>2, <1>4 DEF Detect, ComesUp, GoesDown, Exec, TypeOK, childs
  <1>5. CASE ClickV
    BY <1>2, <1>5 DEF ClickV, Exec, TypeOK
  <1>6. CASE ClickX
    <2>1. \A k \in Pids : kid[k] # "stop"
      BY <1>0, <1>6 DEF ClickX
    <2> QED
      BY <1>0, <1>6, <2>1 DEF ClickX, Exec, TypeOK
  <1>7. CASE CloseWaits
    BY <1>1, <1>7 DEF CloseWaits
  <1>8. ASSUME NEW k \in Pids, ProgramEnds(k)
        PROVE  StopIsNamed'
    BY <1>2, <1>8 DEF ProgramEnds, Ends, TypeOK, childs
  <1>9. CASE Expire \/ Sleep \/ Close \/ Exit \/ LineUp \/ LineDown \/ UNCHANGED vars
    BY <1>2, <1>9 DEF Expire, Sleep, Close, Exit, LineUp, LineDown, childs, vars
  <1> QED
    BY <1>3, <1>4, <1>5, <1>6, <1>7, <1>8, <1>9 DEF Next, Turn, User

\* Whatever ends in whatever order, a second hang-up program is not started
\* beside one that runs: a running one is always the one of stop_child.
THEOREM NoSecondStop == Spec => []OneStopProgram
  <1>1. Init => StopIsNamed
    BY DEF Init, StopIsNamed
  <1>2. StopIsNamed => OneStopProgram
    <2> SUFFICES ASSUME StopIsNamed
                 PROVE  OneStopProgram
      OBVIOUS
    <2>1. {k \in Pids : kid[k] = "stop"} \subseteq {stop_child}
      BY DEF StopIsNamed
    <2>2. IsFiniteSet({stop_child}) /\ Cardinality({stop_child}) = 1
      BY FS_Singleton
    <2> QED
      BY <2>1, <2>2, FS_Subset DEF OneStopProgram
  <1> QED
    BY <1>1, <1>2, StopStep, AlwaysTyped, PTL DEF Spec
=============================================================================
