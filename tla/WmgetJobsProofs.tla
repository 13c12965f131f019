------------------------- MODULE WmgetJobsProofs -------------------------
(***************************************************************************)
(* Proofs about the job scheduler of wmget, for any number of slots, any   *)
(* length of the queue and any number of jobs.                             *)
(*                                                                         *)
(* TypeOK is inductive by itself.  SlotOwnership needs nothing more; the   *)
(* life cycle of a slot also needs to know what each child is doing        *)
(* (StatusShowsStage).                                                     *)
(***************************************************************************)
EXTENDS WmgetJobs, FiniteSetTheorems, SequenceTheorems, TLAPS

----------------------------------------------------------------------------
(* Sequences: what the operations on the queue do to the elements of it,   *)
(* looked at by position and as a set.                                     *)

\* What Front and Last do to a sequence.
LEMMA FrontLast ==
    ASSUME NEW S, NEW q \in Seq(S), q # << >>
    PROVE  /\ Front(q) \in Seq(S)
           /\ Len(Front(q)) = Len(q) - 1
           /\ \A i \in 1 .. Len(q) - 1 : Front(q)[i] = q[i]
           /\ Len(q) \in Nat \ {0}
           /\ Last(q) = q[Len(q)] /\ Last(q) \in S
  <1> DEFINE a == SubSeq(q, 1, Len(q) - 1)
  <1>1. Len(q) \in Nat \ {0}
    BY EmptySeq, LenProperties
  <1>2. \A k \in 1 .. Len(q) : q[k] \in S
    BY ElementOfSeq
  <1>3. /\ a \in Seq(S) /\ Len(a) = Len(q) - 1
        /\ \A k \in 1 .. Len(q) - 1 : a[k] = q[k]
    BY <1>1, <1>2, SubSeqProperties
  <1>4. Front(q) = a
    BY DEF Front
  <1> HIDE DEF a
  <1> QED
    BY <1>1, <1>2, <1>3, <1>4 DEF Last

\* What RemoveAt does to a sequence.
LEMMA RemoveAtProperties ==
    ASSUME NEW S, NEW q \in Seq(S), NEW i \in 1 .. Len(q)
    PROVE  /\ RemoveAt(q, i) \in Seq(S)
           /\ Len(RemoveAt(q, i)) = Len(q) - 1
           /\ \A k \in 1 .. Len(q) - 1 :
                RemoveAt(q, i)[k] = IF k < i THEN q[k] ELSE q[k + 1]
  <1> DEFINE a == SubSeq(q, 1, i - 1)
             b == SubSeq(q, i + 1, Len(q))
  <1>1. Len(q) \in Nat
    BY LenProperties
  <1>2. \A k \in 1 .. Len(q) : q[k] \in S
    BY ElementOfSeq
  <1>3. /\ a \in Seq(S) /\ Len(a) = i - 1
        /\ \A k \in 1 .. i - 1 : a[k] = q[k]
    BY <1>1, <1>2, SubSeqProperties
  <1>4. /\ b \in Seq(S) /\ Len(b) = Len(q) - i
        /\ \A k \in 1 .. Len(q) - i : b[k] = q[i + k]
    BY <1>1, <1>2, SubSeqProperties
  <1>5. /\ a \o b \in Seq(S)
        /\ Len(a \o b) = Len(q) - 1
        /\ \A k \in 1 .. Len(q) - 1 :
             (a \o b)[k] = IF k < i THEN a[k] ELSE b[k - i + 1]
    <2> HIDE DEF a, b
    <2>1. /\ a \o b \in Seq(S)
          /\ Len(a \o b) = Len(a) + Len(b)
          /\ \A k \in 1 .. Len(a) + Len(b) :
               (a \o b)[k] = IF k <= Len(a) THEN a[k] ELSE b[k - Len(a)]
      BY <1>3, <1>4, ConcatProperties, Zenon
    <2>2. Len(a) = i - 1 /\ Len(a) + Len(b) = Len(q) - 1
      BY <1>1, <1>3, <1>4
    <2>3. \A k \in 1 .. Len(q) - 1 :
            (a \o b)[k] = IF k <= i - 1 THEN a[k] ELSE b[k - (i - 1)]
      BY <2>1, <2>2, Zenon
    <2>4. \A k \in 1 .. Len(q) - 1 :
            (k <= i - 1 <=> k < i) /\ k - (i - 1) = k - i + 1
      BY <1>1
    <2> QED
      BY <2>1, <2>2, <2>3, <2>4
  <1>6. RemoveAt(q, i) = a \o b
    BY DEF RemoveAt
  <1> HIDE DEF a, b
  <1>7. \A k \in 1 .. Len(q) - 1 :
          (a \o b)[k] = IF k < i THEN q[k] ELSE q[k + 1]
    <2> TAKE k \in 1 .. Len(q) - 1
    <2>1. CASE k < i
      BY <2>1, <1>1, <1>3, <1>5
    <2>2. CASE ~(k < i)
      <3>1. k - i + 1 \in 1 .. Len(q) - i /\ i + (k - i + 1) = k + 1
        BY <2>2, <1>1
      <3>2. b[k - i + 1] = q[i + (k - i + 1)]
        BY <3>1, <1>4
      <3> QED
        BY <3>1, <3>2, <2>2, <1>5
    <2> QED
      BY <2>1, <2>2
  <1> QED
    BY <1>5, <1>6, <1>7

\* No element occurs twice.
Distinct(q) == \A i, k \in 1 .. Len(q) : q[i] = q[k] => i = k

\* ToSet in terms of the positions of a sequence.
LEMMA ToSetPositions ==
    ASSUME NEW S, NEW q \in Seq(S)
    PROVE  ToSet(q) = {q[i] : i \in 1 .. Len(q)}
  BY LenProperties DEF ToSet

\* Popping a sequence without repetitions takes exactly the last one out of it.
LEMMA PopTakesLast ==
    ASSUME NEW S, NEW q \in Seq(S), q # << >>, Distinct(q)
    PROVE  /\ Distinct(Front(q))
           /\ Last(q) \in ToSet(q)
           /\ ToSet(Front(q)) = ToSet(q) \ {Last(q)}
  <1> DEFINE f == Front(q)
             n == Len(q)
  <1>1. /\ f \in Seq(S) /\ Len(f) = n - 1
        /\ \A i \in 1 .. n - 1 : f[i] = q[i]
        /\ n \in Nat \ {0} /\ Last(q) = q[n]
    BY FrontLast
  <1>2. ToSet(f) = {f[i] : i \in 1 .. Len(f)} /\ ToSet(q) = {q[i] : i \in 1 .. n}
    BY <1>1, ToSetPositions
  <1>3. \A i, k \in 1 .. n : q[i] = q[k] => i = k
    BY DEF Distinct
  <1> HIDE DEF f, n
  <1>4. Distinct(f)
    BY <1>1, <1>3 DEF Distinct
  <1>5. Last(q) \in ToSet(q)
    BY <1>1, <1>2
  <1>6. \A x : x \in ToSet(f) <=> x \in ToSet(q) \ {Last(q)}
    <2> TAKE x
    <2>1. ASSUME x \in ToSet(f)
          PROVE  x \in ToSet(q) \ {Last(q)}
      <3>1. PICK i \in 1 .. n - 1 : x = q[i]
        BY <2>1, <1>1, <1>2
      <3>2. i \in 1 .. n /\ n \in 1 .. n /\ i # n
        BY <1>1
      <3> QED
        BY <3>1, <3>2, <1>1, <1>2, <1>3
    <2>2. ASSUME x \in ToSet(q) \ {Last(q)}
          PROVE  x \in ToSet(f)
      <3>1. PICK i \in 1 .. n : x = q[i]
        BY <2>2, <1>2
      <3>2. i \in 1 .. n - 1
        BY <3>1, <2>2, <1>1
      <3> QED
        BY <3>1, <3>2, <1>1, <1>2
    <2> QED
      BY <2>1, <2>2
  <1> QED
    BY <1>4, <1>5, <1>6 DEF f

\* Appending an element that is not there adds exactly it.
LEMMA AppendAdds ==
    ASSUME NEW S, NEW q \in Seq(S), NEW e \in S, Distinct(q), e \notin ToSet(q)
    PROVE  /\ Distinct(Append(q, e))
           /\ ToSet(Append(q, e)) = ToSet(q) \cup {e}
  <1> DEFINE a == Append(q, e)
             n == Len(q)
  <1>1. n \in Nat
    BY LenProperties
  <1>2. /\ a \in Seq(S) /\ Len(a) = n + 1
        /\ \A i \in 1 .. n : a[i] = q[i]
        /\ a[n + 1] = e
    BY AppendProperties
  <1>3. ToSet(a) = {a[i] : i \in 1 .. Len(a)} /\ ToSet(q) = {q[i] : i \in 1 .. n}
    BY <1>2, ToSetPositions
  <1>4. \A i, k \in 1 .. n : q[i] = q[k] => i = k
    BY DEF Distinct
  <1> HIDE DEF a, n
  <1>5. \A i \in 1 .. n + 1 : i \in 1 .. n \/ i = n + 1
    BY <1>1
  <1>6. Distinct(a)
    BY <1>1, <1>2, <1>3, <1>4, <1>5 DEF Distinct
  <1>7. \A i \in 1 .. n : i \in 1 .. n + 1
    BY <1>1
  <1>8. n + 1 \in 1 .. n + 1
    BY <1>1
  <1>9. ToSet(a) = ToSet(q) \cup {e}
    BY <1>2, <1>3, <1>5, <1>7, <1>8
  <1> QED
    BY <1>6, <1>9 DEF a

\* Removing one position of a sequence without repetitions takes exactly its element out.
LEMMA RemoveTakesOne ==
    ASSUME NEW S, NEW q \in Seq(S), NEW i \in 1 .. Len(q), Distinct(q)
    PROVE  /\ Distinct(RemoveAt(q, i))
           /\ ToSet(RemoveAt(q, i)) = ToSet(q) \ {q[i]}
  <1> DEFINE r == RemoveAt(q, i)
             n == Len(q)
             src(k) == IF k < i THEN k ELSE k + 1
  <1>1. n \in Nat /\ i \in 1 .. n
    BY LenProperties
  <1>2. /\ r \in Seq(S) /\ Len(r) = n - 1
        /\ \A k \in 1 .. n - 1 : r[k] = IF k < i THEN q[k] ELSE q[k + 1]
    BY RemoveAtProperties
  <1>3. ToSet(r) = {r[k] : k \in 1 .. Len(r)} /\ ToSet(q) = {q[k] : k \in 1 .. n}
    BY <1>2, ToSetPositions
  <1>4. \A k, l \in 1 .. n : q[k] = q[l] => k = l
    BY DEF Distinct
  <1>5. \A k \in 1 .. n - 1 : r[k] = q[src(k)]
    BY <1>2
  <1>6. \A k \in 1 .. n - 1 : src(k) \in 1 .. n /\ src(k) # i
    BY <1>1
  <1>7. \A k, l \in 1 .. n - 1 : src(k) = src(l) => k = l
    BY <1>1
  <1>8. \A l \in 1 .. n : l # i => \E k \in 1 .. n - 1 : src(k) = l
    <2> TAKE l \in 1 .. n
    <2> HAVE l # i
    <2>1. CASE l < i
      <3> WITNESS l \in 1 .. n - 1
      <3> QED
        BY <2>1
    <2>2. CASE l > i
      <3>1. l - 1 \in 1 .. n - 1 /\ ~(l - 1 < i) /\ (l - 1) + 1 = l
        BY <2>2, <1>1
      <3> WITNESS l - 1 \in 1 .. n - 1
      <3> QED
        BY <3>1
    <2> QED
      BY <2>1, <2>2, <1>1
  <1> HIDE DEF r, n, src
  <1>9. Distinct(r)
    <2> SUFFICES ASSUME NEW k \in 1 .. n - 1, NEW l \in 1 .. n - 1, r[k] = r[l]
                 PROVE  k = l
      BY <1>2 DEF Distinct
    <2>1. q[src(k)] = q[src(l)]
      BY <1>5
    <2>2. src(k) = src(l)
      BY <1>4, <1>6, <2>1
    <2> QED
      BY <1>7, <2>2
  <1>10. \A x : x \in ToSet(r) <=> x \in ToSet(q) \ {q[i]}
    <2> TAKE x
    <2>1. ASSUME x \in ToSet(r)
          PROVE  x \in ToSet(q) \ {q[i]}
      <3>1. PICK k \in 1 .. n - 1 : x = q[src(k)]
        BY <2>1, <1>2, <1>3, <1>5
      <3>2. src(k) \in 1 .. n /\ src(k) # i
        BY <1>6
      <3> QED
        BY <3>1, <3>2, <1>1, <1>3, <1>4
    <2>2. ASSUME x \in ToSet(q) \ {q[i]}
          PROVE  x \in ToSet(r)
      <3>1. PICK l \in 1 .. n : x = q[l]
        BY <2>2, <1>3
      <3>2. PICK k \in 1 .. n - 1 : src(k) = l
        BY <3>1, <2>2, <1>8
      <3> QED
        BY <3>1, <3>2, <1>2, <1>3, <1>5
    <2> QED
      BY <2>1, <2>2
  <1> QED
    BY <1>9, <1>10 DEF r


----------------------------------------------------------------------------
(* Type correctness. *)

\* The slots and the queue the dock starts with.
LEMMA TypeInit == Init => TypeOK
  <1>1. << >> \in Seq(JobIds) /\ Len(<< >>) = 0
    BY EmptySeq
  <1> QED
    BY <1>1, SizesAssumption
       DEF Init, TypeOK, Job, Status, JobIds, NoJob, Slots, NoSlot, DockStep,
           Process, Alive

\* Popping the queue into a slot keeps the types.
LEMMA TakeType ==
    ASSUME TypeOK, TakeFromQueue
    PROVE  /\ Last(queue) \in JobIds
           /\ at \in Slots
           /\ shm' \in [Slots -> Job]
           /\ queue' \in Seq(JobIds) /\ Len(queue') = Len(queue) - 1
           /\ Len(queue) \in Nat \ {0}
           /\ slotOf' \in [JobIds -> Slots \cup {NoSlot}]
  <1>1. /\ Front(queue) \in Seq(JobIds)
        /\ Len(Front(queue)) = Len(queue) - 1
        /\ Len(queue) \in Nat \ {0}
        /\ Last(queue) \in JobIds
    BY FrontLast DEF TypeOK, TakeFromQueue
  <1>2. at \in Slots
    BY SizesAssumption DEF TypeOK, TakeFromQueue, Slots
  <1>3. Started(Last(queue)) \in Job
    BY <1>1 DEF Started, Job, Status
  <1> QED
    BY <1>1, <1>2, <1>3 DEF TypeOK, TakeFromQueue

\* Every step of the dock and of its children keeps the types.
LEMMA TypeStep == TypeOK /\ [Next]_vars => TypeOK'
  <1> SUFFICES ASSUME TypeOK, [Next]_vars
               PROVE  TypeOK'
    OBVIOUS
  <1> USE SizesAssumption
  <1>1. CASE Periodic
    BY <1>1 DEF Periodic, TypeOK, DockStep
  <1>2. CASE SkipSlot
    BY <1>2 DEF SkipSlot, TypeOK
  <1>3. CASE StartJob
    <2>1. TakeFromQueue
      BY <1>3 DEF StartJob
    <2> QED
      BY <1>3, <2>1, TakeType
         DEF StartJob, TakeFromQueue, TypeOK, Process, Alive, Slots
  <1>4. CASE ForkFails
    <2>1. TakeFromQueue
      BY <1>4 DEF ForkFails
    <2> QED
      BY <1>4, <2>1, TakeType
         DEF ForkFails, TakeFromQueue, TypeOK, Process, DockStep
  <1>5. CASE QueueScanned
    BY <1>5 DEF QueueScanned, TypeOK, DockStep
  <1>6. CASE Get \/ Paste
    <2>1. nextId \in JobIds /\ Insert
      BY <1>6 DEF Get, Paste, Insert, TypeOK, JobIds
    <2>2. /\ Append(queue, nextId) \in Seq(JobIds)
          /\ Len(Append(queue, nextId)) = Len(queue) + 1
      BY <2>1, AppendProperties DEF TypeOK
    <2>3. Len(queue) \in Nat
      BY LenProperties DEF TypeOK
    <2> QED
      BY <2>1, <2>2, <2>3 DEF Insert, TypeOK, JobIds
  <1>7. CASE PasteWhenFull
    BY <1>7 DEF PasteWhenFull, TypeOK, DockStep
  <1>8. ASSUME NEW j \in JobIds, CancelActive(j)
        PROVE  TypeOK'
    <2>1. PICK s \in Slots :
            /\ \/ /\ shm' = [shm EXCEPT ![s].status = "COMPLETE"]
                  /\ UNCHANGED <<pc, at>>
               \/ /\ pc' = "cancel" /\ at' = s
                  /\ UNCHANGED shm
            /\ asked' = asked \cup {j}
            /\ UNCHANGED <<queue, nextId, barSelected, proc, slotOf, faults>>
      BY <1>8 DEF CancelActive, SlotsOf
    <2>2. [shm[s] EXCEPT !.status = "COMPLETE"] \in Job
      BY DEF TypeOK, Job, Status
    <2>3. shm' \in [Slots -> Job]
      BY <2>1, <2>2 DEF TypeOK
    <2>4. /\ pc' \in DockStep /\ at' \in 0 .. MaxActive
          /\ pc' \in {"cancel", "print"} => at' \in Slots
      BY <2>1 DEF TypeOK, DockStep, Slots
    <2> QED
      BY <2>1, <2>3, <2>4 DEF TypeOK
  <1>9. CASE CancelRaise
    BY <1>9 DEF CancelRaise, RaiseStop, TypeOK, Job, DockStep
  <1>10. ASSUME NEW j \in JobIds, CancelQueued(j)
         PROVE  TypeOK'
    <2>1. PICK i \in 1 .. Len(queue) : queue' = RemoveAt(queue, i)
      BY <1>10 DEF CancelQueued
    <2>2. /\ RemoveAt(queue, i) \in Seq(JobIds)
          /\ Len(RemoveAt(queue, i)) = Len(queue) - 1
      BY RemoveAtProperties DEF TypeOK
    <2>3. Len(queue) \in Nat
      BY LenProperties DEF TypeOK
    <2> QED
      BY <1>10, <2>1, <2>2, <2>3 DEF CancelQueued, TypeOK, Process
  <1>11. CASE ListStart \/ ListTest \/ ListPrint \/ ListQueue
    BY <1>11
       DEF ListStart, ListTest, ListPrint, ListQueue, TypeOK, DockStep, Slots
  <1>12. ASSUME NEW s \in Slots, ClickBar(s) \/ ClickButton(s) \/ ClickEdge(s)
         PROVE  TypeOK'
    <2>1. barSelected' \in Slots \cup {NoSlot}
      BY <1>12 DEF ClickBar, ClickButton, ClickEdge, Toggle, TypeOK
    <2>2. \/ UNCHANGED <<shm, asked>>
          \/ /\ shm' = [shm EXCEPT ![s].stop = TRUE]
             /\ asked' = asked \cup ({shm[s].id} \ {NoJob})
      BY <1>12 DEF ClickBar, ClickButton, ClickEdge, Stop, RaiseStop
    <2>3. shm[s] \in Job
      BY DEF TypeOK
    <2>4. shm[s].id \in JobIds \cup {NoJob} /\ [shm[s] EXCEPT !.stop = TRUE] \in Job
      BY <2>3 DEF Job
    <2>5. shm' \in [Slots -> Job]
      BY <2>2, <2>4 DEF TypeOK
    <2>6. asked' \subseteq JobIds
      BY <2>2, <2>4 DEF TypeOK
    <2>7. UNCHANGED <<queue, nextId, pc, at, proc, slotOf, faults>>
      BY <1>12 DEF ClickBar, ClickButton, ClickEdge
    <2> QED
      BY <2>1, <2>5, <2>6, <2>7 DEF TypeOK
  <1>13. CASE Quit
    BY <1>13 DEF Quit, TypeOK, DockStep
  <1>14. ASSUME NEW j \in JobIds, Child(j)
         PROVE  TypeOK'
    <2>1. PICK step, status :
            /\ step \in Process /\ Become(j, step, status)
            /\ slotOf[j] \in Slots => status \in Status
      <3>1. slotOf[j] \in Slots => shm[slotOf[j]].status \in Status
        BY DEF TypeOK, Job
      <3> QED
        BY <1>14, <3>1 DEF Child, OpenFails, BeginTransfer, Abort, TransferEnds,
                           Release, Process, Alive, Status
    <2>2. shm' \in [Slots -> Job]
      <3>1. CASE slotOf[j] \in Slots
        BY <2>1, <3>1 DEF Become, TypeOK, Job
      <3>2. CASE slotOf[j] \notin Slots
        <4>1. shm' = shm
          BY <2>1, <3>2 DEF Become, TypeOK
        <4> QED
          BY <4>1 DEF TypeOK
      <3> QED
        BY <3>1, <3>2
    <2> QED
      BY <2>1, <2>2 DEF Become, dock, TypeOK
  <1>15. ASSUME NEW j \in JobIds, Killed(j)
         PROVE  TypeOK'
    BY <1>15 DEF Killed, dock, TypeOK, Process
  <1>16. CASE UNCHANGED vars
    BY <1>16 DEF vars, TypeOK
  <1> QED
    BY <1>1, <1>2, <1>3, <1>4, <1>5, <1>6, <1>7, <1>8, <1>9, <1>10, <1>11,
       <1>12, <1>13, <1>14, <1>15, <1>16
       DEF Next, Scan, List, Cancel, Mouse

\* Every variable of the scheduler keeps its type and job_queue stays inside
\* its array, whatever the dock, its clients and its children do.
THEOREM TypeCorrect == Spec => []TypeOK
  <1> QED
    BY TypeInit, TypeStep, PTL DEF Spec

----------------------------------------------------------------------------
(* The inductive invariant. *)

IInv == TypeOK /\ Accounted /\ SlotOwnership /\ StatusShowsStage

LEMMA InvInit == Init => IInv
  <1> SUFFICES ASSUME Init
               PROVE  Accounted /\ SlotOwnership /\ StatusShowsStage
    BY TypeInit DEF IInv
  <1>1. Queued = {}
    BY EmptySeq, LenProperties DEF Init, ToSet, Queued
  <1>2. Accounted
    BY <1>1, SizesAssumption, EmptySeq DEF Init, Accounted, JobIds
  <1>3. \A j \in JobIds : ~Live(j)
    BY DEF Init, Live, Alive
  <1> QED
    BY <1>2, <1>3 DEF Init, SlotOwnership, StatusShowsStage

\* What popping the queue does to the set of waiting jobs.
LEMMA TakeQueued ==
    ASSUME IInv, TakeFromQueue
    PROVE  /\ Last(queue) \in Queued
           /\ Queued' = Queued \ {Last(queue)}
           /\ Distinct(queue')
           /\ proc[Last(queue)] = "none"
  <1>1. /\ queue \in Seq(JobIds) /\ Distinct(queue) /\ queue # << >>
        /\ queue' = Front(queue)
    BY DEF IInv, TypeOK, Accounted, Distinct, TakeFromQueue
  <1>2. /\ Distinct(Front(queue))
        /\ Last(queue) \in ToSet(queue)
        /\ ToSet(Front(queue)) = ToSet(queue) \ {Last(queue)}
    BY <1>1, PopTakesLast
  <1>3. Last(queue) \in JobIds
    BY TakeType DEF IInv
  <1> QED
    BY <1>1, <1>2, <1>3 DEF Queued, IInv, Accounted

\* Every step keeps each job id at one place.
LEMMA AccountedStep == IInv /\ [Next]_vars => Accounted'
  <1> SUFFICES ASSUME IInv, [Next]_vars
               PROVE  Accounted'
    OBVIOUS
  <1> DEFINE Same == UNCHANGED <<queue, nextId>>
  <1> USE DEF IInv
  <1>0. nextId \in Nat /\ \A j \in JobIds : j \in Nat
    BY DEF TypeOK, JobIds
  <1>1. ASSUME Same, UNCHANGED proc
        PROVE  Accounted'
    BY <1>1 DEF Accounted, Queued
  <1>2. ASSUME Same, NEW j \in JobIds, NEW step, proc[j] # "none",
               step # "none", proc' = [proc EXCEPT ![j] = step]
        PROVE  Accounted'
    BY <1>2 DEF Accounted, Queued, TypeOK
  <1>3. ASSUME TakeFromQueue, NEW step, step # "none",
               proc' = [proc EXCEPT ![Last(queue)] = step]
        PROVE  Accounted'
    <2>1. /\ Last(queue) \in Queued /\ Queued' = Queued \ {Last(queue)}
          /\ Distinct(queue') /\ Last(queue) \in JobIds
      BY <1>3, TakeQueued, TakeType
    <2>2. nextId' = nextId
      BY <1>3 DEF TakeFromQueue
    <2>3. \A j \in JobIds : j \in Queued' <=> j < nextId /\ proc'[j] = "none"
      BY <1>3, <2>1, <1>0 DEF Accounted, TypeOK
    <2>4. \A j \in JobIds : j >= nextId => proc'[j] = "none"
      BY <1>3, <2>1, <1>0 DEF Accounted, TypeOK
    <2> QED
      BY <2>1, <2>2, <2>3, <2>4 DEF Accounted, Distinct
  <1>4. CASE Get \/ Paste
    <2>1. Insert /\ nextId \in JobIds
      BY <1>4 DEF Get, Paste, Insert, TypeOK, JobIds
    <2>2. nextId \notin Queued /\ Distinct(queue)
      BY <2>1 DEF Accounted, Distinct, TypeOK
    <2>3. Distinct(Append(queue, nextId))
          /\ ToSet(Append(queue, nextId)) = Queued \cup {nextId}
      BY <2>1, <2>2, AppendAdds DEF TypeOK, Queued
    <2>4. /\ Distinct(queue') /\ Queued' = Queued \cup {nextId}
          /\ nextId' = nextId + 1 /\ proc' = proc
      BY <2>1, <2>3 DEF Insert, Queued
    <2> QED
      BY <2>1, <2>4, <1>0 DEF Accounted, Distinct
  <1>5. ASSUME NEW j \in JobIds, CancelQueued(j)
        PROVE  Accounted'
    <2>1. PICK i \in 1 .. Len(queue) : queue[i] = j /\ queue' = RemoveAt(queue, i)
      BY <1>5 DEF CancelQueued
    <2>2. Distinct(queue') /\ Queued' = Queued \ {j}
      BY <2>1, RemoveTakesOne DEF TypeOK, Accounted, Distinct, Queued
    <2>3. proc' = [proc EXCEPT ![j] = "dropped"] /\ nextId' = nextId
      BY <1>5 DEF CancelQueued
    <2>4. j \in Queued
      BY <2>1, ToSetPositions DEF TypeOK, Queued
    <2>5. \A k \in JobIds : k \in Queued' <=> k < nextId /\ proc'[k] = "none"
      BY <2>2, <2>3, <1>0 DEF Accounted, TypeOK
    <2>6. \A k \in JobIds : k >= nextId => proc'[k] = "none"
      BY <2>3, <2>4, <1>0 DEF Accounted, TypeOK
    <2> QED
      BY <2>2, <2>3, <2>5, <2>6 DEF Accounted, Distinct
  <1>6. ASSUME NEW j \in JobIds, Child(j)
        PROVE  Accounted'
    <2>1. PICK step : /\ step # "none" /\ proc' = [proc EXCEPT ![j] = step]
                      /\ proc[j] # "none" /\ Same
      BY <1>6 DEF Child, OpenFails, BeginTransfer, Abort, TransferEnds, Release,
                  Become, dock
    <2> QED
      BY <2>1, <1>2
  <1>7. ASSUME NEW j \in JobIds, Killed(j)
        PROVE  Accounted'
    <2>1. /\ proc' = [proc EXCEPT ![j] = "killed"] /\ proc[j] # "none" /\ Same
      BY <1>7 DEF Killed, Live, Alive, dock
    <2> QED
      BY <2>1, <1>2
  <1>8. CASE StartJob \/ ForkFails
    BY <1>8, <1>3 DEF StartJob, ForkFails
  <1>9. CASE UNCHANGED vars
    BY <1>9, <1>1 DEF vars
  <1>10. ASSUME NEW j \in JobIds, CancelActive(j)
         PROVE  Accounted'
    BY <1>10, <1>1 DEF CancelActive
  <1>11. ASSUME NEW s \in Slots, ClickBar(s) \/ ClickButton(s) \/ ClickEdge(s)
         PROVE  Accounted'
    BY <1>11, <1>1 DEF ClickBar, ClickButton, ClickEdge
  <1>12. CASE Periodic \/ SkipSlot \/ QueueScanned \/ CancelRaise \/ List
              \/ PasteWhenFull \/ Quit
    BY <1>12, <1>1 DEF Periodic, SkipSlot, QueueScanned, CancelRaise, List,
         ListStart, ListTest, ListPrint, ListQueue, PasteWhenFull, Quit
  <1> QED
    BY <1>4, <1>5, <1>6, <1>7, <1>8, <1>9, <1>10, <1>11, <1>12
       DEF Next, Scan, Cancel, Mouse

\* Every step leaves each child the only writer of its slot, and the status
\* there in step with the child.
LEMMA SlotStep == IInv /\ [Next]_vars => SlotOwnership' /\ StatusShowsStage'
  <1> SUFFICES ASSUME IInv, [Next]_vars
               PROVE  SlotOwnership' /\ StatusShowsStage'
    OBVIOUS
  <1> DEFINE Goal == SlotOwnership' /\ StatusShowsStage'
             SameSlots == \A s \in Slots : /\ shm'[s].id = shm[s].id
                                          /\ shm'[s].status = shm[s].status
  <1> USE DEF IInv
  <1>1. ASSUME UNCHANGED slotOf, SameSlots,
               \A j \in JobIds : proc'[j] = proc[j] \/ proc'[j] \notin Alive
        PROVE  Goal
    <2>1. \A j \in JobIds : Live(j)' => Live(j) /\ proc'[j] = proc[j]
      BY <1>1 DEF Live
    <2>2. SlotOwnership'
      BY <1>1, <2>1 DEF SlotOwnership
    <2>3. \A j \in JobIds : Live(j) => slotOf[j] \in Slots
      BY DEF SlotOwnership
    <2>4. StatusShowsStage'
      BY <1>1, <2>1, <2>3 DEF StatusShowsStage
    <2> QED
      BY <2>2, <2>4
  <1>2. ASSUME NEW j \in JobIds, NEW step, NEW status,
               Live(j), Become(j, step, status),
               status \notin {"PAUSED", "FAILED"},
               step \in Alive => status # "EMPTY" /\ status \in Stage(step)
        PROVE  Goal
    <2>1. /\ slotOf[j] \in Slots /\ shm[slotOf[j]].id = j
          /\ \A k \in JobIds : Live(k) /\ k # j => slotOf[k] # slotOf[j]
      BY <1>2 DEF SlotOwnership
    <2>2. /\ slotOf' = slotOf
          /\ proc'[j] = step
          /\ \A k \in JobIds : k # j => proc'[k] = proc[k]
      BY <1>2 DEF Become, TypeOK
    <2>3. /\ shm'[slotOf[j]].id = j /\ shm'[slotOf[j]].status = status
          /\ \A s \in Slots : s # slotOf[j] => shm'[s] = shm[s]
      BY <1>2, <2>1 DEF Become, TypeOK, Job
    <2>4. SlotOwnership'
      BY <1>2, <2>1, <2>2, <2>3 DEF SlotOwnership, Live
    <2>5. \A s \in Slots : shm'[s].status \notin {"PAUSED", "FAILED"}
      BY <1>2, <2>3 DEF StatusShowsStage
    <2>6. ASSUME NEW k \in JobIds, Live(k)'
          PROVE  shm'[slotOf'[k]].status \in Stage(proc'[k])
      <3>1. CASE k = j
        BY <3>1, <2>6, <1>2, <2>2, <2>3 DEF Live
      <3>2. CASE k # j
        <4>1. Live(k) /\ slotOf[k] \in Slots /\ slotOf[k] # slotOf[j]
          BY <3>2, <2>6, <2>1, <2>2 DEF Live, SlotOwnership
        <4> QED
          BY <3>2, <4>1, <2>2, <2>3 DEF StatusShowsStage
      <3> QED
        BY <3>1, <3>2
    <2> QED
      BY <2>4, <2>5, <2>6 DEF StatusShowsStage
  <1>3. ASSUME TakeFromQueue, NEW step \in {"opening", "unforked"},
               proc' = [proc EXCEPT ![Last(queue)] = step]
        PROVE  Goal
    <2> DEFINE j == Last(queue)
    <2>1. j \in JobIds /\ at \in Slots
      BY <1>3, TakeType
    <2>2. /\ proc'[j] = step /\ slotOf'[j] = at
          /\ \A k \in JobIds : k # j => proc'[k] = proc[k] /\ slotOf'[k] = slotOf[k]
      BY <1>3, <2>1 DEF TakeFromQueue, TypeOK
    <2>3. /\ shm'[at].id = j /\ shm'[at].status = "INIT"
          /\ \A s \in Slots : s # at => shm'[s] = shm[s]
      BY <1>3, <2>1 DEF TakeFromQueue, TypeOK, Started
    <2>4. \A k \in JobIds : Live(k) => slotOf[k] # at
      BY <1>3 DEF TakeFromQueue, SlotOwnership
    <2> HIDE DEF j
    <2>5. SlotOwnership'
      BY <2>1, <2>2, <2>3, <2>4 DEF SlotOwnership, Live
    <2>6. \A s \in Slots : shm'[s].status \notin {"PAUSED", "FAILED"}
      BY <2>3 DEF StatusShowsStage
    <2>7. ASSUME NEW k \in JobIds, Live(k)'
          PROVE  shm'[slotOf'[k]].status \in Stage(proc'[k])
      <3>1. CASE k = j
        BY <3>1, <2>7, <2>2, <2>3 DEF Live, Alive, Stage
      <3>2. CASE k # j
        <4>1. Live(k) /\ slotOf[k] \in Slots /\ slotOf[k] # at
          BY <3>2, <2>7, <2>2, <2>4 DEF Live, SlotOwnership
        <4> QED
          BY <3>2, <4>1, <2>2, <2>3 DEF StatusShowsStage
      <3> QED
        BY <3>1, <3>2
    <2> QED
      BY <2>5, <2>6, <2>7 DEF StatusShowsStage
  <1>4. CASE StartJob \/ ForkFails
    BY <1>4, <1>3 DEF StartJob, ForkFails
  <1>5. ASSUME NEW j \in JobIds, Child(j)
        PROVE  Goal
    <2>1. CASE OpenFails(j)
      <3>1. Live(j) /\ shm[slotOf[j]].status = "INIT"
        BY <2>1 DEF OpenFails, Live, Alive, StatusShowsStage, Stage
      <3> QED
        BY <2>1, <3>1, <1>2 DEF OpenFails, Stage
    <2>2. CASE BeginTransfer(j)
      BY <2>2, <1>2 DEF BeginTransfer, Live, Alive, Stage
    <2>3. CASE Abort(j)
      BY <2>3, <1>2 DEF Abort, Live, Alive, Stage
    <2>4. CASE TransferEnds(j)
      BY <2>4, <1>2 DEF TransferEnds, Live, Alive, Stage
    <2>5. CASE Release(j)
      BY <2>5, <1>2 DEF Release, Live, Alive
    <2> QED
      BY <1>5, <2>1, <2>2, <2>3, <2>4, <2>5 DEF Child
  <1>6. ASSUME NEW j \in JobIds, Killed(j) \/ CancelQueued(j)
        PROVE  Goal
    <2>1. \A k \in JobIds : proc'[k] = proc[k] \/ proc'[k] \notin Alive
      BY <1>6 DEF Killed, CancelQueued, TypeOK, Alive
    <2> QED
      BY <1>6, <2>1, <1>1 DEF Killed, CancelQueued
  <1>7. ASSUME NEW j \in JobIds, CancelActive(j)
        PROVE  Goal
    <2>1. UNCHANGED <<shm, proc, slotOf>>
      BY <1>7 DEF CancelActive, StatusShowsStage, SlotsOf
    <2> QED
      BY <2>1, <1>1
  <1>8. ASSUME NEW s \in Slots, RaiseStop(s), UNCHANGED <<proc, slotOf>>
        PROVE  Goal
    BY <1>8, <1>1 DEF RaiseStop, TypeOK, Job
  <1>9. ASSUME UNCHANGED <<shm, proc, slotOf>>
        PROVE  Goal
    BY <1>9, <1>1
  <1>10. CASE CancelRaise
    BY <1>10, <1>8 DEF CancelRaise, TypeOK
  <1>11. ASSUME NEW s \in Slots, ClickBar(s) \/ ClickButton(s) \/ ClickEdge(s)
         PROVE  Goal
    BY <1>11, <1>8, <1>9 DEF ClickBar, ClickButton, ClickEdge, Stop
  <1>12. CASE Periodic \/ SkipSlot \/ QueueScanned \/ List \/ Get \/ Paste
              \/ PasteWhenFull \/ Quit
    BY <1>12, <1>9 DEF Periodic, SkipSlot, QueueScanned, List, ListStart,
         ListTest, ListPrint, ListQueue, Get, Paste, Insert, PasteWhenFull, Quit
  <1>13. CASE UNCHANGED vars
    BY <1>13, <1>9 DEF vars
  <1> QED
    BY <1>4, <1>5, <1>6, <1>7, <1>10, <1>11, <1>12, <1>13
       DEF Next, Scan, Cancel, Mouse

LEMMA InvStep == IInv /\ [Next]_vars => IInv'
  BY TypeStep, AccountedStep, SlotStep DEF IInv

\* The inductive invariant holds throughout, in any dock whatever its sizes.
THEOREM Invariance == Spec => []IInv
  <1> QED
    BY InvInit, InvStep, PTL DEF Spec

----------------------------------------------------------------------------
(* Safety properties, from the invariant. *)

\* A running child owns its slot, in every reachable state.
THEOREM ChildOwnsSlot == Spec => []SlotOwnership
  <1> QED
    BY Invariance, PTL DEF IInv

\* Every accepted job is at exactly one place, in every reachable state.
THEOREM NoJobLost == Spec => []Accounted
  <1> QED
    BY Invariance, PTL DEF IInv

\* The status of a slot says what its child does; no job is ever J_FAILED.
THEOREM StatusTellsStage == Spec => []StatusShowsStage
  <1> QED
    BY Invariance, PTL DEF IInv

Lives == {j \in JobIds : Live(j)}

LEMMA SlotsFinite == IsFiniteSet(Slots) /\ Cardinality(Slots) = MaxActive
  <1>1. 0 \in Int /\ MaxActive - 1 \in Int /\ MaxActive \in Nat \ {0}
    BY SizesAssumption
  <1> QED
    BY <1>1, FS_Interval DEF Slots

\* Children hold different slots: those whose slots are in T number at most
\* Cardinality(T).
LEMMA LivesFit ==
    ASSUME IInv, NEW T \in SUBSET Slots, \A j \in Lives : slotOf[j] \in T
    PROVE  /\ IsFiniteSet(T) /\ IsFiniteSet(Lives)
           /\ Cardinality(Lives) \in Nat /\ Cardinality(T) \in Nat
           /\ Cardinality(Lives) <= Cardinality(T)
  <1> DEFINE f == [j \in Lives |-> slotOf[j]]
  <1>1. IsFiniteSet(T)
    BY SlotsFinite, FS_Subset
  <1>2. f \in Injection(Lives, T)
    <2>1. \A j, k \in Lives : slotOf[j] = slotOf[k] => j = k
      BY DEF IInv, SlotOwnership, Lives
    <2> QED
      BY <2>1 DEF Injection, IsInjective
  <1>3. IsFiniteSet(Lives) /\ Cardinality(Lives) <= Cardinality(T)
    BY <1>1, <1>2, FS_Injection
  <1> QED
    BY <1>1, <1>3, FS_CardinalityType

LEMMA InvAtMost == IInv => AtMostMaxActive
  <1> SUFFICES ASSUME IInv
               PROVE  Cardinality(Lives) <= MaxActive
    BY DEF AtMostMaxActive, Lives
  <1>1. \A j \in Lives : slotOf[j] \in Slots
    BY DEF IInv, SlotOwnership, Lives
  <1> QED
    BY <1>1, LivesFit, SlotsFinite

\* "wmget will never be downloading more than four files at a time", for any
\* number of slots: running children hold different slots.
THEOREM NeverMoreThanMaxActive == Spec => []AtMostMaxActive
  <1> QED
    BY Invariance, InvAtMost, PTL

----------------------------------------------------------------------------
(* Action properties, from the invariant. *)

\* Only the step that pops the queue changes which job a slot holds.
LEMMA HandoverStep ==
    ASSUME IInv, [Next]_vars, NEW s \in Slots, shm'[s].id # shm[s].id
    PROVE  TakeFromQueue /\ at = s
  <1> USE DEF IInv
  <1>1. ASSUME NEW t \in Slots, NEW v, shm' = [shm EXCEPT ![t].status = v]
        PROVE  shm'[s].id = shm[s].id
    BY <1>1 DEF TypeOK, Job
  <1>2. ASSUME NEW t \in Slots, RaiseStop(t)
        PROVE  shm'[s].id = shm[s].id
    BY <1>2 DEF TypeOK, Job, RaiseStop
  <1>3. ASSUME NEW j \in JobIds, Child(j)
        PROVE  FALSE
    <2>1. Live(j)
      BY <1>3 DEF Child, OpenFails, BeginTransfer, Abort, TransferEnds, Release,
                  Live, Alive
    <2>2. PICK v : shm' = [shm EXCEPT ![slotOf[j]].status = v]
      BY <1>3 DEF Child, OpenFails, BeginTransfer, Abort, TransferEnds, Release,
                  Become
    <2> QED
      BY <2>1, <2>2, <1>1 DEF SlotOwnership
  <1>4. ASSUME NEW j \in JobIds, CancelActive(j)
        PROVE  FALSE
    BY <1>4, <1>1 DEF CancelActive, SlotsOf
  <1>5. ASSUME NEW t \in Slots, ClickBar(t) \/ ClickButton(t) \/ ClickEdge(t)
        PROVE  FALSE
    BY <1>5, <1>2 DEF ClickBar, ClickButton, ClickEdge, Stop
  <1>6. CASE CancelRaise
    BY <1>6, <1>2 DEF CancelRaise, TypeOK
  <1>7. TakeFromQueue
    BY <1>3, <1>4, <1>5, <1>6
       DEF Next, Scan, List, Cancel, Mouse, Periodic, SkipSlot, StartJob,
           ForkFails, QueueScanned, ListStart, ListTest, ListPrint, ListQueue,
           Get, Paste, Insert, PasteWhenFull, Quit, CancelQueued, Killed, vars
  <1>8. at \in Slots
    BY <1>7, TakeType
  <1> QED
    BY <1>7, <1>8 DEF TakeFromQueue, TypeOK

\* A slot goes to its next job only when the child of the last one has written
\* J_EMPTY and stopped writing.
THEOREM HandoverIsSafe == Spec => SlotHandover
  <1>1. IInv /\ [Next]_vars =>
          [\A s \in Slots :
             shm'[s].id # shm[s].id =>
                /\ shm[s].status = "EMPTY"
                /\ \A j \in JobIds : slotOf[j] = s => ~Live(j)]_vars
    <2> SUFFICES ASSUME IInv, [Next]_vars, NEW s \in Slots,
                        shm'[s].id # shm[s].id
                 PROVE  /\ shm[s].status = "EMPTY"
                        /\ \A j \in JobIds : slotOf[j] = s => ~Live(j)
      OBVIOUS
    <2>1. TakeFromQueue /\ at = s
      BY HandoverStep
    <2> QED
      BY <2>1 DEF TakeFromQueue, IInv, SlotOwnership
  <1> QED
    BY <1>1, Invariance, PTL DEF Spec, SlotHandover

\* No step takes a job back in its life cycle, or past one of its stages.
THEOREM LifeCycleHolds == Spec => LifeCycle
  <1> DEFINE Goal == \A s \in Slots :
                        shm'[s].status # shm[s].status =>
                           shm'[s].status \in Follows(shm[s].status)
  <1>1. IInv /\ [Next]_vars => [Goal]_vars
    <2> SUFFICES ASSUME IInv, [Next]_vars
                 PROVE  Goal
      OBVIOUS
    <2> USE DEF IInv
    <2>1. ASSUME NEW j \in JobIds, NEW step, NEW status, Live(j),
                 Become(j, step, status),
                 \/ status = shm[slotOf[j]].status
                 \/ status \in Follows(shm[slotOf[j]].status)
          PROVE  Goal
      BY <2>1 DEF Become, TypeOK, Job, SlotOwnership
    <2>2. ASSUME NEW j \in JobIds, Child(j)
          PROVE  Goal
      <3>1. CASE OpenFails(j)
        BY <3>1, <2>1 DEF OpenFails, Live, Alive
      <3>2. CASE BeginTransfer(j)
        BY <3>2, <2>1 DEF BeginTransfer, Live, Alive, StatusShowsStage, Stage,
                          Follows
      <3>3. CASE Abort(j)
        BY <3>3, <2>1 DEF Abort, Live, Alive, StatusShowsStage, Stage, Follows
      <3>4. CASE TransferEnds(j)
        BY <3>4, <2>1 DEF TransferEnds, Live, Alive, StatusShowsStage, Stage,
                          Follows
      <3>5. CASE Release(j)
        BY <3>5, <2>1 DEF Release, Live, Alive, StatusShowsStage, Stage, Follows
      <3> QED
        BY <2>2, <3>1, <3>2, <3>3, <3>4, <3>5 DEF Child
    <2>3. CASE StartJob \/ ForkFails
      <3>1. TakeFromQueue /\ at \in Slots
        BY <2>3, TakeType DEF StartJob, ForkFails
      <3> QED
        BY <3>1 DEF TakeFromQueue, Started, Follows, TypeOK
    <2>4. ASSUME NEW s \in Slots, RaiseStop(s)
          PROVE  Goal
      BY <2>4 DEF RaiseStop, TypeOK, Job
    <2>5. ASSUME NEW j \in JobIds, CancelActive(j)
          PROVE  Goal
      BY <2>5 DEF CancelActive, StatusShowsStage, SlotsOf
    <2>6. ASSUME NEW s \in Slots, ClickBar(s) \/ ClickButton(s) \/ ClickEdge(s)
          PROVE  Goal
      BY <2>6, <2>4 DEF ClickBar, ClickButton, ClickEdge, Stop
    <2>7. CASE CancelRaise
      BY <2>7, <2>4 DEF CancelRaise, TypeOK
    <2> QED
      BY <2>2, <2>3, <2>5, <2>6, <2>7
         DEF Next, Scan, List, Cancel, Mouse, Periodic, SkipSlot, QueueScanned,
             ListStart, ListTest, ListPrint, ListQueue, Get, Paste, Insert,
             PasteWhenFull, Quit, CancelQueued, Killed, vars
  <1> QED
    BY <1>1, Invariance, PTL DEF Spec, LifeCycle

----------------------------------------------------------------------------
(* Stop requests.  The property is not inductive by itself: a CANCEL that   *)
(* has seen the job in the slot must still find it there when it raises     *)
(* stop_request, which holds because nothing but the dock fills a slot.     *)

StopInv ==
    /\ StopOnlyIfAsked
    /\ \A s \in Slots : shm[s].status # "EMPTY" => shm[s].id # NoJob
    /\ pc = "cancel" => at \in Slots /\ shm[at].id \in asked

\* A dock step that leaves the slots alone and does not begin a cancel, a
\* child that writes another status, or a stop request somebody asked for.
LEMMA StopStep == IInv /\ StopInv /\ [Next]_vars => StopInv'
  <1> SUFFICES ASSUME IInv, StopInv, [Next]_vars
               PROVE  StopInv'
    OBVIOUS
  <1> USE DEF StopInv, StopOnlyIfAsked
  <1>1. ASSUME UNCHANGED <<shm, asked>>,
               pc' = "cancel" => pc = "cancel" /\ at' = at
        PROVE  StopInv'
    BY <1>1
  <1>2. ASSUME TakeFromQueue, pc' # "cancel"
        PROVE  StopInv'
    <2>1. at \in Slots /\ Last(queue) \in JobIds
      BY <1>2, TakeType DEF IInv
    <2>2. shm' = [shm EXCEPT ![at] = Started(Last(queue))]
      BY <1>2 DEF TakeFromQueue
    <2>3. \A s \in Slots : shm'[s] = IF s = at THEN Started(Last(queue))
                                               ELSE shm[s]
      BY <2>1, <2>2 DEF IInv, TypeOK
    <2> QED
      BY <1>2, <2>1, <2>3 DEF TakeFromQueue, Started, JobIds, NoJob
  <1>3. ASSUME NEW j \in JobIds, Child(j)
        PROVE  StopInv'
    <2> DEFINE s == slotOf[j]
    <2>1. PICK step, status : Live(j) /\ Become(j, step, status)
      BY <1>3 DEF Child, OpenFails, BeginTransfer, Abort, TransferEnds,
                  Release, Live, Alive
    <2>2. /\ s \in Slots /\ shm[s].status # "EMPTY"
          /\ shm' = [shm EXCEPT ![s].status = status]
          /\ UNCHANGED <<asked, pc, at>>
      BY <2>1 DEF Become, dock, IInv, SlotOwnership
    <2> HIDE DEF s
    <2>3. \A t \in Slots : /\ shm'[t].id = shm[t].id
                           /\ shm'[t].stop = shm[t].stop
                           /\ t # s => shm'[t].status = shm[t].status
      BY <2>2 DEF IInv, TypeOK, Job
    <2> QED
      BY <2>2, <2>3
  <1>4. ASSUME NEW s \in Slots, RaiseStop(s), asked \subseteq asked',
               shm[s].id \in asked' \/ shm[s].id = NoJob, pc' # "cancel"
        PROVE  StopInv'
    <2>1. \A t \in Slots : /\ shm'[t].id = shm[t].id
                           /\ shm'[t].status = shm[t].status
                           /\ t # s => shm'[t].stop = shm[t].stop
      BY <1>4 DEF RaiseStop, IInv, TypeOK, Job
    <2> QED
      BY <1>4, <2>1
  <1>5. ASSUME NEW j \in JobIds, CancelActive(j)
        PROVE  StopInv'
    <2>1. PICK s \in SlotsOf(j) :
            /\ shm[s].status \notin {"EMPTY", "STOPPING", "COMPLETE"}
            /\ IF shm[s].status = "FAILED"
               THEN /\ shm' = [shm EXCEPT ![s].status = "COMPLETE"]
                    /\ UNCHANGED <<pc, at>>
               ELSE pc' = "cancel" /\ at' = s /\ UNCHANGED shm
      BY <1>5 DEF CancelActive
    <2>2. s \in Slots /\ shm[s].id = j
      BY <2>1 DEF SlotsOf
    <2>3. shm[s].status # "FAILED"
      BY <2>2 DEF IInv, StatusShowsStage
    <2> QED
      BY <1>5, <2>1, <2>2, <2>3 DEF CancelActive
  <1>6. CASE CancelRaise
    BY <1>6, <1>4 DEF CancelRaise
  <1>7. ASSUME NEW s \in Slots, ClickButton(s) \/ ClickEdge(s)
        PROVE  StopInv'
    BY <1>7, <1>1, <1>4 DEF ClickButton, ClickEdge, Stop
  <1>8. ASSUME NEW j \in JobIds, CancelQueued(j) \/ Killed(j)
        PROVE  StopInv'
    BY <1>8, <1>1 DEF CancelQueued, Killed, dock
  <1>9. ASSUME NEW s \in Slots, ClickBar(s)
        PROVE  StopInv'
    BY <1>9, <1>1 DEF ClickBar
  <1>10. CASE Periodic \/ SkipSlot \/ QueueScanned \/ List
    BY <1>10, <1>1 DEF Periodic, SkipSlot, QueueScanned, List, ListStart,
                       ListTest, ListPrint, ListQueue
  <1>11. CASE Get \/ Paste \/ PasteWhenFull \/ Quit \/ UNCHANGED vars
    BY <1>11, <1>1 DEF Get, Paste, Insert, PasteWhenFull, Quit, vars
  <1>12. CASE StartJob \/ ForkFails
    BY <1>12, <1>2 DEF StartJob, ForkFails, TakeFromQueue
  <1> QED
    BY <1>3, <1>5, <1>6, <1>7, <1>8, <1>9, <1>10, <1>11, <1>12
       DEF Next, Scan, Cancel, Mouse

\* A download is told to stop only if somebody asked for that very job: no
\* stop_request outlives its job, and no CANCEL or click hits another one.
THEOREM OnlyAskedJobsStop == Spec => []StopOnlyIfAsked
  <1>1. Init => StopInv
    BY DEF Init, StopInv, StopOnlyIfAsked
  <1>2. StopInv => StopOnlyIfAsked
    BY DEF StopInv
  <1> QED
    BY <1>1, <1>2, StopStep, Invariance, PTL DEF Spec

----------------------------------------------------------------------------
(* Slots come back: the job a slot holds keeps the slot occupied, and only  *)
(* its child may leave without having freed it.                            *)

Keeps(j, s) == slotOf[j] = s /\ shm[s].id = j /\ proc[j] \in Alive \cup Lost

\* A slot keeps its job when neither of them changes hands.
LEMMA SlotsStep == IInv /\ SlotsComeBack /\ [Next]_vars => SlotsComeBack'
  <1> SUFFICES ASSUME IInv, SlotsComeBack, [Next]_vars, NEW s \in Slots,
                      shm'[s].status # "EMPTY"
               PROVE  \E j \in JobIds : Keeps(j, s)'
    BY DEF SlotsComeBack, Keeps
  <1> DEFINE Goal == \E j \in JobIds : Keeps(j, s)'
  <1>0. shm[s].status # "EMPTY" => \E j \in JobIds : Keeps(j, s)
    BY DEF SlotsComeBack, Keeps
  <1>1. ASSUME UNCHANGED slotOf,
               shm'[s].status = shm[s].status, shm'[s].id = shm[s].id,
               \A j \in JobIds : Keeps(j, s) => proc'[j] \in Alive \cup Lost
        PROVE  Goal
    BY <1>0, <1>1 DEF Keeps
  <1>2. CASE StartJob \/ ForkFails
    <2>1. PICK n \in JobIds : TakeFromQueue /\ at \in Slots /\ n = Last(queue)
                             /\ proc[n] = "none"
      BY <1>2, TakeType, TakeQueued DEF StartJob, ForkFails, IInv
    <2>2. proc' = [proc EXCEPT ![n] = "opening"] \/ proc' = [proc EXCEPT ![n] = "unforked"]
      BY <1>2, <2>1 DEF StartJob, ForkFails
    <2>3. /\ shm' = [shm EXCEPT ![at] = Started(n)]
          /\ slotOf' = [slotOf EXCEPT ![n] = at]
      BY <2>1 DEF TakeFromQueue
    <2>4. CASE s = at
      <3>1. Keeps(n, s)'
        BY <2>1, <2>2, <2>3, <2>4 DEF Keeps, IInv, TypeOK, Started, Alive, Lost
      <3> QED
        BY <2>1, <3>1
    <2>5. CASE s # at
      <3>1. shm'[s] = shm[s]
        BY <2>1, <2>3, <2>5 DEF IInv, TypeOK
      <3>2. PICK j \in JobIds : Keeps(j, s)
        BY <1>0, <3>1
      <3>3. j # n
        BY <2>1, <3>2 DEF Keeps, Alive, Lost
      <3>4. Keeps(j, s)'
        BY <2>1, <2>2, <2>3, <3>1, <3>2, <3>3 DEF Keeps, IInv, TypeOK
      <3> QED
        BY <3>4
    <2> QED
      BY <2>4, <2>5
  <1>3. ASSUME NEW j \in JobIds, Child(j)
        PROVE  Goal
    <2>1. PICK step, status : /\ Live(j) /\ Become(j, step, status)
                              /\ step \in Alive \/ status = "EMPTY"
      BY <1>3 DEF Child, OpenFails, BeginTransfer, Abort, TransferEnds,
                  Release, Live, Alive
    <2>2. /\ slotOf[j] \in Slots /\ shm[slotOf[j]].id = j
          /\ shm' = [shm EXCEPT ![slotOf[j]].status = status]
          /\ proc' = [proc EXCEPT ![j] = step] /\ UNCHANGED slotOf
      BY <2>1 DEF Become, IInv, SlotOwnership
    <2>3. CASE s = slotOf[j]
      <3>1. step \in Alive /\ Keeps(j, s)'
        BY <2>1, <2>2, <2>3 DEF Keeps, IInv, TypeOK, Job
      <3> QED
        BY <3>1
    <2>4. CASE s # slotOf[j]
      BY <1>1, <2>2, <2>4 DEF Keeps, IInv, TypeOK
    <2> QED
      BY <2>3, <2>4
  <1>4. ASSUME NEW j \in JobIds, CancelQueued(j)
        PROVE  Goal
    <2>1. proc[j] = "none"
      BY <1>4, ToSetPositions DEF CancelQueued, IInv, TypeOK, Accounted, Queued
    <2> QED
      BY <1>1, <1>4, <2>1 DEF CancelQueued, Keeps, IInv, TypeOK, Alive, Lost
  <1>5. ASSUME NEW j \in JobIds, Killed(j)
        PROVE  Goal
    BY <1>1, <1>5 DEF Killed, Keeps, IInv, TypeOK, Lost
  <1>6. ASSUME UNCHANGED <<shm, proc, slotOf>>
        PROVE  Goal
    BY <1>1, <1>6 DEF Keeps
  <1>7. ASSUME NEW t \in Slots, RaiseStop(t), UNCHANGED <<proc, slotOf>>
        PROVE  Goal
    <2>1. shm'[s].status = shm[s].status /\ shm'[s].id = shm[s].id
      BY <1>7 DEF RaiseStop, IInv, TypeOK, Job
    <2> QED
      BY <1>1, <1>7, <2>1 DEF Keeps
  <1>8. ASSUME NEW j \in JobIds, CancelActive(j)
        PROVE  Goal
    <2>1. UNCHANGED <<shm, proc, slotOf>>
      BY <1>8 DEF CancelActive, StatusShowsStage, SlotsOf, IInv
    <2> QED
      BY <2>1, <1>6
  <1>9. CASE CancelRaise
    BY <1>9, <1>7 DEF CancelRaise, IInv, TypeOK
  <1>10. ASSUME NEW t \in Slots, ClickBar(t) \/ ClickButton(t) \/ ClickEdge(t)
         PROVE  Goal
    BY <1>10, <1>6, <1>7 DEF ClickBar, ClickButton, ClickEdge, Stop
  <1>11. CASE Periodic \/ SkipSlot \/ QueueScanned \/ List \/ Get \/ Paste
              \/ PasteWhenFull \/ Quit \/ UNCHANGED vars
    BY <1>11, <1>6 DEF Periodic, SkipSlot, QueueScanned, List, ListStart,
       ListTest, ListPrint, ListQueue, Get, Paste, Insert, PasteWhenFull, Quit, vars
  <1> QED
    BY <1>2, <1>3, <1>4, <1>5, <1>8, <1>9, <1>10, <1>11
       DEF Next, Scan, Cancel, Mouse

\* A slot that is occupied has its child, or has lost it by a fault: no order of
\* stops, cancels and ends of transfers leaves a slot taken by nobody.
THEOREM SlotsAreFreed == Spec => []SlotsComeBack
  <1>1. Init => SlotsComeBack
    BY DEF Init, SlotsComeBack
  <1> QED
    BY <1>1, SlotsStep, Invariance, PTL DEF Spec

----------------------------------------------------------------------------
(* The dock implements the pool of its manual. *)

Overs == {j \in JobIds : ~Live(j) /\ proc[j] # "none"}

\* The three sets of the pool move only with the queue and the children.
LEMMA PoolStutter ==
    ASSUME UNCHANGED <<queue, proc>>
    PROVE  UNCHANGED <<Queued, Lives, Overs>>
  BY DEF Queued, Lives, Overs, Live

\* The queue holds distinct jobs, so their number is at most its length.
LEMMA QueuedFits ==
    ASSUME IInv
    PROVE  IsFiniteSet(Queued) /\ Cardinality(Queued) <= Len(queue)
           /\ Cardinality(Queued) \in Nat
  <1> DEFINE D == 1 .. Len(queue)
  <1>1. Len(queue) \in Nat /\ queue \in [D -> JobIds]
    BY LenProperties DEF IInv, TypeOK
  <1>2. Queued = {queue[i] : i \in D}
    BY ToSetPositions DEF IInv, TypeOK, Queued
  <1>3. IsFiniteSet(D) /\ Cardinality(D) = Len(queue)
    <2>1. 1 \in Int /\ Len(queue) \in Int
      BY <1>1
    <2> QED
      BY <1>1, <2>1, FS_Interval
  <1>4. queue \in Surjection(D, Queued)
    <2>1. queue = [i \in D |-> queue[i]]
      BY <1>1
    <2>2. queue \in [D -> Queued]
      BY <2>1, <1>2
    <2> QED
      BY <2>2, <1>2 DEF Surjection
  <1> HIDE DEF D
  <1>5. IsFiniteSet(Queued) /\ Cardinality(Queued) <= Cardinality(D)
    BY <1>3, <1>4, FS_Surjection
  <1> QED
    BY <1>3, <1>5, FS_CardinalityType

\* While the dock fills a slot, fewer than MaxActive children run.
LEMMA RoomForOne ==
    ASSUME IInv, TakeFromQueue
    PROVE  Cardinality(Lives) < MaxActive
  <1>1. at \in Slots
    BY TakeType DEF IInv
  <1>2. \A j \in Lives : slotOf[j] \in Slots \ {at}
    BY DEF IInv, SlotOwnership, Lives, TakeFromQueue
  <1>3. /\ Cardinality(Lives) \in Nat
        /\ Cardinality(Lives) <= Cardinality(Slots \ {at})
    BY <1>2, LivesFit
  <1>4. Cardinality(Slots \ {at}) = MaxActive - 1
    BY <1>1, SlotsFinite, FS_RemoveElement
  <1> QED
    BY <1>3, <1>4, SizesAssumption

\* The pool counts as the dock does.
LEMMA PoolCounts == \A S : Pool!Cardinality(S) = Cardinality(S)
  BY Zenon DEF Pool!Cardinality, Cardinality

\* The jobs of the dock are those of the pool.
LEMMA PoolStep == IInv /\ [Next]_vars => [Pool!Next]_<<Queued, Lives, Overs>>
  <1> SUFFICES ASSUME IInv, [Next]_vars
               PROVE  Pool!Next \/ UNCHANGED <<Queued, Lives, Overs>>
    BY DEF Pool!Next
  <1> USE DEF Lives, Overs
  <1>1. CASE StartJob
    <2>1. PICK j \in JobIds :
          /\ j \in Queued /\ Queued' = Queued \ {j}
          /\ proc[j] = "none" /\ proc' = [proc EXCEPT ![j] = "opening"]
          /\ Cardinality(Lives) < MaxActive
      BY <1>1, TakeType, TakeQueued, RoomForOne DEF StartJob, IInv
    <2>2. Lives' = Lives \cup {j} /\ Overs' = Overs
      BY <2>1 DEF IInv, TypeOK, Live, Alive
    <2>3. Pool!Begin(j)
      BY <2>1, <2>2, PoolCounts DEF Pool!Begin
    <2> QED
      BY <2>3 DEF Pool!Next
  <1>2. CASE ForkFails
    <2>1. PICK j \in JobIds :
          /\ j \in Queued /\ Queued' = Queued \ {j}
          /\ proc[j] = "none" /\ proc' = [proc EXCEPT ![j] = "unforked"]
      BY <1>2, TakeType, TakeQueued DEF ForkFails, IInv
    <2>2. Lives' = Lives /\ Overs' = Overs \cup {j}
      BY <2>1 DEF IInv, TypeOK, Live, Alive
    <2>3. Pool!Drop(j)
      BY <2>1, <2>2 DEF Pool!Drop
    <2> QED
      BY <2>3 DEF Pool!Next
  <1>3. CASE Get \/ Paste
    <2>1. Insert /\ nextId \in JobIds
      BY <1>3 DEF Get, Paste, Insert, IInv, TypeOK, JobIds
    <2>2. nextId \notin Queued /\ proc[nextId] = "none"
      BY <2>1 DEF IInv, Accounted, TypeOK
    <2>3. Queued' = Queued \cup {nextId}
      BY <2>1, <2>2, AppendAdds
         DEF IInv, TypeOK, Accounted, Distinct, Insert, Queued
    <2>4. Lives' = Lives /\ Overs' = Overs
      BY <2>1 DEF Insert, Live
    <2>5. Cardinality(Queued) < MaxQueued
      BY <2>1, QueuedFits, LenProperties, SizesAssumption
         DEF Insert, IInv, TypeOK
    <2>6. Pool!Accept(nextId)
      BY <2>2, <2>3, <2>4, <2>5, PoolCounts DEF Pool!Accept, Live, Alive
    <2> QED
      BY <2>1, <2>6 DEF Pool!Next
  <1>4. ASSUME NEW j \in JobIds, CancelQueued(j)
        PROVE  Pool!Next
    <2>1. PICK i \in 1 .. Len(queue) : queue[i] = j /\ queue' = RemoveAt(queue, i)
      BY <1>4 DEF CancelQueued
    <2>2. Queued' = Queued \ {j} /\ j \in Queued
      BY <2>1, RemoveTakesOne, ToSetPositions
         DEF IInv, TypeOK, Accounted, Distinct, Queued
    <2>3. proc[j] = "none" /\ proc' = [proc EXCEPT ![j] = "dropped"]
      BY <1>4, <2>2 DEF CancelQueued, IInv, Accounted
    <2>4. Lives' = Lives /\ Overs' = Overs \cup {j}
      BY <2>3 DEF IInv, TypeOK, Live, Alive
    <2>5. Pool!Drop(j)
      BY <2>2, <2>4 DEF Pool!Drop
    <2> QED
      BY <2>5 DEF Pool!Next
  <1>5. ASSUME NEW j \in JobIds, Live(j), UNCHANGED queue,
               NEW step, step \notin Alive, step # "none",
               proc' = [proc EXCEPT ![j] = step]
        PROVE  Pool!Next
    <2>1. j \in Lives /\ Lives' = Lives \ {j} /\ Overs' = Overs \cup {j}
      BY <1>5 DEF IInv, TypeOK, Live
    <2>2. Queued' = Queued
      BY <1>5 DEF Queued
    <2>3. Pool!Finish(j)
      BY <2>1, <2>2 DEF Pool!Finish
    <2> QED
      BY <2>3 DEF Pool!Next
  <1>6. ASSUME NEW j \in JobIds, Release(j) \/ Killed(j)
        PROVE  Pool!Next
    BY <1>6, <1>5 DEF Release, Become, Killed, Live, Alive, dock
  <1>7. ASSUME NEW j \in JobIds,
               OpenFails(j) \/ BeginTransfer(j) \/ Abort(j) \/ TransferEnds(j)
        PROVE  UNCHANGED <<Queued, Lives, Overs>>
    <2>1. PICK step \in Alive : proc' = [proc EXCEPT ![j] = step] /\ Live(j)
                               /\ UNCHANGED queue
      BY <1>7 DEF OpenFails, BeginTransfer, Abort, TransferEnds, Become, Live,
                  Alive, dock
    <2>2. Lives' = Lives /\ Overs' = Overs
      BY <2>1 DEF IInv, TypeOK, Live, Alive
    <2> QED
      BY <2>1, <2>2 DEF Queued
  <1>8. ASSUME NEW j \in JobIds, CancelActive(j)
        PROVE  UNCHANGED <<Queued, Lives, Overs>>
    BY <1>8, PoolStutter DEF CancelActive
  <1>9. ASSUME NEW s \in Slots, ClickBar(s) \/ ClickButton(s) \/ ClickEdge(s)
        PROVE  UNCHANGED <<Queued, Lives, Overs>>
    BY <1>9, PoolStutter DEF ClickBar, ClickButton, ClickEdge
  <1>10. CASE Periodic \/ SkipSlot \/ QueueScanned \/ List \/ CancelRaise
              \/ PasteWhenFull \/ Quit \/ UNCHANGED vars
    BY <1>10, PoolStutter DEF Periodic, SkipSlot, QueueScanned, List, ListStart,
         ListTest, ListPrint, ListQueue, CancelRaise, PasteWhenFull, Quit, vars
  <1> QED
    BY <1>1, <1>2, <1>3, <1>4, <1>6, <1>7, <1>8, <1>9, <1>10
       DEF Next, Scan, Cancel, Mouse, Child

\* Every step of the dock, its clients and its children is one the manual's
\* pool of downloads allows, for any number of places and any queue.
THEOREM DockImplementsPool == Spec => ImplementsPool
  <1>1. Init => Queued = {} /\ Lives = {} /\ Overs = {}
    BY EmptySeq, LenProperties
       DEF Init, Queued, ToSet, Lives, Overs, Live, Alive
  <1>2. Init => Pool!Init
    BY <1>1 DEF Pool!Init, Lives, Overs
  <1>3. IInv /\ [Next]_vars => [Pool!Next]_(Pool!pool)
    <2>1. Pool!pool = <<Queued, Lives, Overs>>
      BY DEF Pool!pool, Lives, Overs
    <2>2. (Pool!pool)' = <<Queued, Lives, Overs>>'
      BY DEF Pool!pool, Lives, Overs
    <2> QED
      BY PoolStep, <2>1, <2>2
  <1> QED
    BY <1>2, <1>3, Invariance, PTL DEF Spec, ImplementsPool, Pool!Spec

============================================================================
