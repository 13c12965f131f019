---------------------------- MODULE DaLoopProofs ----------------------------
(***************************************************************************)
(* Proofs about the main loop of wmget's dockapp library, for any timer    *)
(* interval, any number of events and of connections.                      *)
(*                                                                         *)
(* Where an event is on its way is told by the concatenation of the events *)
(* handled, those in the queue of Xlib and those on the socket.  Each step *)
(* moves events along it or leaves motion and expose events out of a part  *)
(* of it, so the proof rests on what Without does to a concatenation; that *)
(* in turn is proved by induction on the sequence.                         *)
(***************************************************************************)
EXTENDS DaLoop, FiniteSetTheorems, SequenceTheorems, TLAPS

----------------------------------------------------------------------------
(* Induction.  The theorems of the library about induction quantify over a *)
(* formula; these quantify over the set of the values that satisfy it.     *)

LEMMA SmallestOf ==
    ASSUME NEW T \in SUBSET Nat, T # {}
    PROVE  \E x \in T : \A y \in T : ~(y < x)
  <1>1. PICK R : R = OpToRel(<, Nat)
    OBVIOUS
  <1>2. IsWellFoundedOn(R, Nat)
    BY <1>1, NatLessThanWellFounded
  <1>3. \E x \in T : \A y \in T : ~(<<y, x>> \in R)
    BY <1>2, WFMin
  <1>4. \A x, y \in Nat : <<y, x>> \in R <=> y < x
    BY <1>1 DEF OpToRel
  <1> QED
    BY <1>3, <1>4

\* A set that 0 is in, and with every number the next one, has them all.
LEMMA NatSetInduction ==
    ASSUME NEW D, 0 \in D, \A n \in Nat : n \in D => n + 1 \in D
    PROVE  Nat \subseteq D
  <1> SUFFICES ASSUME Nat \ D # {}
               PROVE  FALSE
    OBVIOUS
  <1>1. PICK x \in Nat \ D : \A y \in Nat \ D : ~(y < x)
    BY SmallestOf
  <1>2. x # 0 /\ x - 1 \in Nat /\ x - 1 < x /\ (x - 1) + 1 = x
    BY <1>1
  <1>3. x - 1 \in D
    BY <1>1, <1>2
  <1> QED
    BY <1>1, <1>2, <1>3

\* The same for the sequences over a set, which grow at their end.
LEMMA SeqSetInduction ==
    ASSUME NEW S, NEW D, << >> \in D,
           \A q \in Seq(S), e \in S : q \in D => Append(q, e) \in D
    PROVE  Seq(S) \subseteq D
  <1> DEFINE N == {n \in Nat : \A q \in Seq(S) : Len(q) = n => q \in D}
  <1>1. 0 \in N
    BY EmptySeq
  <1>2. ASSUME NEW n \in Nat, n \in N
        PROVE  n + 1 \in N
    <2>1. SUFFICES ASSUME NEW q \in Seq(S), Len(q) = n + 1
                   PROVE  q \in D
      OBVIOUS
    <2>2. q # << >>
      BY <2>1, EmptySeq
    <2>3. PICK p \in Seq(S), e \in S : q = Append(p, e)
      BY <2>2, SequenceEmptyOrAppend
    <2>4. Len(q) = Len(p) + 1 /\ Len(p) \in Nat
      BY <2>3, AppendProperties, LenProperties
    <2>5. Len(p) = n
      BY <2>1, <2>4
    <2>6. p \in D
      BY <1>2, <2>5
    <2> QED
      BY <2>3, <2>6
  <1>3. Nat \subseteq N
    <2> HIDE DEF N
    <2> QED
      BY <1>1, <1>2, NatSetInduction
  <1>4. ASSUME NEW q \in Seq(S)
        PROVE  q \in D
    <2>1. Len(q) \in N
      BY <1>3, LenProperties
    <2> QED
      BY <2>1
  <1> QED
    BY <1>4


----------------------------------------------------------------------------
(* Without *)

\* The equations that Without computes by, for the first m events.
Filters(f, kinds, q, m) ==
    f = [n \in 0 .. m |-> IF n = 0 THEN << >>
                          ELSE IF q[n] \in kinds THEN f[n - 1]
                          ELSE Append(f[n - 1], q[n])]

LEMMA FilterExists ==
    ASSUME NEW q, NEW kinds
    PROVE  \A m \in Nat : \E f : Filters(f, kinds, q, m)
  <1> DEFINE D == {m \in Nat : \E f : Filters(f, kinds, q, m)}
  <1>1. 0 \in D
    <2>1. PICK f : f = [n \in 0 .. 0 |-> << >>]
      OBVIOUS
    <2>2. Filters(f, kinds, q, 0)
      BY <2>1 DEF Filters
    <2> QED
      BY <2>2
  <1>2. ASSUME NEW m \in Nat, m \in D
        PROVE  m + 1 \in D
    <2>1. PICK g : Filters(g, kinds, q, m)
      BY <1>2
    <2>2. PICK f : f = [n \in 0 .. m + 1 |->
                          IF n <= m THEN g[n]
                          ELSE IF q[n] \in kinds THEN g[n - 1]
                          ELSE Append(g[n - 1], q[n])]
      OBVIOUS
    <2>3. \A n \in 0 .. m : f[n] = g[n]
      BY <2>2
    <2>4. \A n \in 0 .. m + 1 :
            f[n] = IF n = 0 THEN << >>
                   ELSE IF q[n] \in kinds THEN f[n - 1]
                   ELSE Append(f[n - 1], q[n])
      <3> TAKE n \in 0 .. m + 1
      <3>1. CASE n <= m
        <4>1. n \in 0 .. m /\ (n # 0 => n - 1 \in 0 .. m)
          BY <3>1
        <4>2. g[n] = IF n = 0 THEN << >>
                     ELSE IF q[n] \in kinds THEN g[n - 1]
                     ELSE Append(g[n - 1], q[n])
          BY <2>1, <4>1 DEF Filters
        <4>3. f[n] = g[n] /\ (n # 0 => f[n - 1] = g[n - 1])
          BY <2>3, <4>1
        <4> QED
          BY <4>2, <4>3
      <3>2. CASE ~(n <= m)
        <4>1. n # 0 /\ n - 1 \in 0 .. m
          BY <3>2
        <4>2. f[n - 1] = g[n - 1]
          BY <2>3, <4>1
        <4>3. f[n] = IF q[n] \in kinds THEN g[n - 1] ELSE Append(g[n - 1], q[n])
          BY <2>2, <3>2
        <4> QED
          BY <4>1, <4>2, <4>3
      <3> QED
        BY <3>1, <3>2
    <2>5. f = [n \in 0 .. m + 1 |-> f[n]]
      BY <2>2
    <2>6. Filters(f, kinds, q, m + 1)
      BY <2>4, <2>5 DEF Filters
    <2> QED
      BY <2>6
  <1>3. Nat \subseteq D
    <2> HIDE DEF D
    <2> QED
      BY <1>1, <1>2, NatSetInduction
  <1> QED
    BY <1>3

\* The equations of a longer sequence give those of a shorter one it begins
\* with the same result.
LEMMA FilterUnique ==
    ASSUME NEW q, NEW r, NEW kinds, NEW k \in Nat, NEW m \in Nat, NEW n \in Nat,
           k <= m, k <= n, \A i \in 1 .. k : q[i] = r[i],
           NEW f, Filters(f, kinds, q, m), NEW g, Filters(g, kinds, r, n)
    PROVE  f[k] = g[k]
  <1> DEFINE D == {i \in Nat : i <= k => f[i] = g[i]}
  <1>1. /\ \A i \in 0 .. m : f[i] = IF i = 0 THEN << >>
                                    ELSE IF q[i] \in kinds THEN f[i - 1]
                                    ELSE Append(f[i - 1], q[i])
        /\ \A i \in 0 .. n : g[i] = IF i = 0 THEN << >>
                                    ELSE IF r[i] \in kinds THEN g[i - 1]
                                    ELSE Append(g[i - 1], r[i])
    BY DEF Filters
  <1>2. 0 \in D
    BY <1>1
  <1>3. ASSUME NEW i \in Nat, i \in D
        PROVE  i + 1 \in D
    <2>1. CASE i + 1 <= k
      <3>1. /\ i + 1 \in 0 .. m /\ i + 1 \in 0 .. n /\ i + 1 \in 1 .. k
            /\ i + 1 # 0 /\ (i + 1) - 1 = i
        BY <2>1
      <3>2. f[i] = g[i] /\ q[i + 1] = r[i + 1]
        BY <1>3, <2>1, <3>1
      <3>3. f[i + 1] = IF q[i + 1] \in kinds THEN f[i] ELSE Append(f[i], q[i + 1])
        BY <1>1, <3>1
      <3>4. g[i + 1] = IF r[i + 1] \in kinds THEN g[i] ELSE Append(g[i], r[i + 1])
        BY <1>1, <3>1
      <3>5. f[i + 1] = g[i + 1]
        BY <3>2, <3>3, <3>4
      <3> QED
        BY <3>5
    <2>2. CASE ~(i + 1 <= k)
      BY <2>2
    <2> QED
      BY <2>1, <2>2
  <1>4. Nat \subseteq D
    <2> HIDE DEF D
    <2> QED
      BY <1>2, <1>3, NatSetInduction
  <1> QED
    BY <1>4

\* What Without computes.
LEMMA WithoutIs ==
    ASSUME NEW S, NEW q \in Seq(S), NEW kinds
    PROVE  \E f : Filters(f, kinds, q, Len(q)) /\ Without(kinds, q) = f[Len(q)]
  <1> DEFINE F == CHOOSE f : Filters(f, kinds, q, Len(q))
  <1>1. \E f : Filters(f, kinds, q, Len(q))
    BY FilterExists, LenProperties
  <1>2. Filters(F, kinds, q, Len(q))
    BY <1>1
  <1>3. Without(kinds, q) = F[Len(q)]
    BY DEF Without, Filters
  <1> QED
    BY <1>2, <1>3

LEMMA WithoutEmpty ==
    ASSUME NEW kinds
    PROVE  Without(kinds, << >>) = << >>
  <1>1. << >> \in Seq({}) /\ Len(<< >>) = 0
    BY EmptySeq
  <1>2. PICK f : Filters(f, kinds, << >>, 0) /\ Without(kinds, << >>) = f[0]
    BY <1>1, WithoutIs
  <1> QED
    BY <1>2 DEF Filters

LEMMA WithoutAppend ==
    ASSUME NEW S, NEW q \in Seq(S), NEW e \in S, NEW kinds
    PROVE  Without(kinds, Append(q, e))
             = IF e \in kinds THEN Without(kinds, q)
               ELSE Append(Without(kinds, q), e)
  <1>1. PICK r : r = Append(q, e)
    OBVIOUS
  <1>2. PICK n \in Nat : n = Len(q)
    BY LenProperties
  <1>3. /\ r \in Seq(S) /\ Len(r) = n + 1 /\ r[n + 1] = e
        /\ \A i \in 1 .. n : q[i] = r[i]
    BY <1>1, <1>2, AppendProperties
  <1>4. PICK f : Filters(f, kinds, q, n) /\ Without(kinds, q) = f[n]
    BY <1>2, WithoutIs
  <1>5. PICK g : Filters(g, kinds, r, n + 1) /\ Without(kinds, r) = g[n + 1]
    BY <1>3, WithoutIs
  <1>6. f[n] = g[n]
    BY <1>3, <1>4, <1>5, FilterUnique
  <1>7. n + 1 \in 0 .. n + 1 /\ n + 1 # 0 /\ (n + 1) - 1 = n
    OBVIOUS
  <1>8. g[n + 1] = IF r[n + 1] \in kinds THEN g[n] ELSE Append(g[n], r[n + 1])
    BY <1>5, <1>7 DEF Filters
  <1> QED
    BY <1>1, <1>3, <1>4, <1>5, <1>6, <1>8

LEMMA WithoutType ==
    ASSUME NEW S, NEW q \in Seq(S), NEW kinds
    PROVE  Without(kinds, q) \in Seq(S \ kinds) /\ Without(kinds, q) \in Seq(S)
  <1> DEFINE D == {p \in Seq(S) : Without(kinds, p) \in Seq(S \ kinds)}
  <1>1. << >> \in D
    BY WithoutEmpty, EmptySeq
  <1>2. ASSUME NEW p \in Seq(S), NEW e \in S, p \in D
        PROVE  Append(p, e) \in D
    <2>1. Append(p, e) \in Seq(S)
      BY AppendProperties
    <2>2. Without(kinds, p) \in Seq(S \ kinds)
      BY <1>2
    <2>3. e \notin kinds => Append(Without(kinds, p), e) \in Seq(S \ kinds)
      BY <2>2, AppendProperties
    <2>4. Without(kinds, Append(p, e))
            = IF e \in kinds THEN Without(kinds, p) ELSE Append(Without(kinds, p), e)
      BY WithoutAppend
    <2>5. Without(kinds, Append(p, e)) \in Seq(S \ kinds)
      BY <2>2, <2>3, <2>4
    <2> QED
      BY <2>1, <2>5
  <1>3. Seq(S) \subseteq D
    <2> HIDE DEF D
    <2> QED
      BY <1>1, <1>2, SeqSetInduction
  <1>4. Without(kinds, q) \in Seq(S \ kinds)
    BY <1>3
  <1>5. S \ kinds \subseteq S
    OBVIOUS
  <1> QED
    BY <1>4, <1>5, SeqMonotonic

LEMMA ConcatAppend ==
    ASSUME NEW S, NEW a \in Seq(S), NEW b \in Seq(S), NEW e \in S
    PROVE  a \o Append(b, e) = Append(a \o b, e)
  <1> DEFINE f == <<e>>
  <1>1. f \in Seq(S) /\ f = <<e>>
    OBVIOUS
  <1> HIDE DEF f
  <1>2. Append(b, e) = b \o f
    BY <1>1, AppendIsConcat
  <1>3. PICK c \in Seq(S) : c = a \o b
    BY ConcatProperties
  <1>4. Append(c, e) = c \o f
    BY <1>1, AppendIsConcat
  <1>5. (a \o b) \o f = a \o (b \o f)
    BY <1>1, ConcatAssociative, SMT
  <1> QED
    BY <1>2, <1>3, <1>4, <1>5, Zenon

\* Filtering the parts is filtering the whole.
LEMMA WithoutConcat ==
    ASSUME NEW S, NEW q \in Seq(S), NEW r \in Seq(S), NEW kinds
    PROVE  Without(kinds, q \o r) = Without(kinds, q) \o Without(kinds, r)
  <1> DEFINE D == {p \in Seq(S) : Without(kinds, q \o p)
                                    = Without(kinds, q) \o Without(kinds, p)}
  <1>1. << >> \in D
    <2>1. q \o << >> = q
      BY ConcatEmptySeq
    <2>2. Without(kinds, q) \o << >> = Without(kinds, q)
      BY WithoutType, ConcatEmptySeq
    <2> QED
      BY <2>1, <2>2, WithoutEmpty, EmptySeq
  <1>2. ASSUME NEW p \in Seq(S), NEW e \in S, p \in D
        PROVE  Append(p, e) \in D
    <2>1. PICK a \in Seq(S) : a = Without(kinds, q)
      BY WithoutType
    <2>2. PICK b \in Seq(S) : b = Without(kinds, p)
      BY WithoutType
    <2>3. q \o p \in Seq(S) /\ <<e>> \in Seq(S) /\ Append(p, e) \in Seq(S)
      BY ConcatProperties, AppendProperties
    <2>4. q \o Append(p, e) = Append(q \o p, e)
      BY ConcatAppend, SMT
    <2>5. a \o Append(b, e) = Append(a \o b, e)
      BY ConcatAppend, SMT
    <2>6. Without(kinds, q \o p) = a \o b
      BY <1>2, <2>1, <2>2
    <2>7. Without(kinds, Append(q \o p, e))
            = IF e \in kinds THEN a \o b ELSE Append(a \o b, e)
      <3>1. PICK c \in Seq(S) : c = q \o p
        BY <2>3
      <3>2. Without(kinds, Append(c, e))
              = IF e \in kinds THEN Without(kinds, c) ELSE Append(Without(kinds, c), e)
        BY WithoutAppend
      <3> QED
        BY <3>1, <3>2, <2>6
    <2>8. Without(kinds, Append(p, e)) = IF e \in kinds THEN b ELSE Append(b, e)
      BY <2>2, WithoutAppend
    <2>9. Without(kinds, q \o Append(p, e)) = a \o Without(kinds, Append(p, e))
      BY <2>4, <2>5, <2>7, <2>8
    <2> QED
      BY <2>1, <2>3, <2>9
  <1>3. Seq(S) \subseteq D
    <2> HIDE DEF D
    <2> QED
      BY <1>1, <1>2, SeqSetInduction
  <1> QED
    BY <1>3

\* Filtering twice is filtering once.
LEMMA WithoutTwice ==
    ASSUME NEW S, NEW q \in Seq(S), NEW some, NEW kinds, some \subseteq kinds
    PROVE  Without(kinds, Without(some, q)) = Without(kinds, q)
  <1> DEFINE D == {p \in Seq(S) : Without(kinds, Without(some, p)) = Without(kinds, p)}
  <1>1. << >> \in D
    BY WithoutEmpty, EmptySeq
  <1>2. ASSUME NEW p \in Seq(S), NEW e \in S, p \in D
        PROVE  Append(p, e) \in D
    <2>1. Append(p, e) \in Seq(S)
      BY AppendProperties
    <2>2. PICK a \in Seq(S) : a = Without(some, p)
      BY WithoutType
    <2>3. Without(kinds, a) = Without(kinds, p)
      BY <1>2, <2>2
    <2>4. Without(some, Append(p, e)) = IF e \in some THEN a ELSE Append(a, e)
      BY <2>2, WithoutAppend
    <2>5. Without(kinds, Append(a, e))
            = IF e \in kinds THEN Without(kinds, a) ELSE Append(Without(kinds, a), e)
      BY WithoutAppend
    <2>6. Without(kinds, Append(p, e))
            = IF e \in kinds THEN Without(kinds, p) ELSE Append(Without(kinds, p), e)
      BY WithoutAppend
    <2>7. Without(kinds, Without(some, Append(p, e))) = Without(kinds, Append(p, e))
      <3>1. CASE e \in some
        BY <2>3, <2>4, <2>6, <3>1
      <3>2. CASE e \notin some
        BY <2>3, <2>4, <2>5, <2>6, <3>2
      <3> QED
        BY <3>1, <3>2
    <2> QED
      BY <2>1, <2>7
  <1>3. Seq(S) \subseteq D
    <2> HIDE DEF D
    <2> QED
      BY <1>1, <1>2, SeqSetInduction
  <1> QED
    BY <1>3

----------------------------------------------------------------------------
(* What stays of the events on their way. *)

LEMMA KeptType ==
    ASSUME NEW q \in Seq(Event)
    PROVE  Kept(q) \in Seq(Event) /\ Read(q) \in Seq(Event) /\ NoExpose(q) \in Seq(Event)
  BY WithoutType DEF Kept, Read, NoExpose

LEMMA KeptConcat ==
    ASSUME NEW q \in Seq(Event), NEW r \in Seq(Event)
    PROVE  Kept(q \o r) = Kept(q) \o Kept(r)
  BY WithoutConcat DEF Kept

LEMMA KeptNotLost ==
    ASSUME NEW q \in Seq(Event)
    PROVE  Kept(Read(q)) = Kept(q) /\ Kept(NoExpose(q)) = Kept(q)
  <1>1. {"motion"} \subseteq {"expose", "motion"} /\ {"expose"} \subseteq {"expose", "motion"}
    OBVIOUS
  <1> QED
    BY <1>1, WithoutTwice DEF Kept, Read, NoExpose

LEMMA KeptAppend ==
    ASSUME NEW q \in Seq(Event), NEW e \in Event
    PROVE  Kept(Append(q, e)) = Kept(q) \o Kept(<<e>>)
  <1>1. <<e>> \in Seq(Event) /\ Append(q, e) = q \o <<e>>
    BY AppendIsConcat
  <1> QED
    BY <1>1, KeptConcat

LEMMA KeptNoise == Kept(<<"motion">>) = << >> /\ Kept(<< >>) = << >>
  <1>1. <<"motion">> = Append(<< >>, "motion") /\ << >> \in Seq(Event) /\ "motion" \in Event
    BY EmptySeq DEF Event
  <1>2. Kept(<< >>) = << >>
    BY WithoutEmpty DEF Kept
  <1>3. \A q \in Seq(Event) : Kept(Append(q, "motion")) = Kept(q)
    <2> TAKE q \in Seq(Event)
    <2>1. Without({"expose", "motion"}, Append(q, "motion"))
            = IF "motion" \in {"expose", "motion"} THEN Without({"expose", "motion"}, q)
              ELSE Append(Without({"expose", "motion"}, q), "motion")
      BY <1>1, WithoutAppend
    <2> QED
      BY <2>1 DEF Kept
  <1> QED
    BY <1>1, <1>2, <1>3

LEMMA KeptHead ==
    ASSUME NEW q \in Seq(Event), q # << >>
    PROVE  /\ Head(q) \in Event /\ Tail(q) \in Seq(Event)
           /\ Kept(q) = Kept(<<Head(q)>>) \o Kept(Tail(q))
  <1>1. Len(q) \in Nat \ {0}
    BY EmptySeq
  <1>2. Head(q) \in Event /\ Tail(q) \in Seq(Event) /\ Head(q) = q[1]
    BY HeadTailProperties
  <1>3. 1 \in 1 .. Len(q) /\ Len(q) \in 1 .. Len(q)
    BY <1>1
  <1>4. SubSeq(q, 1, Len(q)) = <<q[1]>> \o SubSeq(q, 1 + 1, Len(q))
    BY <1>3, SubSeqRecursiveFirst
  <1>5. q = <<Head(q)>> \o Tail(q)
    BY <1>2, <1>4, SubSeqFull, TailIsSubSeq
  <1>6. PICK e \in Event, t \in Seq(Event) : e = Head(q) /\ t = Tail(q)
    BY <1>2
  <1>7. <<e>> \in Seq(Event)
    OBVIOUS
  <1>8. Kept(<<e>> \o t) = Kept(<<e>>) \o Kept(t)
    BY <1>7, KeptConcat
  <1> QED
    BY <1>2, <1>5, <1>6, <1>8

\* What a redraw and XSync do to the two places events wait at.
LEMMA MovedToQueue ==
    ASSUME NEW x \in Seq(Event), NEW w \in Seq(Event),
           NEW z \in {x \o Read(w), NoExpose(x \o Read(w))}
    PROVE  z \in Seq(Event) /\ Kept(z) = Kept(x) \o Kept(w)
  <1>1. PICK r \in Seq(Event) : r = Read(w)
    BY KeptType
  <1>2. PICK a \in Seq(Event) : a = x \o r
    BY ConcatProperties
  <1>3. Kept(a) = Kept(x) \o Kept(r) /\ Kept(r) = Kept(w)
    BY <1>1, <1>2, KeptConcat, KeptNotLost
  <1>4. NoExpose(a) \in Seq(Event) /\ Kept(NoExpose(a)) = Kept(a)
    BY KeptType, KeptNotLost
  <1>5. z = a \/ z = NoExpose(a)
    BY <1>1, <1>2
  <1> QED
    BY <1>3, <1>4, <1>5

\* What XPending leaves at them.
LEMMA KeptPending ==
    ASSUME xq \in Seq(Event), wire \in Seq(Event)
    PROVE  /\ Pending \in Seq(Event) /\ Unread \in Seq(Event)
           /\ Kept(Pending) \o Kept(Unread) = Kept(xq) \o Kept(wire)
  <1>1. CASE xq = << >>
    <2>1. Pending = Read(wire) /\ Unread = << >>
      BY <1>1 DEF Pending, Unread
    <2>2. Kept(Unread) = << >> /\ Kept(xq) = << >>
      BY <1>1, <2>1, KeptNoise
    <2>3. Kept(Pending) = Kept(wire)
      BY <2>1, KeptNotLost
    <2>4. PICK k \in Seq(Event) : k = Kept(wire)
      BY KeptType
    <2>5. k \o << >> = k /\ << >> \o k = k
      BY ConcatEmptySeq
    <2> QED
      BY <2>1, <2>2, <2>3, <2>4, <2>5, KeptType, EmptySeq
  <1>2. CASE xq # << >>
    BY <1>2 DEF Pending, Unread
  <1> QED
    BY <1>1, <1>2

----------------------------------------------------------------------------
(* Types and the order of events *)

\* A callback is run for a connection that is there.
Connected ==
    /\ clients <= connects
    /\ ready \in {<<"iq">>, <<"x", "iq">>} => clients > 0

IInv == TypeOK /\ Connected /\ EventsInOrder

LEMMA InitInv == Init => IInv
  <1> SUFFICES ASSUME Init
               PROVE  IInv
    OBVIOUS
  <1> USE BoundsAssumption
  <1>1. << >> \in Seq(Event)
    BY EmptySeq
  <1>2. TypeOK
    <2>1. {wire, xq, sent, handled} \subseteq Seq(Event)
      BY <1>1 DEF Init
    <2>2. 0 \in 0 .. Slip /\ 0 \in 0 .. MaxClients /\ 0 \in -1 .. Interval /\ Interval \in -1 .. Interval
      OBVIOUS
    <2> QED
      BY <2>1, <2>2 DEF Init, TypeOK
  <1>3. Connected
    BY DEF Init, Connected
  <1>4. << >> \o << >> = << >>
    BY <1>1, ConcatEmptySeq
  <1>5. EventsInOrder
    BY <1>4, KeptNoise DEF Init, EventsInOrder
  <1> QED
    BY <1>2, <1>3, <1>5 DEF IInv

\* What poll may report.
LEMMA ReadableIs ==
    /\ Readable \in {<<>>, <<"x">>, <<"iq">>, <<"x", "iq">>}
    /\ Readable \in {<<"iq">>, <<"x", "iq">>} => clients > 0
  <1>1. /\ << >> \in Seq(Callbacks) /\ <<"x">> \in Seq(Callbacks)
        /\ <<"iq">> \in Seq(Callbacks)
    BY DEF Callbacks
  <1>2. << >> \o << >> = << >> /\ <<"x">> \o << >> = <<"x">> /\ << >> \o <<"iq">> = <<"iq">>
    BY <1>1, ConcatEmptySeq
  <1>3. <<"x">> \o <<"iq">> = <<"x", "iq">>
    <2>1. "iq" \in Callbacks
      BY DEF Callbacks
    <2>2. Append(<<"x">>, "iq") = <<"x">> \o <<"iq">>
      BY <1>1, <2>1, AppendIsConcat
    <2>3. Append(<<"x">>, "iq") = <<"x", "iq">>
      <3>1. PICK a \in Seq(Callbacks) : a = Append(<<"x">>, "iq")
        BY <1>1, <2>1, AppendProperties
      <3>2. <<"x", "iq">> \in Seq(Callbacks)
        BY DEF Callbacks
      <3>3. Len(<<"x">>) = 1 /\ <<"x">>[1] = "x"
        OBVIOUS
      <3>4. Len(a) = 2 /\ a[1] = "x" /\ a[2] = "iq"
        BY <1>1, <2>1, <3>1, <3>3, AppendProperties
      <3>5. Len(<<"x", "iq">>) = 2 /\ <<"x", "iq">>[1] = "x" /\ <<"x", "iq">>[2] = "iq"
        OBVIOUS
      <3>6. \A i \in 1 .. 2 : a[i] = <<"x", "iq">>[i]
        BY <3>4, <3>5
      <3> QED
        BY <3>1, <3>2, <3>4, <3>5, <3>6, SeqEqual
    <2> QED
      BY <2>2, <2>3
  <1>4. << >> # <<"iq">> /\ << >> # <<"x", "iq">> /\ <<"x">> # <<"iq">>
        /\ <<"x">> # <<"x", "iq">>
    OBVIOUS
  <1>5. CASE clients > 0
    BY <1>2, <1>3, <1>5 DEF Readable
  <1>6. CASE ~(clients > 0)
    BY <1>2, <1>4, <1>6 DEF Readable
  <1> QED
    BY <1>5, <1>6

\* Steps that leave the events alone.
LEMMA QuietStep ==
    ASSUME IInv, [Next]_vars,
           \/ Connect \/ Tick \/ TimerNotDue \/ SetTimeout
           \/ PollTimesOut \/ PollFails \/ PollReturns
           \/ RunIq \/ DispatchEnds \/ UNCHANGED vars
    PROVE  IInv'
  <1> USE BoundsAssumption DEF timer, queues, iq
  <1>1. UNCHANGED queues
    BY DEF Connect, Tick, TimerNotDue, SetTimeout, PollTimesOut, PollFails, PollReturns,
           RunIq, DispatchEnds, vars
  <1>2. EventsInOrder'
    BY <1>1 DEF IInv, EventsInOrder
  <1>3. TypeOK' /\ Connected'
    <2> USE DEF IInv, TypeOK, Connected
    <2>1. CASE Connect
      BY <2>1, <1>1 DEF Connect
    <2>2. CASE Tick
      BY <2>2, <1>1 DEF Tick
    <2>3. CASE TimerNotDue
      BY <2>3, <1>1 DEF TimerNotDue
    <2>4. CASE SetTimeout
      BY <2>4, <1>1 DEF SetTimeout, Forever
    <2>5. CASE PollTimesOut
      BY <2>5, <1>1 DEF PollTimesOut
    <2>6. CASE PollFails
      BY <2>6, <1>1 DEF PollFails
    <2>7. CASE PollReturns
      <3>1. ready' = Readable /\ Readable # << >> /\ pc' = "dispatch"
        BY <2>7 DEF PollReturns
      <3>2. Readable \in {<<>>, <<"x">>, <<"iq">>, <<"x", "iq">>}
        BY ReadableIs
      <3>3. Readable \in {<<"iq">>, <<"x", "iq">>} => clients > 0
        BY ReadableIs
      <3> QED
        BY <2>7, <3>1, <3>2, <3>3, <1>1 DEF PollReturns
    <2>8. CASE RunIq
      <3>1. ready = <<"iq">>
        BY <2>8 DEF RunIq
      <3>2. ready' = << >> /\ clients' = clients - 1 /\ clients > 0
        BY <2>8, <3>1 DEF RunIq
      <3>3. UNCHANGED <<pc, timer, queues, connects, exitAsked>>
        BY <2>8 DEF RunIq
      <3>4. TypeOK'
        BY <3>2, <3>3
      <3>5. Connected'
        BY <3>2, <3>3
      <3> QED
        BY <3>4, <3>5
    <2>9. CASE DispatchEnds
      BY <2>9, <1>1 DEF DispatchEnds
    <2>10. CASE UNCHANGED vars
      BY <2>10 DEF vars
    <2> QED
      BY <2>1, <2>2, <2>3, <2>4, <2>5, <2>6, <2>7, <2>8, <2>9, <2>10
  <1> QED
    BY <1>2, <1>3 DEF IInv

LEMMA EventsAssociate ==
    ASSUME NEW a \in Seq(Event), NEW b \in Seq(Event), NEW c \in Seq(Event)
    PROVE  (a \o b) \o c = a \o (b \o c)
  BY ConcatAssociative, SMT

LEMMA EventsAssociateTwice ==
    ASSUME NEW a \in Seq(Event), NEW b \in Seq(Event), NEW c \in Seq(Event),
           NEW d \in Seq(Event)
    PROVE  ((a \o b) \o c) \o d = a \o ((b \o c) \o d)
  <1>1. (a \o b) \o c = a \o (b \o c)
    BY EventsAssociate, Zenon
  <1>2. PICK x \in Seq(Event) : x = b \o c
    BY ConcatProperties
  <1>3. (a \o x) \o d = a \o (x \o d)
    BY EventsAssociate, Zenon
  <1> QED
    BY <1>1, <1>2, <1>3, Zenon

\* What is kept of three sequences, when something moves from the second to the
\* first, or from the third to the second.
LEMMA KeptAssociative ==
    ASSUME NEW h \in Seq(Event), NEW e \in Event, NEW t \in Seq(Event), NEW u \in Seq(Event)
    PROVE  (Kept(Append(h, e)) \o Kept(t)) \o Kept(u)
             = Kept(h) \o ((Kept(<<e>>) \o Kept(t)) \o Kept(u))
  <1>1. PICK k1 \in Seq(Event) : k1 = Kept(h)
    BY KeptType
  <1>2. <<e>> \in Seq(Event)
    OBVIOUS
  <1>3. PICK k2 \in Seq(Event) : k2 = Kept(<<e>>)
    BY <1>2, KeptType
  <1>4. PICK k3 \in Seq(Event) : k3 = Kept(t)
    BY KeptType
  <1>5. PICK k4 \in Seq(Event) : k4 = Kept(u)
    BY KeptType
  <1>6. Kept(Append(h, e)) = k1 \o k2
    BY <1>1, <1>3, KeptAppend
  <1>7. ((k1 \o k2) \o k3) \o k4 = k1 \o ((k2 \o k3) \o k4)
    <2>1. \A a \in Seq(Event) : \A b \in Seq(Event) : \A c \in Seq(Event) :
          \A d \in Seq(Event) : ((a \o b) \o c) \o d = a \o ((b \o c) \o d)
      BY EventsAssociateTwice, Zenon
    <2>2. \A b \in Seq(Event) : \A c \in Seq(Event) :
          \A d \in Seq(Event) : ((k1 \o b) \o c) \o d = k1 \o ((b \o c) \o d)
      BY <2>1, Zenon
    <2>3. \A c \in Seq(Event) :
          \A d \in Seq(Event) : ((k1 \o k2) \o c) \o d = k1 \o ((k2 \o c) \o d)
      BY <2>2, Zenon
    <2>4. \A d \in Seq(Event) : ((k1 \o k2) \o k3) \o d = k1 \o ((k2 \o k3) \o d)
      BY <2>3, Zenon
    <2> QED
      BY <2>4, Zenon
  <1> QED
    BY <1>1, <1>3, <1>4, <1>5, <1>6, <1>7, Zenon

LEMMA KeptThree ==
    ASSUME NEW h \in Seq(Event), NEW x \in Seq(Event), NEW w \in Seq(Event)
    PROVE  (Kept(h) \o Kept(x)) \o Kept(w) = Kept(h) \o (Kept(x) \o Kept(w))
  <1>1. PICK k1 \in Seq(Event), k2 \in Seq(Event), k3 \in Seq(Event) :
          k1 = Kept(h) /\ k2 = Kept(x) /\ k3 = Kept(w)
    BY KeptType
  <1>2. (k1 \o k2) \o k3 = k1 \o (k2 \o k3)
    BY EventsAssociate, Zenon
  <1> QED
    BY <1>1, <1>2, Zenon

\* Events that come, or are moved to the queue of Xlib.
LEMMA MovingStep ==
    ASSUME IInv, [Next]_vars,
           \/ \E e \in Event \ {"motion"} : Send(e)
           \/ Move \/ TimerDue \/ RunX
    PROVE  IInv'
  <1> USE BoundsAssumption DEF timer, queues, iq
  <1>1. /\ handled \in Seq(Event) /\ xq \in Seq(Event) /\ wire \in Seq(Event)
        /\ sent \in Seq(Event)
        /\ (Kept(handled) \o Kept(xq)) \o Kept(wire) = Kept(sent)
    BY DEF IInv, TypeOK, EventsInOrder
  <1>2. CASE \E e \in Event \ {"motion"} : Send(e)
    <2>1. PICK e \in Event \ {"motion"} : Send(e)
      BY <1>2
    <2>2. PICK w \in Seq(Event), s \in Seq(Event) : w = Append(wire, e) /\ s = Append(sent, e)
      BY <1>1, AppendProperties
    <2>3. wire' = w /\ sent' = s /\ xq' = xq /\ handled' = handled
      BY <2>1, <2>2 DEF Send
    <2>4. Kept(w) = Kept(wire) \o Kept(<<e>>) /\ Kept(s) = Kept(sent) \o Kept(<<e>>)
      BY <1>1, <2>2, KeptAppend
    <2>5. <<e>> \in Seq(Event)
      OBVIOUS
    <2>6. (Kept(handled) \o Kept(xq)) \o (Kept(wire) \o Kept(<<e>>))
            = ((Kept(handled) \o Kept(xq)) \o Kept(wire)) \o Kept(<<e>>)
      <3>1. PICK k \in Seq(Event) : k = Kept(handled) \o Kept(xq)
        BY <1>1, KeptType, ConcatProperties
      <3>2. PICK l \in Seq(Event), m \in Seq(Event) : l = Kept(wire) /\ m = Kept(<<e>>)
        BY <1>1, <2>5, KeptType
      <3>3. (k \o l) \o m = k \o (l \o m)
        BY EventsAssociate
      <3> QED
        BY <3>1, <3>2, <3>3
    <2>7. EventsInOrder'
      BY <1>1, <2>3, <2>4, <2>6 DEF EventsInOrder
    <2>8. asking' \in {"no", "asked", "owed"}
      BY <2>1 DEF Send, IInv, TypeOK
    <2>9. TypeOK' /\ Connected'
      BY <1>1, <2>1, <2>2, <2>3, <2>8 DEF Send, IInv, TypeOK, Connected
    <2> QED
      BY <2>7, <2>9 DEF IInv
  <1>3. CASE Move
    <2>1. "motion" \in Event
      BY DEF Event
    <2>2. PICK w \in Seq(Event) : w = Append(wire, "motion")
      BY <1>1, <2>1, AppendProperties
    <2>3. wire' = w /\ sent' = sent /\ xq' = xq /\ handled' = handled
      BY <1>3, <2>2 DEF Move
    <2>4. Kept(w) = Kept(wire)
      <3>1. Kept(w) = Kept(wire) \o << >>
        BY <1>1, <2>1, <2>2, KeptAppend, KeptNoise
      <3> QED
        BY <1>1, <3>1, KeptType, ConcatEmptySeq
    <2>5. EventsInOrder'
      BY <1>1, <2>3, <2>4 DEF EventsInOrder
    <2>6. TypeOK' /\ Connected'
      BY <1>1, <1>3, <2>2, <2>3 DEF Move, IInv, TypeOK, Connected
    <2> QED
      BY <2>5, <2>6 DEF IInv
  <1>4. ASSUME xq' \in {xq \o Read(wire), NoExpose(xq \o Read(wire))}, wire' = << >>,
               handled' = handled, sent' = sent
        PROVE  EventsInOrder' /\ xq' \in Seq(Event) /\ wire' \in Seq(Event)
    <2>1. PICK z : z = xq'
      OBVIOUS
    <2>2. z \in Seq(Event) /\ Kept(z) = Kept(xq) \o Kept(wire)
      BY <1>1, <1>4, <2>1, MovedToQueue
    <2>3. (Kept(handled) \o Kept(z)) \o << >> = Kept(handled) \o Kept(z)
      BY <1>1, <2>2, KeptType, ConcatProperties, ConcatEmptySeq
    <2>4. (Kept(handled) \o Kept(z)) \o << >> = Kept(sent)
      <3>1. (Kept(handled) \o Kept(xq)) \o Kept(wire)
              = Kept(handled) \o (Kept(xq) \o Kept(wire))
        BY <1>1, KeptThree, Zenon
      <3> QED
        BY <1>1, <2>2, <2>3, <3>1, Zenon
    <2>5. (Kept(handled') \o Kept(xq')) \o Kept(wire') = Kept(sent')
      BY <1>4, <2>1, <2>4, KeptNoise
    <2> QED
      BY <1>4, <2>1, <2>2, <2>5, EmptySeq DEF EventsInOrder
  <1>5. CASE TimerDue
    <2>1. /\ \/ Redraw /\ UNCHANGED exitAsked
             \/ exitAsked' = TRUE /\ UNCHANGED <<wire, xq>>
          /\ left' = Interval /\ pc' = "looked"
          /\ UNCHANGED <<wait, slip, ready, iq, asking, sent, handled>>
      BY <1>5 DEF TimerDue
    <2>2. Redraw => EventsInOrder' /\ xq' \in Seq(Event) /\ wire' \in Seq(Event)
      BY <1>4, <2>1 DEF Redraw
    <2>3. UNCHANGED <<wire, xq>> => EventsInOrder' /\ xq' \in Seq(Event) /\ wire' \in Seq(Event)
      BY <1>1, <2>1 DEF EventsInOrder
    <2>4. EventsInOrder' /\ xq' \in Seq(Event) /\ wire' \in Seq(Event)
      BY <2>1, <2>2, <2>3
    <2>5. exitAsked' \in BOOLEAN
      BY <2>1 DEF IInv, TypeOK
    <2>6. TypeOK' /\ Connected'
      BY <1>1, <2>1, <2>4, <2>5 DEF IInv, TypeOK, Connected
    <2> QED
      BY <2>4, <2>6 DEF IInv
  <1>6. CASE RunX
    <2>1. ready \in {<<"x">>, <<"x", "iq">>} /\ ready' = Tail(ready)
      BY <1>6 DEF RunX, IInv, TypeOK
    <2>2. EventsInOrder' /\ xq' \in Seq(Event) /\ wire' \in Seq(Event)
      BY <1>4, <1>6 DEF RunX
    <2>3. /\ ready' \in {<<>>, <<"iq">>}
          /\ ready' = <<"iq">> => clients > 0
      <3>1. Tail(<<"x">>) = << >> /\ << >> # <<"iq">>
        OBVIOUS
      <3>2. Tail(<<"x", "iq">>) = <<"iq">>
        OBVIOUS
      <3>3. ready = <<"x", "iq">> => clients > 0
        BY DEF IInv, Connected
      <3> QED
        BY <2>1, <3>1, <3>2, <3>3
    <2>4. /\ pc' = "events"
          /\ UNCHANGED <<timer, iq, asking, sent, handled, exitAsked>>
      BY <1>6 DEF RunX
    <2>5. TypeOK'
      BY <1>1, <2>2, <2>3, <2>4 DEF IInv, TypeOK
    <2>6. ready' # <<"x", "iq">>
      <3>1. << >> # <<"x", "iq">> /\ <<"iq">> # <<"x", "iq">>
        OBVIOUS
      <3> QED
        BY <2>3, <3>1
    <2>7. Connected'
      BY <2>3, <2>4, <2>6 DEF IInv, Connected
    <2> QED
      BY <2>2, <2>5, <2>7 DEF IInv
  <1> QED
    BY <1>2, <1>3, <1>5, <1>6

\* Events that are taken from the queue, and what the handlers leave there.
LEMMA TakingStep ==
    ASSUME IInv, [Next]_vars, Events
    PROVE  IInv'
  <1> USE BoundsAssumption DEF timer, queues, iq
  <1>1. /\ handled \in Seq(Event) /\ xq \in Seq(Event) /\ wire \in Seq(Event)
        /\ sent \in Seq(Event)
        /\ (Kept(handled) \o Kept(xq)) \o Kept(wire) = Kept(sent)
    BY DEF IInv, TypeOK, EventsInOrder
  <1>2. PICK p \in Seq(Event), u \in Seq(Event) : p = Pending /\ u = Unread
    BY <1>1, KeptPending
  <1>3. Kept(p) \o Kept(u) = Kept(xq) \o Kept(wire)
    BY <1>1, <1>2, KeptPending
  <1>4. Kept(handled) \o (Kept(p) \o Kept(u)) = Kept(sent)
    <2>1. (Kept(handled) \o Kept(xq)) \o Kept(wire)
            = Kept(handled) \o (Kept(xq) \o Kept(wire))
      BY <1>1, KeptThree, Zenon
    <2> QED
      BY <1>1, <1>3, <2>1, Zenon
  <1>5. ASSUME NEW e, Take(e)
        PROVE  /\ e \in Event /\ handled' = Append(handled, e) /\ handled' \in Seq(Event)
               /\ Tail(p) \in Seq(Event)
               /\ (Kept(handled') \o Kept(Tail(p))) \o Kept(u) = Kept(sent)
    <2>1. p # << >> /\ Head(p) = e /\ handled' = Append(handled, e)
      BY <1>2, <1>5 DEF Take
    <2>2. e \in Event /\ Tail(p) \in Seq(Event) /\ Kept(p) = Kept(<<e>>) \o Kept(Tail(p))
      BY <2>1, KeptHead
    <2>3. PICK t \in Seq(Event) : t = Tail(p)
      BY <2>2
    <2>4. PICK h \in Seq(Event), d \in Event : h = handled /\ d = e
      BY <1>1, <2>2
    <2>5. (Kept(Append(handled, e)) \o Kept(Tail(p))) \o Kept(u) = Kept(sent)
      <3>1. (Kept(Append(h, d)) \o Kept(t)) \o Kept(u)
              = Kept(h) \o ((Kept(<<d>>) \o Kept(t)) \o Kept(u))
        BY KeptAssociative, Zenon
      <3> QED
        BY <1>4, <2>2, <2>3, <2>4, <3>1
    <2> QED
      BY <1>1, <2>1, <2>2, <2>5, AppendProperties
  <1>6. ASSUME NEW e, Take(e), xq' = Tail(Pending), wire' = Unread, sent' = sent
        PROVE  /\ EventsInOrder'
               /\ xq' \in Seq(Event) /\ wire' \in Seq(Event) /\ handled' \in Seq(Event)
    BY <1>2, <1>5, <1>6 DEF EventsInOrder
  <1>13. ASSUME NEW e, Take(e), wire' = << >>, sent' = sent,
                xq' \in {Tail(p) \o Read(u), NoExpose(Tail(p) \o Read(u))}
         PROVE  /\ EventsInOrder'
                /\ xq' \in Seq(Event) /\ wire' \in Seq(Event) /\ handled' \in Seq(Event)
    <2>1. PICK t \in Seq(Event) : t = Tail(p)
      BY <1>5, <1>13
    <2>2. PICK z : z = xq'
      OBVIOUS
    <2>3. z \in Seq(Event) /\ Kept(z) = Kept(t) \o Kept(u)
      BY <1>13, <2>1, <2>2, MovedToQueue
    <2>4. PICK h \in Seq(Event) : h = handled'
      BY <1>5, <1>13
    <2>5. (Kept(h) \o Kept(t)) \o Kept(u) = Kept(sent)
      BY <1>5, <1>13, <2>1, <2>4
    <2>6. (Kept(h) \o Kept(z)) \o << >> = Kept(h) \o Kept(z)
      BY <2>3, KeptType, ConcatProperties, ConcatEmptySeq
    <2>7. (Kept(h) \o Kept(z)) \o << >> = Kept(sent)
      <3>1. (Kept(h) \o Kept(t)) \o Kept(u) = Kept(h) \o (Kept(t) \o Kept(u))
        BY KeptThree, Zenon
      <3> QED
        BY <2>3, <2>5, <2>6, <3>1, Zenon
    <2>8. (Kept(handled') \o Kept(xq')) \o Kept(wire') = Kept(sent')
      BY <1>13, <2>2, <2>4, <2>7, KeptNoise
    <2> QED
      BY <1>13, <2>2, <2>3, <2>4, <2>8, EmptySeq DEF EventsInOrder
  <1>14. ASSUME NEW e, Take(e), AsksNothing \/ RoundTrip, sent' = sent
         PROVE  /\ EventsInOrder'
                /\ xq' \in Seq(Event) /\ wire' \in Seq(Event) /\ handled' \in Seq(Event)
    <2>1. CASE AsksNothing
      BY <1>6, <1>14, <2>1 DEF AsksNothing
    <2>2. CASE RoundTrip
      BY <1>2, <1>13, <1>14, <2>2 DEF RoundTrip
    <2> QED
      BY <1>14, <2>1, <2>2
  <1>7. CASE NoEvent
    <2>1. p = << >> /\ wire' = << >> /\ xq' = xq /\ handled' = handled /\ sent' = sent
      BY <1>2, <1>7 DEF NoEvent
    <2>2. xq = << >> /\ p = Read(wire)
      BY <1>2, <2>1 DEF Pending
    <2>3. Kept(wire) = << >>
      BY <1>1, <2>1, <2>2, KeptNotLost, KeptNoise
    <2>4. Kept(wire') = << >>
      BY <2>1, KeptNoise
    <2>5. EventsInOrder'
      BY <1>1, <2>1, <2>3, <2>4 DEF EventsInOrder
    <2>6. TypeOK' /\ Connected'
      BY <1>1, <1>7, <2>1, EmptySeq DEF NoEvent, IInv, TypeOK, Connected
    <2> QED
      BY <2>5, <2>6 DEF IInv
  <1>8. CASE Press
    <2>1. /\ EventsInOrder'
          /\ xq' \in Seq(Event) /\ wire' \in Seq(Event) /\ handled' \in Seq(Event)
      BY <1>6, <1>8 DEF Press
    <2>2. TypeOK' /\ Connected'
      BY <1>1, <1>8, <2>1 DEF Press, IInv, TypeOK, Connected
    <2> QED
      BY <2>1, <2>2 DEF IInv
  <1>9. CASE Release
    <2>1. Take("release") /\ (AsksNothing \/ RoundTrip) /\ sent' = sent
      BY <1>9 DEF Release
    <2>2. /\ EventsInOrder'
          /\ xq' \in Seq(Event) /\ wire' \in Seq(Event) /\ handled' \in Seq(Event)
      BY <1>14, <2>1
    <2>3. TypeOK' /\ Connected'
      BY <1>1, <1>9, <2>2 DEF Release, IInv, TypeOK, Connected
    <2> QED
      BY <2>2, <2>3 DEF IInv
  <1>10. CASE Selection
    <2>1. PICK e : Take(e) /\ (AsksNothing \/ RoundTrip) /\ sent' = sent
      BY <1>10 DEF Selection
    <2>2. /\ EventsInOrder'
          /\ xq' \in Seq(Event) /\ wire' \in Seq(Event) /\ handled' \in Seq(Event)
      BY <1>14, <2>1
    <2>3. asking' \in {"no", asking} /\ pc' = "dispatch"
      BY <1>10 DEF Selection
    <2>4. UNCHANGED <<timer, ready, iq, sent, exitAsked>>
      BY <1>10 DEF Selection
    <2>5. TypeOK' /\ Connected'
      BY <1>1, <2>2, <2>3, <2>4 DEF IInv, TypeOK, Connected
    <2> QED
      BY <2>2, <2>5 DEF IInv
  <1>11. CASE Expose
    <2>1. /\ Take("expose") /\ wire' = << >>
          /\ UNCHANGED <<pc, timer, ready, iq, asking, sent, exitAsked>>
      BY <1>11 DEF Expose
    <2>2. xq' \in {Tail(p) \o Read(u), NoExpose(Tail(p) \o Read(u))}
      BY <1>2, <1>11 DEF Expose
    <2>3. /\ EventsInOrder'
          /\ xq' \in Seq(Event) /\ wire' \in Seq(Event) /\ handled' \in Seq(Event)
      BY <1>13, <2>1, <2>2
    <2>4. TypeOK' /\ Connected'
      BY <1>1, <2>1, <2>3 DEF IInv, TypeOK, Connected
    <2> QED
      BY <2>3, <2>4 DEF IInv
  <1>12. CASE Destroy
    <2>1. /\ EventsInOrder'
          /\ xq' \in Seq(Event) /\ wire' \in Seq(Event) /\ handled' \in Seq(Event)
      BY <1>6, <1>12 DEF Destroy
    <2>2. TypeOK' /\ Connected'
      BY <1>1, <1>12, <2>1 DEF Destroy, IInv, TypeOK, Connected
    <2> QED
      BY <2>1, <2>2 DEF IInv
  <1> QED
    BY <1>7, <1>8, <1>9, <1>10, <1>11, <1>12 DEF Events

LEMMA AlwaysInv == Spec => []IInv
  <1>1. IInv /\ [Next]_vars => IInv'
    BY QuietStep, MovingStep, TakingStep DEF Next, Loop, Environment
  <1> QED
    BY <1>1, InitInv, PTL DEF Spec

\* The timeout poll is given, the callbacks that are collected and the counts of
\* the connections stay within what dockapp_run can bear, whatever the interval
\* and however long the loop runs.
THEOREM TypeCorrect == Spec => []TypeOK
  <1> QED
    BY AlwaysInv, PTL DEF IInv

\* No click, selection or destruction is lost, duplicated or overtaken on its
\* way from the X server through the socket and the queue of Xlib to its
\* handler, for any number of events.
THEOREM NoneLostOrOvertaken == Spec => []EventsInOrder
  <1> QED
    BY AlwaysInv, PTL DEF IInv

=============================================================================
