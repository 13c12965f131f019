--------------------------- MODULE CliphistProofs ---------------------------
(***************************************************************************)
(* Proofs about the clipboard history of wmcliphist, for any texts, any    *)
(* numbers of items to keep and any number of sessions.                    *)
(*                                                                         *)
(* Every property of the list needs to know what the data file holds, as a *)
(* session begins with it; and the file is what it is because of the list  *)
(* it was written from.  So one invariant has both (ListOK, FileOK), and   *)
(* the texts under way (PollOK) with them.                                 *)
(***************************************************************************)
EXTENDS Cliphist, FiniteSetTheorems, SequenceTheorems, TLAPS

----------------------------------------------------------------------------
(* Sequences: what the operations on the list do to the elements of it,    *)
(* looked at by position and as a set.                                     *)

\* What Front and Last do to a sequence.
LEMMA FrontLast ==
    ASSUME NEW S, NEW q \in Seq(S), q # << >>
    PROVE  /\ Front(q) \in Seq(S)
           /\ Len(Front(q)) = Len(q) - 1
           /\ \A i \in 1 .. Len(q) - 1 : Front(q)[i] = q[i]
           /\ Len(q) \in Nat \ {0}
           /\ Last(q) = q[Len(q)] /\ Last(q) \in S
  <1> DEFINE a == SubSeq(q, 1, Len(q) - 1)
  <1>1. Len(q) \in Nat \ {0}
    BY EmptySeq, LenProperties
  <1>2. \A k \in 1 .. Len(q) : q[k] \in S
    BY ElementOfSeq
  <1>3. /\ a \in Seq(S) /\ Len(a) = Len(q) - 1
        /\ \A k \in 1 .. Len(q) - 1 : a[k] = q[k]
    BY <1>1, <1>2, SubSeqProperties
  <1>4. Front(q) = a
    BY DEF Front
  <1> HIDE DEF a
  <1> QED
    BY <1>1, <1>2, <1>3, <1>4 DEF Last

\* What RemoveAt does to a sequence.
LEMMA RemoveAtProperties ==
    ASSUME NEW S, NEW q \in Seq(S), NEW i \in 1 .. Len(q)
    PROVE  /\ RemoveAt(q, i) \in Seq(S)
           /\ Len(RemoveAt(q, i)) = Len(q) - 1
           /\ \A k \in 1 .. Len(q) - 1 :
                RemoveAt(q, i)[k] = IF k < i THEN q[k] ELSE q[k + 1]
  <1> DEFINE a == SubSeq(q, 1, i - 1)
             b == SubSeq(q, i + 1, Len(q))
  <1>1. Len(q) \in Nat
    BY LenProperties
  <1>2. \A k \in 1 .. Len(q) : q[k] \in S
    BY ElementOfSeq
  <1>3. /\ a \in Seq(S) /\ Len(a) = i - 1
        /\ \A k \in 1 .. i - 1 : a[k] = q[k]
    BY <1>1, <1>2, SubSeqProperties
  <1>4. /\ b \in Seq(S) /\ Len(b) = Len(q) - i
        /\ \A k \in 1 .. Len(q) - i : b[k] = q[i + k]
    BY <1>1, <1>2, SubSeqProperties
  <1>5. /\ a \o b \in Seq(S)
        /\ Len(a \o b) = Len(q) - 1
        /\ \A k \in 1 .. Len(q) - 1 :
             (a \o b)[k] = IF k < i THEN a[k] ELSE b[k - i + 1]
    <2> HIDE DEF a, b
    <2>1. /\ a \o b \in Seq(S)
          /\ Len(a \o b) = Len(a) + Len(b)
          /\ \A k \in 1 .. Len(a) + Len(b) :
               (a \o b)[k] = IF k <= Len(a) THEN a[k] ELSE b[k - Len(a)]
      BY <1>3, <1>4, ConcatProperties, Zenon
    <2>2. Len(a) = i - 1 /\ Len(a) + Len(b) = Len(q) - 1
      BY <1>1, <1>3, <1>4
    <2>3. \A k \in 1 .. Len(q) - 1 :
            (a \o b)[k] = IF k <= i - 1 THEN a[k] ELSE b[k - (i - 1)]
      BY <2>1, <2>2, Zenon
    <2>4. \A k \in 1 .. Len(q) - 1 :
            (k <= i - 1 <=> k < i) /\ k - (i - 1) = k - i + 1
      BY <1>1
    <2> QED
      BY <2>1, <2>2, <2>3, <2>4
  <1>6. RemoveAt(q, i) = a \o b
    BY DEF RemoveAt
  <1> HIDE DEF a, b
  <1>7. \A k \in 1 .. Len(q) - 1 :
          (a \o b)[k] = IF k < i THEN q[k] ELSE q[k + 1]
    <2> TAKE k \in 1 .. Len(q) - 1
    <2>1. CASE k < i
      BY <2>1, <1>1, <1>3, <1>5
    <2>2. CASE ~(k < i)
      <3>1. k - i + 1 \in 1 .. Len(q) - i /\ i + (k - i + 1) = k + 1
        BY <2>2, <1>1
      <3>2. b[k - i + 1] = q[i + (k - i + 1)]
        BY <3>1, <1>4
      <3> QED
        BY <3>1, <3>2, <2>2, <1>5
    <2> QED
      BY <2>1, <2>2
  <1> QED
    BY <1>5, <1>6, <1>7

\* No element occurs twice.
Distinct(q) == \A i, k \in 1 .. Len(q) : q[i] = q[k] => i = k

\* ToSet in terms of the positions of a sequence.
LEMMA ToSetPositions ==
    ASSUME NEW S, NEW q \in Seq(S)
    PROVE  ToSet(q) = {q[i] : i \in 1 .. Len(q)}
  BY LenProperties DEF ToSet

\* Removing one position of a sequence without repetitions takes exactly its element out.
LEMMA RemoveTakesOne ==
    ASSUME NEW S, NEW q \in Seq(S), NEW i \in 1 .. Len(q), Distinct(q)
    PROVE  /\ Distinct(RemoveAt(q, i))
           /\ ToSet(RemoveAt(q, i)) = ToSet(q) \ {q[i]}
  <1> DEFINE r == RemoveAt(q, i)
             n == Len(q)
             src(k) == IF k < i THEN k ELSE k + 1
  <1>1. n \in Nat /\ i \in 1 .. n
    BY LenProperties
  <1>2. /\ r \in Seq(S) /\ Len(r) = n - 1
        /\ \A k \in 1 .. n - 1 : r[k] = IF k < i THEN q[k] ELSE q[k + 1]
    BY RemoveAtProperties
  <1>3. ToSet(r) = {r[k] : k \in 1 .. Len(r)} /\ ToSet(q) = {q[k] : k \in 1 .. n}
    BY <1>2, ToSetPositions
  <1>4. \A k, l \in 1 .. n : q[k] = q[l] => k = l
    BY DEF Distinct
  <1>5. \A k \in 1 .. n - 1 : r[k] = q[src(k)]
    BY <1>2
  <1>6. \A k \in 1 .. n - 1 : src(k) \in 1 .. n /\ src(k) # i
    BY <1>1
  <1>7. \A k, l \in 1 .. n - 1 : src(k) = src(l) => k = l
    BY <1>1
  <1>8. \A l \in 1 .. n : l # i => \E k \in 1 .. n - 1 : src(k) = l
    <2> TAKE l \in 1 .. n
    <2> HAVE l # i
    <2>1. CASE l < i
      <3> WITNESS l \in 1 .. n - 1
      <3> QED
        BY <2>1
    <2>2. CASE l > i
      <3>1. l - 1 \in 1 .. n - 1 /\ ~(l - 1 < i) /\ (l - 1) + 1 = l
        BY <2>2, <1>1
      <3> WITNESS l - 1 \in 1 .. n - 1
      <3> QED
        BY <3>1
    <2> QED
      BY <2>1, <2>2, <1>1
  <1> HIDE DEF r, n, src
  <1>9. Distinct(r)
    <2> SUFFICES ASSUME NEW k \in 1 .. n - 1, NEW l \in 1 .. n - 1, r[k] = r[l]
                 PROVE  k = l
      BY <1>2 DEF Distinct
    <2>1. q[src(k)] = q[src(l)]
      BY <1>5
    <2>2. src(k) = src(l)
      BY <1>4, <1>6, <2>1
    <2> QED
      BY <1>7, <2>2
  <1>10. \A x : x \in ToSet(r) <=> x \in ToSet(q) \ {q[i]}
    <2> TAKE x
    <2>1. ASSUME x \in ToSet(r)
          PROVE  x \in ToSet(q) \ {q[i]}
      <3>1. PICK k \in 1 .. n - 1 : x = q[src(k)]
        BY <2>1, <1>2, <1>3, <1>5
      <3>2. src(k) \in 1 .. n /\ src(k) # i
        BY <1>6
      <3> QED
        BY <3>1, <3>2, <1>1, <1>3, <1>4
    <2>2. ASSUME x \in ToSet(q) \ {q[i]}
          PROVE  x \in ToSet(r)
      <3>1. PICK l \in 1 .. n : x = q[l]
        BY <2>2, <1>3
      <3>2. PICK k \in 1 .. n - 1 : src(k) = l
        BY <3>1, <2>2, <1>8
      <3> QED
        BY <3>1, <3>2, <1>2, <1>3, <1>5
    <2> QED
      BY <2>1, <2>2
  <1> QED
    BY <1>9, <1>10 DEF r

\* Adding an element that is not there in front adds exactly it.
LEMMA ConsAdds ==
    ASSUME NEW S, NEW q \in Seq(S), NEW e \in S
    PROVE  /\ Cons(e, q) \in Seq(S) /\ Len(Cons(e, q)) = Len(q) + 1
           /\ Cons(e, q) # << >> /\ Head(Cons(e, q)) = e
           /\ ToSet(Cons(e, q)) = ToSet(q) \cup {e}
           /\ Distinct(q) /\ e \notin ToSet(q) => Distinct(Cons(e, q))
  <1> DEFINE c == Cons(e, q)
             n == Len(q)
  <1>1. n \in Nat /\ <<e>> \in Seq(S) /\ Len(<<e>>) = 1 /\ <<e>>[1] = e
    BY LenProperties
  <1>2. /\ c \in Seq(S) /\ Len(c) = n + 1
        /\ \A i \in 1 .. n + 1 : c[i] = IF i <= 1 THEN <<e>>[i] ELSE q[i - 1]
    BY <1>1, ConcatProperties DEF Cons
  <1>3. ToSet(c) = {c[i] : i \in 1 .. Len(c)} /\ ToSet(q) = {q[i] : i \in 1 .. n}
    BY <1>2, ToSetPositions
  <1> HIDE DEF c, n
  <1>4. /\ c[1] = e
        /\ \A i \in 1 .. n : c[i + 1] = q[i] /\ i + 1 \in 1 .. n + 1
        /\ 1 \in 1 .. n + 1
        /\ \A i \in 1 .. n + 1 : i # 1 => i - 1 \in 1 .. n /\ c[i] = q[i - 1]
    BY <1>1, <1>2
  <1>5. ToSet(c) = ToSet(q) \cup {e}
    BY <1>2, <1>3, <1>4
  <1>6. ASSUME \A i, k \in 1 .. n : q[i] = q[k] => i = k, e \notin ToSet(q),
               NEW i \in 1 .. n + 1, NEW k \in 1 .. n + 1, c[i] = c[k]
        PROVE  i = k
    <2>1. CASE i = 1 \/ k = 1
      BY <2>1, <1>3, <1>4, <1>6
    <2>2. CASE i # 1 /\ k # 1
      <3>1. i - 1 = k - 1
        BY <2>2, <1>4, <1>6
      <3> QED
        BY <3>1, <1>1
    <2> QED
      BY <2>1, <2>2
  <1>7. Distinct(q) /\ e \notin ToSet(q) => Distinct(c)
    BY <1>2, <1>6 DEF Distinct, n
  <1>8. c # << >> /\ Head(c) = e
    BY <1>1, <1>2, <1>4, EmptySeq
  <1> QED
    BY <1>2, <1>5, <1>7, <1>8 DEF c, n

\* Taking one position out and putting an element in front.
LEMMA ReplaceTakesOne ==
    ASSUME NEW S, NEW q \in Seq(S), Distinct(q), NEW i \in 1 .. Len(q),
           NEW e \in S, e \notin ToSet(q) \ {q[i]}
    PROVE  /\ Cons(e, RemoveAt(q, i)) \in Seq(S)
           /\ Len(Cons(e, RemoveAt(q, i))) = Len(q)
           /\ Distinct(Cons(e, RemoveAt(q, i)))
           /\ ToSet(Cons(e, RemoveAt(q, i))) = (ToSet(q) \ {q[i]}) \cup {e}
           /\ Cons(e, RemoveAt(q, i)) # << >> /\ Head(Cons(e, RemoveAt(q, i))) = e
  <1>1. PICK r : r = RemoveAt(q, i)
    OBVIOUS
  <1>2. r \in Seq(S)
    BY <1>1, RemoveAtProperties
  <1>3. Len(r) = Len(q) - 1 /\ Distinct(r) /\ ToSet(r) = ToSet(q) \ {q[i]}
    BY <1>1, RemoveAtProperties, RemoveTakesOne
  <1>4. Cons(e, r) \in Seq(S) /\ Len(Cons(e, r)) = Len(r) + 1
    BY <1>2, ConsAdds
  <1>5. Cons(e, r) # << >> /\ Head(Cons(e, r)) = e
    BY <1>2, ConsAdds
  <1>6. ToSet(Cons(e, r)) = ToSet(r) \cup {e}
    BY <1>2, ConsAdds
  <1>7. Distinct(r) /\ e \notin ToSet(r) => Distinct(Cons(e, r))
    BY <1>2, ConsAdds
  <1>8. Distinct(Cons(e, r))
    BY <1>3, <1>7
  <1>9. Len(Cons(e, r)) = Len(q)
    BY <1>3, <1>4, LenProperties
  <1> QED
    BY <1>1, <1>3, <1>4, <1>5, <1>6, <1>8, <1>9

\* Turning a sequence round changes neither its elements nor how often they
\* occur; turning it round twice changes nothing.
LEMMA ReverseProperties ==
    ASSUME NEW S, NEW q \in Seq(S)
    PROVE  /\ Reverse(q) \in Seq(S) /\ Len(Reverse(q)) = Len(q)
           /\ \A i \in 1 .. Len(q) : Reverse(q)[i] = q[Len(q) - i + 1]
           /\ ToSet(Reverse(q)) = ToSet(q)
           /\ Distinct(q) => Distinct(Reverse(q))
           /\ Reverse(Reverse(q)) = q
  <1> DEFINE r == Reverse(q)
             n == Len(q)
  <1>1. n \in Nat /\ q \in [1 .. n -> S]
    BY LenProperties
  <1>2. \A i \in 1 .. n : n - i + 1 \in 1 .. n /\ n - (n - i + 1) + 1 = i
    BY <1>1
  <1>3. r = [i \in 1 .. n |-> q[n - i + 1]]
    BY DEF Reverse
  <1>4. \A i \in 1 .. n : q[n - i + 1] \in S
    BY <1>1, <1>2
  <1> HIDE DEF r
  <1>5. r \in Seq(S) /\ Len(r) = n /\ \A i \in 1 .. n : r[i] = q[n - i + 1]
    <2>1. r \in [1 .. n -> S]
      BY <1>3, <1>4
    <2> QED
      BY <1>1, <1>3, <2>1, IsASeq, LenProperties
  <1>6. ToSet(r) = {r[i] : i \in 1 .. n} /\ ToSet(q) = {q[i] : i \in 1 .. n}
    BY <1>5, ToSetPositions
  <1>7. Reverse(r) = [i \in 1 .. n |-> r[n - i + 1]]
    BY <1>5 DEF Reverse
  <1> HIDE DEF n
  <1>8. ToSet(r) = ToSet(q)
    <2>1. \A i \in 1 .. n : \E k \in 1 .. n : q[i] = r[k]
      <3> TAKE i \in 1 .. n
      <3>1. n - i + 1 \in 1 .. n /\ r[n - i + 1] = q[i]
        BY <1>1, <1>2, <1>5
      <3> QED
        BY <3>1
    <2>2. \A i \in 1 .. n : \E k \in 1 .. n : r[i] = q[k]
      <3> TAKE i \in 1 .. n
      <3>1. n - i + 1 \in 1 .. n /\ r[i] = q[n - i + 1]
        BY <1>2, <1>5
      <3> QED
        BY <3>1
    <2>3. \A v : v \in ToSet(r) <=> v \in ToSet(q)
      BY <1>6, <2>1, <2>2
    <2> QED
      BY <2>3
  <1>9. Distinct(q) => Distinct(r)
    <2> SUFFICES ASSUME Distinct(q), NEW i \in 1 .. n, NEW k \in 1 .. n, r[i] = r[k]
                 PROVE  i = k
      BY <1>5 DEF Distinct
    <2>1. n - i + 1 = n - k + 1
      BY <1>2, <1>5 DEF Distinct, n
    <2> QED
      BY <1>1, <2>1
  <1>10. Reverse(r) = q
    <2>1. \A i \in 1 .. n : r[n - i + 1] = q[i]
      BY <1>2, <1>5
    <2>2. Reverse(r) = [i \in 1 .. n |-> q[i]]
      BY <1>7, <2>1
    <2> QED
      BY <1>1, <2>2
  <1> QED
    BY <1>5, <1>8, <1>9, <1>10 DEF r, n


----------------------------------------------------------------------------
(* The invariant *)

\* The list: its counters are right, it fits, and fewer items are locked than
\* the largest number of items a session could keep.
ListOK ==
    /\ keep \in KeepSizes /\ largest \in KeepSizes /\ keep <= largest
    /\ autoTake \in BOOLEAN
    /\ items \in Seq(Texts) /\ Distinct(items)
    /\ num = Len(items) /\ num <= keep
    /\ locked \subseteq ToSet(items) /\ IsFiniteSet(locked)
    /\ lockedCount = Cardinality(locked) /\ lockedCount < largest

\* What is selected, and who owns the clipboard.
ClipOK ==
    /\ selected \in Texts \cup {NoText, Dangling}
    /\ owner \in Copyable \cup {NoText, Self}
    /\ pc = "down" => selected = NoText
    /\ OfferedIsNewest

PollOK ==
    /\ pc \in {"down", "toomuch", "up"}
    /\ old \in Texts \cup {NoText}
    /\ replies \in Seq(Texts \cup {NoText}) /\ Len(replies) <= MaxReplies
    /\ dialogs \in Seq(Texts) /\ Len(dialogs) <= MaxDialogs
    /\ clipLock \in BOOLEAN /\ clipIgnore \in BOOLEAN

\* The records of a file: no text twice, fewer locked than some session keeps.
Marked(r) == {i \in 1 .. Len(r) : r[i].locked}

RecordsOK(r, most) ==
    /\ r \in Seq(Items)
    /\ \A i, k \in 1 .. Len(r) : r[i].text = r[k].text => i = k
    /\ IsFiniteSet(Marked(r)) /\ Cardinality(Marked(r)) < most

\* The file is what the last save has written, unless that was cut short.
FileOK ==
    /\ file \in [records : Seq(Items), torn : BOOLEAN]
    /\ RecordsOK(file.records, largest)
    /\ saved # NoText =>
         /\ saved.items \in Seq(Texts) /\ saved.locked \subseteq ToSet(saved.items)
         /\ file = [records |-> Records(Reverse(saved.items), saved.locked),
                    torn |-> FALSE]

IInv == ListOK /\ ClipOK /\ PollOK /\ FileOK

----------------------------------------------------------------------------
(* The list. *)

LEMMA KeepNat == \A k \in KeepSizes : k \in Nat \ {0}
  BY CliphistAssumption

\* A sequence without repetitions has as many elements as places.
LEMMA DistinctCounts ==
    ASSUME NEW S, NEW q \in Seq(S), Distinct(q)
    PROVE  IsFiniteSet(ToSet(q)) /\ Cardinality(ToSet(q)) = Len(q)
  <1> DEFINE D == 1 .. Len(q)
  <1>1. Len(q) \in Nat /\ q \in [D -> S]
    BY LenProperties
  <1>2. ToSet(q) = {q[i] : i \in D}
    BY ToSetPositions
  <1>3. IsFiniteSet(D) /\ Cardinality(D) = Len(q)
    <2>1. 1 \in Int /\ Len(q) \in Int
      BY <1>1
    <2> QED
      BY <1>1, <2>1, FS_Interval
  <1>4. q = [i \in D |-> q[i]]
    BY <1>1
  <1>5. q \in [D -> ToSet(q)]
    BY <1>2, <1>4
  <1>6. q \in Bijection(D, ToSet(q))
    BY <1>2, <1>5 DEF Bijection, Injection, Surjection, IsInjective, Distinct
  <1> HIDE DEF D
  <1> QED
    BY <1>3, <1>6, FS_Bijection DEF ExistsBijection

\* An item that is found again goes to the front; nothing else changes.
LEMMA MoveStep ==
    ASSUME ListOK, NEW i \in 1 .. Len(items), items' = MovedToFront(i),
           UNCHANGED <<locked, num, lockedCount, conf>>
    PROVE  ListOK' /\ ToSet(items') = ToSet(items)
           /\ items' # << >> /\ Head(items') = items[i]
  <1>1. items \in Seq(Texts) /\ Distinct(items) /\ items[i] \in Texts
    BY ElementOfSeq DEF ListOK
  <1>2. items[i] \in ToSet(items)
    BY <1>1, ToSetPositions
  <1>3. /\ MovedToFront(i) \in Seq(Texts) /\ Len(MovedToFront(i)) = Len(items)
        /\ Distinct(MovedToFront(i))
        /\ ToSet(MovedToFront(i)) = (ToSet(items) \ {items[i]}) \cup {items[i]}
        /\ MovedToFront(i) # << >> /\ Head(MovedToFront(i)) = items[i]
    BY <1>1, ReplaceTakesOne DEF MovedToFront
  <1>4. ToSet(MovedToFront(i)) = ToSet(items)
    BY <1>2, <1>3
  <1> QED
    BY <1>3, <1>4 DEF ListOK, conf

LEMMA PlaceOfText ==
    ASSUME ListOK, NEW t \in Kept
    PROVE  PlaceOf(t) \in 1 .. Len(items) /\ items[PlaceOf(t)] = t
  <1>1. \E i \in 1 .. Len(items) : items[i] = t
    BY ToSetPositions DEF ListOK, Kept
  <1> QED
    BY <1>1 DEF PlaceOf

LEMMA InsertStep ==
    ASSUME ListOK, NEW t \in Texts, Insert(t), UNCHANGED conf
    PROVE  ListOK' /\ ToSet(items) \subseteq ToSet(items')
           /\ items' # << >> /\ Head(items') = t
  <1>1. /\ items' = Cons(t, items) /\ num' = num + 1 /\ num # keep
        /\ UNCHANGED <<locked, lockedCount>> /\ t \notin ToSet(items)
    BY DEF Insert, Kept
  <1>2. /\ items' \in Seq(Texts) /\ Len(items') = Len(items) + 1 /\ Distinct(items')
        /\ ToSet(items') = ToSet(items) \cup {t}
        /\ items' # << >> /\ Head(items') = t
    BY <1>1, ConsAdds DEF ListOK
  <1>3. Len(items) \in Nat /\ keep \in Nat
    BY LenProperties, KeepNat DEF ListOK
  <1>4. num' <= keep
    BY <1>1, <1>3 DEF ListOK
  <1> QED
    BY <1>1, <1>2, <1>4 DEF ListOK, conf

\* The item that makes room is not locked.
LEMMA ReplaceStep ==
    ASSUME ListOK, NEW t \in Texts, NEW i \in 1 .. Len(items), Replace(t, i),
           UNCHANGED conf
    PROVE  ListOK' /\ locked \subseteq ToSet(items')
           /\ items' # << >> /\ Head(items') = t
  <1>1. PICK new : new = Cons(t, RemoveAt(items, i))
    OBVIOUS
  <1>2. /\ items' = new /\ t \notin ToSet(items) /\ items[i] \notin locked
        /\ UNCHANGED <<locked, num, lockedCount>>
    BY <1>1 DEF Replace, IsVictim, Kept
  <1>3. /\ new \in Seq(Texts) /\ Len(new) = Len(items) /\ Distinct(new)
        /\ ToSet(new) = (ToSet(items) \ {items[i]}) \cup {t}
        /\ new # << >> /\ Head(new) = t
    BY <1>1, <1>2, ReplaceTakesOne DEF ListOK
  <1>4. locked \subseteq ToSet(new)
    BY <1>2, <1>3 DEF ListOK
  <1> QED
    BY <1>2, <1>3, <1>4 DEF ListOK, conf

\* Locking: an item that is not locked is left out of the count, so that one
\* stays free as long as the counter has not come to keep - 1.
LEMMA LockStep ==
    ASSUME ListOK, NEW t, Lock(t)
    PROVE  ListOK'
  <1>1. /\ t \in ToSet(items) /\ t \notin locked
        /\ lockedCount # keep - 1
        /\ locked' = locked \cup {t} /\ lockedCount' = lockedCount + 1
        /\ UNCHANGED <<items, num, conf>>
    BY DEF Lock, Kept
  <1>2. IsFiniteSet(ToSet(items)) /\ Cardinality(ToSet(items)) = Len(items)
    BY DistinctCounts DEF ListOK
  <1>3. IsFiniteSet(locked') /\ Cardinality(locked') = lockedCount + 1
    BY <1>1, FS_AddElement DEF ListOK
  <1>4. locked' \subseteq ToSet(items) /\ Cardinality(locked') <= Len(items)
    BY <1>1, <1>2, FS_Subset DEF ListOK
  <1>5. lockedCount \in Nat /\ Len(items) \in Nat /\ keep \in Nat /\ largest \in Nat
    BY FS_CardinalityType, LenProperties, KeepNat DEF ListOK
  <1>6. lockedCount + 1 < largest
    BY <1>1, <1>3, <1>4, <1>5 DEF ListOK
  <1> QED
    BY <1>1, <1>3, <1>4, <1>6 DEF ListOK, conf

LEMMA UnlockStep ==
    ASSUME ListOK, NEW t, Unlock(t)
    PROVE  ListOK'
  <1>1. /\ t \in locked /\ locked' = locked \ {t} /\ lockedCount' = lockedCount - 1
        /\ UNCHANGED <<items, num, conf>>
    BY DEF Unlock
  <1>2. IsFiniteSet(locked') /\ Cardinality(locked') = lockedCount - 1
    BY <1>1, FS_RemoveElement DEF ListOK
  <1>3. lockedCount \in Nat /\ largest \in Nat
    BY FS_CardinalityType, KeepNat DEF ListOK
  <1> QED
    BY <1>1, <1>2, <1>3 DEF ListOK, conf

----------------------------------------------------------------------------
(* The clipboard. *)

LEMMA RetakeStep ==
    ASSUME NEW o, NEW sel, Retake(o, sel)
    PROVE  selected' \in {sel, NoText} /\ owner' \in {o, Self}
  BY DEF Retake, Owned

LEMMA TakeUpStep ==
    ASSUME NEW t, NEW sel, TakeUp(t, sel)
    PROVE  /\ autoTake => selected' \in {t, NoText}
           /\ ~autoTake => selected' \in {sel, NoText}
           /\ owner' \in {owner, Self}
  <1>1. CASE autoTake
    <2>1. PICK c \in Owned(owner, t) : Retake(c[1], c[2])
      BY <1>1 DEF TakeUp
    <2>2. c[1] \in {owner, Self} /\ c[2] \in {t, NoText}
      BY <2>1 DEF Owned
    <2> QED
      BY <1>1, <2>1, <2>2, RetakeStep
  <1>2. CASE ~autoTake
    BY <1>2, RetakeStep DEF TakeUp
  <1> QED
    BY <1>1, <1>2

\* A text that process_item goes on with, whatever becomes of it, spares the
\* locked items, and only the newest item is offered.
LEMMA LearnStep ==
    ASSUME ListOK, ClipOK, pc = "up", pc' = "up", NEW t \in Texts, Learn(t),
           UNCHANGED conf
    PROVE  ListOK' /\ ClipOK' /\ locked \subseteq ToSet(items')
  <1>1. UNCHANGED <<keep, autoTake, largest>>
    BY DEF conf
  <1>2. CASE UNCHANGED list /\ Retake(owner, selected)
    <2>1. selected' \in {selected, NoText} /\ owner' \in {owner, Self}
      BY <1>2, RetakeStep
    <2> QED
      BY <1>1, <1>2, <2>1 DEF list, ListOK, ClipOK, OfferedIsNewest
  <1>3. ASSUME ListOK', locked \subseteq ToSet(items'),
               items' # << >>, Head(items') = t,
               NEW sel \in Texts \cup {NoText, Dangling}, TakeUp(t, sel)
        PROVE  ListOK' /\ ClipOK' /\ locked \subseteq ToSet(items')
    <2>1. /\ autoTake => selected' \in {t, NoText}
          /\ ~autoTake => selected' \in {sel, NoText}
          /\ owner' \in {owner, Self}
      BY <1>3, TakeUpStep
    <2> QED
      BY <1>1, <1>3, <2>1 DEF ClipOK, OfferedIsNewest
  <1>4. CASE Promote(t) /\ TakeUp(t, selected)
    <2>1. t \in Kept /\ items' = MovedToFront(PlaceOf(t)) /\ UNCHANGED <<locked, num, lockedCount>>
      BY <1>4 DEF Promote
    <2>2. ListOK' /\ ToSet(items') = ToSet(items) /\ items' # << >> /\ Head(items') = t
      BY <2>1, PlaceOfText, MoveStep
    <2>3. locked \subseteq ToSet(items')
      BY <2>2 DEF ListOK
    <2> QED
      BY <1>3, <1>4, <2>2, <2>3 DEF ClipOK
  <1>5. CASE Insert(t) /\ TakeUp(t, selected)
    <2>1. /\ ListOK' /\ ToSet(items) \subseteq ToSet(items')
          /\ items' # << >> /\ Head(items') = t
      BY <1>5, InsertStep
    <2>2. locked \subseteq ToSet(items')
      BY <2>1 DEF ListOK
    <2> QED
      BY <1>3, <1>5, <2>1, <2>2 DEF ClipOK
  <1>6. ASSUME NEW i \in 1 .. Len(items), Replace(t, i), TakeUp(t, Outlives(i))
        PROVE  ListOK' /\ ClipOK' /\ locked \subseteq ToSet(items')
    <2>1. /\ ListOK' /\ locked \subseteq ToSet(items')
          /\ items' # << >> /\ Head(items') = t
      BY <1>6, ReplaceStep
    <2>2. Outlives(i) \in Texts \cup {NoText, Dangling}
      BY DEF Outlives, ClipOK
    <2> QED
      BY <1>3, <1>6, <2>1, <2>2
  <1> QED
    BY <1>2, <1>4, <1>5, <1>6 DEF Learn

----------------------------------------------------------------------------
(* The texts under way. *)

LEMMA FreedType ==
    ASSUME PollOK
    PROVE  Freed \in Seq(Texts) /\ Len(Freed) = Len(dialogs)
  <1>1. Len(dialogs) \in Nat
    BY LenProperties DEF PollOK
  <1>2. Freed \in [1 .. Len(dialogs) -> Texts]
    BY DEF Freed, Texts
  <1>3. Freed \in Seq(Texts)
    BY <1>1, <1>2, IsASeq DEF Freed, Texts
  <1>4. Len(Freed) \in Nat /\ DOMAIN Freed = 1 .. Len(Freed)
    BY <1>3, LenProperties
  <1>5. 1 .. Len(Freed) = 1 .. Len(dialogs)
    BY <1>2, <1>4
  <1> QED
    BY <1>1, <1>3, <1>4, <1>5

\* The first answer is taken off the queue.
LEMMA TakeReply ==
    ASSUME PollOK, replies # << >>
    PROVE  /\ Head(replies) \in Texts \cup {NoText}
           /\ Tail(replies) \in Seq(Texts \cup {NoText})
           /\ Len(Tail(replies)) <= MaxReplies
  <1>1. /\ Head(replies) \in Texts \cup {NoText}
        /\ Tail(replies) \in Seq(Texts \cup {NoText})
        /\ Len(Tail(replies)) = Len(replies) - 1
    BY HeadTailProperties DEF PollOK
  <1>2. Len(replies) \in Nat /\ MaxReplies \in Nat
    BY LenProperties, CliphistAssumption DEF PollOK
  <1> QED
    BY <1>1, <1>2 DEF PollOK

----------------------------------------------------------------------------
(* The file. *)

\* What is written of texts that do not repeat: no text twice, and no more
\* locked records than there are locked texts.
LEMMA RecordsWritten ==
    ASSUME NEW s \in Seq(Texts), Distinct(s),
           NEW l, IsFiniteSet(l), NEW most \in Nat, Cardinality(l) < most
    PROVE  RecordsOK(Records(s, l), most)
  <1> DEFINE r == Records(s, l)
             M == Marked(r)
             f == [i \in M |-> s[i]]
  <1>1. Len(s) \in Nat /\ \A i \in 1 .. Len(s) : s[i] \in Texts
    BY LenProperties, ElementOfSeq
  <1>2. r = [i \in 1 .. Len(s) |-> [text |-> s[i], locked |-> s[i] \in l]]
    BY DEF Records
  <1>3. \A i \in 1 .. Len(s) : [text |-> s[i], locked |-> s[i] \in l] \in Items
    BY <1>1 DEF Items
  <1> HIDE DEF r
  <1>4. r \in [1 .. Len(s) -> Items]
    BY <1>2, <1>3
  <1>5. r \in Seq(Items)
    BY <1>1, <1>2, <1>3, IsASeq
  <1>6. 1 .. Len(r) = 1 .. Len(s)
    BY <1>4, <1>5, LenProperties
  <1>7. \A i \in 1 .. Len(s) : r[i].text = s[i] /\ (r[i].locked <=> s[i] \in l)
    BY <1>2
  <1>8. \A i, k \in 1 .. Len(r) : r[i].text = r[k].text => i = k
    BY <1>6, <1>7 DEF Distinct
  <1>9. M \subseteq 1 .. Len(s) /\ \A i \in M : s[i] \in l
    BY <1>6, <1>7 DEF Marked
  <1> HIDE DEF M
  <1>10. f \in Injection(M, l)
    BY <1>9 DEF Distinct, Injection, IsInjective
  <1>11. IsFiniteSet(M) /\ Cardinality(M) <= Cardinality(l)
    BY <1>10, FS_Injection
  <1>12. Cardinality(M) \in Nat /\ Cardinality(l) \in Nat
    BY <1>11, FS_CardinalityType
  <1> QED
    BY <1>5, <1>8, <1>11, <1>12 DEF RecordsOK, r, M

\* A record of the file has the text and the lock it was written from.
LEMMA RecordsAt ==
    ASSUME NEW s \in Seq(Texts), NEW l
    PROVE  /\ Len(Records(s, l)) = Len(s)
           /\ \A i \in 1 .. Len(s) : /\ Records(s, l)[i].text = s[i]
                                     /\ Records(s, l)[i].locked <=> s[i] \in l
  <1>1. \A i \in 1 .. Len(s) : [text |-> s[i], locked |-> s[i] \in l] \in Items
    BY ElementOfSeq DEF Items
  <1>2. Records(s, l) \in [1 .. Len(s) -> Items] /\ Len(s) \in Nat
    BY <1>1, LenProperties DEF Records
  <1>3. Len(Records(s, l)) = Len(s)
    <2>1. Records(s, l) \in Seq(Items)
      BY <1>2, SeqDef
    <2> QED
      BY <1>2, <2>1, LenProperties
  <1> QED
    BY <1>3 DEF Records

\* Whatever part of the list reaches the disk can be loaded again.
LEMMA WriteStep ==
    ASSUME ListOK, WriteOut \/ WriteShort, largest' = largest
    PROVE  FileOK'
  <1> DEFINE s == Reverse(items)
  <1>1. s \in Seq(Texts) /\ Distinct(s) /\ Len(s) = Len(items)
    BY ReverseProperties DEF ListOK
  <1>2. /\ IsFiniteSet(locked) /\ largest \in Nat /\ Cardinality(locked) < largest
        /\ Len(items) \in Nat
    BY KeepNat, LenProperties DEF ListOK
  <1> HIDE DEF s
  <1>3. CASE WriteOut
    <2>1. /\ file' = [records |-> Records(s, locked), torn |-> FALSE]
          /\ saved' = [items |-> items, locked |-> locked]
      BY <1>3 DEF WriteOut, s
    <2>2. RecordsOK(Records(s, locked), largest)
      BY <1>1, <1>2, RecordsWritten
    <2>3. file' \in [records : Seq(Items), torn : BOOLEAN] /\ RecordsOK(file'.records, largest')
      BY <2>1, <2>2 DEF RecordsOK
    <2>4. /\ saved'.items = items /\ saved'.locked = locked
          /\ items \in Seq(Texts) /\ locked \subseteq ToSet(items)
      BY <2>1 DEF ListOK
    <2> QED
      BY <2>1, <2>3, <2>4 DEF FileOK, s
  <1>4. CASE WriteShort
    <2>1. PICK k \in 0 .. Len(items) - 1 :
            file' \in [records : {Records(SubSeq(s, 1, k), locked)}, torn : BOOLEAN]
      BY <1>4 DEF WriteShort, s
    <2>2. PICK q : q = SubSeq(s, 1, k)
      OBVIOUS
    <2>3. /\ k \in Nat /\ 1 \in Int /\ k \in Int
          /\ \A i \in 1 .. k : s[i] \in Texts /\ i \in 1 .. Len(s)
      BY <1>1, <1>2, ElementOfSeq
    <2>4. q \in Seq(Texts) /\ Len(q) = k /\ \A i \in 1 .. k : q[i] = s[i]
      BY <2>2, <2>3, SubSeqProperties
    <2>5. Distinct(q)
      BY <1>1, <2>3, <2>4 DEF Distinct
    <2>6. RecordsOK(Records(q, locked), largest)
      BY <1>2, <2>4, <2>5, RecordsWritten
    <2>7. file'.records = Records(q, locked) /\ file' \in [records : Seq(Items), torn : BOOLEAN]
      BY <2>1, <2>2, <2>6 DEF RecordsOK
    <2>8. saved' = NoText
      BY <1>4 DEF WriteShort
    <2> QED
      BY <2>6, <2>7, <2>8 DEF FileOK
  <1> QED
    BY <1>3, <1>4

\* What a session with k items to keep loads: so many records, these records,
\* their texts, and the places of the locked ones.
Loads(k)    == IF Len(file.records) < k THEN Len(file.records) ELSE k
FirstOf(n)  == SubSeq(file.records, 1, n)
TextsOf(n)  == [i \in 1 .. n |-> FirstOf(n)[i].text]
LockedOf(n) == {x \in 1 .. n : FirstOf(n)[x].locked}
NamesOf(n)  == {FirstOf(n)[i].text : i \in LockedOf(n)}

LEMMA StartReads ==
    ASSUME IInv, NEW n \in Nat, n <= Len(file.records)
    PROVE  /\ TextsOf(n) \in Seq(Texts) /\ Len(TextsOf(n)) = n /\ Distinct(TextsOf(n))
           /\ \A i \in 1 .. n : /\ FirstOf(n)[i] = file.records[i]
                                /\ TextsOf(n)[i] = file.records[i].text
           /\ IsFiniteSet(LockedOf(n)) /\ Cardinality(LockedOf(n)) < largest
           /\ IsFiniteSet(NamesOf(n))
           /\ Cardinality(NamesOf(n)) = Cardinality(LockedOf(n))
  <1> DEFINE r == file.records
  <1>1. RecordsOK(r, largest) /\ largest \in Nat
    BY KeepNat DEF IInv, FileOK, ListOK
  <1>2. /\ Len(r) \in Nat /\ \A i \in 1 .. Len(r) : r[i] \in Items
        /\ \A i \in 1 .. n : i \in 1 .. Len(r)
    BY <1>1, LenProperties, ElementOfSeq DEF RecordsOK
  <1>3. \A i \in 1 .. n : FirstOf(n)[i] = r[i]
    <2> HIDE DEF r
    <2>1. 1 \in Int /\ n \in Int /\ \A i \in 1 .. n : r[i] \in Items
      BY <1>2
    <2>2. \A i \in 1 .. n : SubSeq(r, 1, n)[i] = r[i]
      BY <2>1, SubSeqProperties
    <2> QED
      BY <2>2 DEF FirstOf, r
  <1> HIDE DEF r
  <1>4. \A i \in 1 .. n : FirstOf(n)[i].text = r[i].text /\ FirstOf(n)[i].text \in Texts
    BY <1>2, <1>3 DEF Items
  <1>5. TextsOf(n) \in Seq(Texts)
    BY <1>4, IsASeq DEF TextsOf
  <1>6. \A i \in 1 .. n : TextsOf(n)[i] = r[i].text
    BY <1>4 DEF TextsOf
  <1>7. Len(TextsOf(n)) = n
    BY <1>5, LenProperties DEF TextsOf
  <1>8. \A i, k \in 1 .. n : r[i].text = r[k].text => i = k
    BY <1>1, <1>2 DEF RecordsOK
  <1>9. Distinct(TextsOf(n))
    BY <1>6, <1>7, <1>8 DEF Distinct
  <1>10. LockedOf(n) \subseteq Marked(r)
    BY <1>2, <1>3 DEF Marked, LockedOf
  <1>11. IsFiniteSet(Marked(r)) /\ Cardinality(Marked(r)) < largest
    BY <1>1 DEF RecordsOK
  <1>12. IsFiniteSet(LockedOf(n)) /\ Cardinality(LockedOf(n)) <= Cardinality(Marked(r))
    BY <1>10, <1>11, FS_Subset
  <1>13. Cardinality(LockedOf(n)) < largest
    <2>1. Cardinality(LockedOf(n)) \in Nat /\ Cardinality(Marked(r)) \in Nat
      BY <1>11, <1>12, FS_CardinalityType
    <2> QED
      BY <1>1, <1>11, <1>12, <2>1
  <1>14. [i \in LockedOf(n) |-> FirstOf(n)[i].text] \in Bijection(LockedOf(n), NamesOf(n))
    <2>1. \A i, k \in LockedOf(n) : FirstOf(n)[i].text = FirstOf(n)[k].text => i = k
      BY <1>4, <1>8 DEF LockedOf
    <2> QED
      BY <2>1 DEF NamesOf, Bijection, Injection, Surjection, IsInjective
  <1>15. IsFiniteSet(NamesOf(n)) /\ Cardinality(NamesOf(n)) = Cardinality(LockedOf(n))
    BY <1>12, <1>14, FS_Bijection DEF ExistsBijection
  <1> QED
    BY <1>3, <1>5, <1>6, <1>7, <1>9, <1>12, <1>13, <1>15 DEF r

\* A session begins with a list that is as good as the one that was saved.
LEMMA StartStep ==
    ASSUME IInv, NEW k \in KeepSizes, Start(k)
    PROVE  /\ ListOK' /\ ClipOK' /\ FileOK'
           /\ pc' = "up" /\ saved # NoText =>
                items' = saved.items /\ locked' = saved.locked
  <1> DEFINE n == Loads(k)
  <1>1. k \in Nat \ {0} /\ keep \in Nat /\ largest \in Nat /\ Len(file.records) \in Nat
    BY KeepNat, LenProperties DEF IInv, ListOK, FileOK
  <1>2. n \in Nat /\ n <= k /\ n <= Len(file.records)
    BY <1>1 DEF Loads
  <1>3. /\ TextsOf(n) \in Seq(Texts) /\ Len(TextsOf(n)) = n /\ Distinct(TextsOf(n))
        /\ \A i \in 1 .. n : /\ FirstOf(n)[i] = file.records[i]
                             /\ TextsOf(n)[i] = file.records[i].text
        /\ IsFiniteSet(LockedOf(n)) /\ Cardinality(LockedOf(n)) < largest
        /\ IsFiniteSet(NamesOf(n))
        /\ Cardinality(NamesOf(n)) = Cardinality(LockedOf(n))
    BY <1>2, StartReads
  <1>4. /\ pc = "down" /\ keep' = k
        /\ largest' = IF k > largest THEN k ELSE largest
        /\ items' = Reverse(TextsOf(n))
        /\ locked' = NamesOf(n)
        /\ num' = n /\ lockedCount' = Cardinality(LockedOf(n))
        /\ UNCHANGED <<autoTake, disk>>
    BY Zenon DEF Start, Loads, FirstOf, TextsOf, LockedOf, NamesOf
  <1>5. pc' = IF Len(file.records) > n \/ file.torn THEN "toomuch" ELSE "up"
    BY DEF Start, Loads
  <1>6. \E c \in IF autoTake /\ n > 0
                  THEN Owned(owner, FirstOf(n)[n].text)
                       \cup (IF n > 1 THEN {<<Self, NoText>>} ELSE {})
                  ELSE {clip} :
           owner' = c[1] /\ selected' = c[2]
    BY Zenon DEF Start, Loads, FirstOf
  <1> HIDE DEF n
  <1>7. PICK q : q = Reverse(TextsOf(n))
    OBVIOUS
  <1>8. /\ q \in Seq(Texts) /\ Len(q) = n /\ Distinct(q) /\ ToSet(q) = ToSet(TextsOf(n))
         /\ \A i \in 1 .. n : q[i] = TextsOf(n)[n - i + 1]
    BY <1>3, <1>7, ReverseProperties
  <1>9. /\ largest' \in KeepSizes /\ keep' \in KeepSizes
         /\ keep' <= largest' /\ largest <= largest'
    BY <1>1, <1>4 DEF IInv, ListOK
  <1>10. NamesOf(n) \subseteq ToSet(q)
    <2>1. ToSet(TextsOf(n)) = {TextsOf(n)[i] : i \in 1 .. n}
      BY <1>3, ToSetPositions
    <2> QED
      BY <1>3, <1>8, <2>1 DEF NamesOf, LockedOf
  <1>11. ListOK'
    <2>1. lockedCount' < largest'
      <3>1. Cardinality(LockedOf(n)) \in Nat /\ largest' \in Nat
        BY <1>3, <1>9, KeepNat, FS_CardinalityType
      <3> QED
        BY <1>1, <1>3, <1>4, <1>9, <3>1
    <2>2. num' = Len(items') /\ num' <= keep'
      BY <1>2, <1>4, <1>7, <1>8
    <2>3. items' \in Seq(Texts) /\ Distinct(items') /\ locked' \subseteq ToSet(items')
      BY <1>4, <1>7, <1>8, <1>10
    <2>4. IsFiniteSet(locked') /\ lockedCount' = Cardinality(locked')
      BY <1>3, <1>4
    <2>5. autoTake' \in BOOLEAN
      BY <1>4 DEF IInv, ListOK
    <2> QED
      BY <1>9, <2>1, <2>2, <2>3, <2>4, <2>5 DEF ListOK
  <1>12. ClipOK'
    <2>1. CASE autoTake /\ n > 0
      <3>1. owner' \in {owner, Self} /\ selected' \in {FirstOf(n)[n].text, NoText}
        BY <1>6, <2>1 DEF Owned
      <3>2. n \in 1 .. n /\ 1 \in 1 .. n /\ n - 1 + 1 = n
        BY <1>2, <2>1
      <3>3. FirstOf(n)[n].text = TextsOf(n)[n] /\ TextsOf(n)[n] \in Texts /\ q[1] = TextsOf(n)[n]
        BY <1>3, <1>8, <3>2, ElementOfSeq
      <3>4. items' # << >> /\ Head(items') = FirstOf(n)[n].text
        BY <1>4, <1>7, <1>8, <2>1, <3>3, EmptySeq
      <3> QED
        BY <1>4, <1>5, <3>1, <3>3, <3>4 DEF IInv, ClipOK, OfferedIsNewest
    <2>2. CASE ~(autoTake /\ n > 0)
      <3>1. owner' = owner /\ selected' = NoText
        BY <1>4, <1>6, <2>2 DEF clip, IInv, ClipOK
      <3> QED
        BY <1>4, <1>5, <3>1 DEF IInv, ClipOK, OfferedIsNewest
    <2> QED
      BY <2>1, <2>2
  <1>13. FileOK'
    <2>1. file' = file /\ saved' = saved
      BY <1>4 DEF disk
    <2>2. RecordsOK(file.records, largest')
      <3>1. RecordsOK(file.records, largest) /\ largest' \in Nat
        BY <1>9, KeepNat DEF IInv, FileOK
      <3>2. Cardinality(Marked(file.records)) \in Nat
        BY <3>1, FS_CardinalityType DEF RecordsOK
      <3> QED
        BY <1>1, <1>9, <3>1, <3>2 DEF RecordsOK
    <2> QED
      BY <2>1, <2>2 DEF IInv, FileOK
  <1>14. ASSUME pc' = "up", saved # NoText
         PROVE  items' = saved.items /\ locked' = saved.locked
    <2>1. n = Len(file.records)
      BY <1>1, <1>2, <1>5, <1>14
    <2>2. PICK s : s = Reverse(saved.items)
      OBVIOUS
    <2>3. /\ saved.items \in Seq(Texts) /\ saved.locked \subseteq ToSet(saved.items)
          /\ file.records = Records(s, saved.locked)
      BY <1>14, <2>2 DEF IInv, FileOK
    <2>4. /\ s \in Seq(Texts) /\ ToSet(s) = ToSet(saved.items)
          /\ Reverse(s) = saved.items /\ Len(s) \in Nat
      BY <2>2, <2>3, ReverseProperties, LenProperties
    <2>5. PICK r : r = file.records
      OBVIOUS
    <2>6. n = Len(s) /\ \A i \in 1 .. n : /\ r[i].text = s[i]
                                          /\ r[i].locked <=> s[i] \in saved.locked
      <3>1. r = Records(s, saved.locked) /\ n = Len(r)
        BY <2>1, <2>3, <2>5
      <3> QED
        BY <2>4, <3>1, RecordsAt
    <2>7. \A i \in 1 .. n : /\ TextsOf(n)[i] = s[i] /\ FirstOf(n)[i].text = s[i]
                            /\ FirstOf(n)[i].locked <=> s[i] \in saved.locked
      <3>1. \A i \in 1 .. n : FirstOf(n)[i] = r[i] /\ TextsOf(n)[i] = r[i].text
        BY <1>3, <2>5
      <3> QED
        BY <2>6, <3>1
    <2>8. Len(s) = n /\ s = [i \in 1 .. n |-> s[i]]
      BY <2>4, <2>6, LenProperties
    <2>9. TextsOf(n) = s
      BY <2>7, <2>8 DEF TextsOf
    <2>10. locked' = saved.locked
      <3>1. ToSet(s) = {s[i] : i \in 1 .. n}
        BY <2>4, <2>8, ToSetPositions
      <3>2. \A v : v \in NamesOf(n) <=> v \in saved.locked
        BY <2>3, <2>4, <2>7, <3>1 DEF NamesOf, LockedOf
      <3> QED
        BY <1>4, <3>2
    <2> QED
      BY <1>4, <2>4, <2>9, <2>10
  <1> QED
    BY <1>11, <1>12, <1>13, <1>14

----------------------------------------------------------------------------
(* The invariant. *)

\* Nothing is under way, before the first session and after any.
NothingUnderWay ==
    /\ pc = "down" /\ old = NoText /\ replies = << >> /\ dialogs = << >>
    /\ clipLock = FALSE /\ clipIgnore = FALSE

LEMMA EmptyPoll == (NothingUnderWay => PollOK) /\ (NothingUnderWay' => PollOK')
  <1>1. << >> \in Seq(Texts \cup {NoText}) /\ << >> \in Seq(Texts) /\ Len(<< >>) = 0
    OBVIOUS
  <1>2. 0 <= MaxReplies /\ 0 <= MaxDialogs
    BY CliphistAssumption
  <1> QED
    BY <1>1, <1>2 DEF PollOK, NothingUnderWay

LEMMA InitOK == Init => IInv
  <1> SUFFICES ASSUME Init PROVE IInv
    OBVIOUS
  <1>1. /\ items = << >> /\ locked = {} /\ num = 0 /\ lockedCount = 0
        /\ keep \in KeepSizes /\ largest = keep /\ autoTake \in BOOLEAN
        /\ saved = [items |-> << >>, locked |-> {}]
        /\ file = [records |-> << >>, torn |-> FALSE]
    BY DEF Init
  <1>2. keep \in Nat \ {0}
    BY <1>1, KeepNat
  <1>3. IsFiniteSet({}) /\ Cardinality({}) = 0
    BY FS_EmptySet
  <1>4. << >> \in Seq(Texts) /\ Len(<< >>) = 0 /\ ToSet(<< >>) = {} /\ Distinct(<< >>)
    BY DEF ToSet, Distinct
  <1>5. ListOK
    BY <1>1, <1>2, <1>3, <1>4 DEF ListOK
  <1>6. ClipOK /\ PollOK
    <2>1. ClipOK
      BY DEF Init, ClipOK, OfferedIsNewest
    <2> QED
      BY <2>1, EmptyPoll DEF Init, NothingUnderWay
  <1>7. FileOK
    <2>1. Reverse(<< >>) \in Seq(Texts) /\ Len(Reverse(<< >>)) = 0
      BY <1>4, ReverseProperties
    <2>2. PICK r : r = Records(Reverse(<< >>), {})
      OBVIOUS
    <2>3. Distinct(Reverse(<< >>))
      BY <2>1 DEF Distinct
    <2>4. RecordsOK(r, largest)
      BY <1>1, <1>2, <1>3, <2>1, <2>2, <2>3, RecordsWritten
    <2>5. Len(r) = 0
      BY <2>1, <2>2, RecordsAt
    <2>6. r = << >>
      BY <2>4, <2>5, EmptySeq DEF RecordsOK
    <2>7. file.records = r /\ file \in [records : Seq(Items), torn : BOOLEAN]
      BY <1>1, <2>4, <2>6 DEF RecordsOK
    <2>8. /\ saved.items = << >> /\ saved.locked = {}
          /\ saved.items \in Seq(Texts) /\ saved.locked \subseteq ToSet(saved.items)
      BY <1>1, <1>4
    <2>9. file = [records |-> Records(Reverse(saved.items), saved.locked), torn |-> FALSE]
      BY <1>1, <2>2, <2>6, <2>8
    <2> QED
      BY <2>4, <2>7, <2>8, <2>9 DEF FileOK
  <1> QED
    BY <1>5, <1>6, <1>7 DEF IInv

\* A session that ends loses what was in memory, and nothing else.
LEMMA VanishStep ==
    ASSUME IInv, Vanish, FileOK'
    PROVE  IInv'
  <1>1. /\ pc' = "down" /\ items' = << >> /\ locked' = {} /\ num' = 0 /\ lockedCount' = 0
        /\ selected' = NoText /\ owner' = IF owner = Self THEN NoText ELSE owner
        /\ old' = NoText /\ replies' = << >> /\ dialogs' = << >>
        /\ clipLock' = FALSE /\ clipIgnore' = FALSE
        /\ UNCHANGED <<keep, autoTake, largest>>
    BY DEF Vanish, conf
  <1>2. IsFiniteSet({}) /\ Cardinality({}) = 0
    BY FS_EmptySet
  <1>3. << >> \in Seq(Texts) /\ Len(<< >>) = 0 /\ ToSet(<< >>) = {} /\ Distinct(<< >>)
    BY DEF ToSet, Distinct
  <1>4. keep \in Nat \ {0} /\ largest \in Nat \ {0}
    BY KeepNat DEF IInv, ListOK
  <1>5. ListOK'
    BY <1>1, <1>2, <1>3, <1>4 DEF IInv, ListOK
  <1>6. ClipOK'
    BY <1>1 DEF IInv, ClipOK, OfferedIsNewest
  <1>7. PollOK'
    BY <1>1, EmptyPoll DEF NothingUnderWay
  <1> QED
    BY <1>5, <1>6, <1>7 DEF IInv

LEMMA SameFile ==
    ASSUME FileOK, UNCHANGED <<disk, largest>>
    PROVE  FileOK'
  BY DEF FileOK, disk

\* A step that leaves the list and the clipboard alone.
LEMMA SameList ==
    ASSUME ListOK, ClipOK, UNCHANGED <<list, clip, conf>>, pc # "down", pc' # "down"
    PROVE  ListOK' /\ ClipOK'
  BY DEF ListOK, ClipOK, OfferedIsNewest, list, clip, conf

LEMMA SamePoll ==
    ASSUME PollOK, UNCHANGED <<poll, marks>>, pc' \in {"down", "toomuch", "up"}
    PROVE  PollOK'
  BY DEF PollOK, poll, marks

LEMMA AskStep == IInv /\ Ask => IInv'
  <1> SUFFICES ASSUME IInv, Ask PROVE IInv'
    OBVIOUS
  <1>1. /\ pc = "up" /\ Len(replies) < MaxReplies /\ replies' = Append(replies, Offer)
        /\ UNCHANGED <<pc, list, clip, old, dialogs, conf, marks, disk>>
    BY DEF Ask
  <1>2. Offer \in Texts \cup {NoText}
    BY DEF Offer, IInv, ClipOK, Texts
  <1>3. /\ replies' \in Seq(Texts \cup {NoText}) /\ Len(replies') = Len(replies) + 1
        /\ Len(replies) \in Nat /\ MaxReplies \in Nat
    BY <1>1, <1>2, AppendProperties, LenProperties, CliphistAssumption DEF IInv, PollOK
  <1>4. PollOK'
    BY <1>1, <1>3 DEF IInv, PollOK, marks
  <1> QED
    BY <1>1, <1>4, SameList, SameFile DEF IInv, conf

LEMMA ReceiveStep ==
    ASSUME IInv, Receive
    PROVE  IInv' /\ pc = "up" /\ locked \subseteq ToSet(items')
  <1>1. /\ pc = "up" /\ pc' = "up" /\ replies # << >> /\ replies' = Tail(replies)
        /\ UNCHANGED <<conf, marks, disk>>
    BY DEF Receive, ReceiveNothing, ReceiveOld, ReceiveNew, ReceiveAsked
  <1>2. /\ replies' \in Seq(Texts \cup {NoText}) /\ Len(replies') <= MaxReplies
        /\ Head(replies) \in Texts \cup {NoText}
    BY <1>1, TakeReply DEF IInv
  <1>3. UNCHANGED largest /\ FileOK'
    BY <1>1, SameFile DEF IInv, conf
  <1>4. locked \subseteq ToSet(items)
    BY DEF IInv, ListOK
  <1>5. CASE ReceiveNothing \/ ReceiveOld
    <2>1. UNCHANGED <<list, old, dialogs>>
      BY <1>5 DEF ReceiveNothing, ReceiveOld
    <2>2. selected' \in {selected, NoText} /\ owner' \in {owner, Self}
      BY <1>5, RetakeStep DEF ReceiveNothing, ReceiveOld, clip
    <2>3. ListOK' /\ ClipOK' /\ locked \subseteq ToSet(items')
      BY <1>1, <1>4, <2>1, <2>2 DEF IInv, ListOK, ClipOK, OfferedIsNewest, list, conf
    <2>4. PollOK'
      BY <1>1, <1>2, <2>1 DEF IInv, PollOK, marks
    <2> QED
      BY <1>1, <1>3, <2>3, <2>4 DEF IInv
  <1>6. CASE ReceiveNew
    <2>1. /\ Head(replies) \in Texts /\ old' = Head(replies) /\ dialogs' = Freed
          /\ Learn(Head(replies))
      BY <1>2, <1>6 DEF ReceiveNew
    <2>2. ListOK' /\ ClipOK' /\ locked \subseteq ToSet(items')
      BY <1>1, <2>1, LearnStep DEF IInv
    <2>3. PollOK'
      BY <1>1, <1>2, <2>1, FreedType DEF IInv, PollOK, marks
    <2> QED
      BY <1>1, <1>3, <2>2, <2>3 DEF IInv
  <1>7. CASE ReceiveAsked
    <2>1. /\ Head(replies) \in Texts /\ old' = Head(replies)
          /\ dialogs' = Append(Freed, Head(replies)) /\ Len(dialogs) < MaxDialogs
          /\ UNCHANGED <<list, clip>>
      BY <1>7, CliphistAssumption DEF ReceiveAsked, Texts
    <2>2. Freed \in Seq(Texts) /\ Len(Freed) = Len(dialogs)
      BY FreedType DEF IInv
    <2>3. /\ dialogs' \in Seq(Texts) /\ Len(dialogs') = Len(dialogs) + 1
          /\ Len(dialogs) \in Nat /\ MaxDialogs \in Nat
      BY <2>1, <2>2, AppendProperties, LenProperties, CliphistAssumption
    <2>4. PollOK'
      BY <1>1, <1>2, <2>1, <2>3 DEF IInv, PollOK, marks
    <2>5. ListOK' /\ ClipOK' /\ locked \subseteq ToSet(items')
      BY <1>1, <1>4, <2>1, SameList DEF IInv, list
    <2> QED
      BY <1>1, <1>3, <2>4, <2>5 DEF IInv
  <1> QED
    BY <1>5, <1>6, <1>7 DEF Receive

LEMMA AnsweredStep ==
    ASSUME IInv, Answered
    PROVE  IInv' /\ pc = "up" /\ locked \subseteq ToSet(items')
  <1>1. /\ pc = "up" /\ pc' = "up" /\ dialogs # << >> /\ dialogs' = Front(dialogs)
        /\ Learn(Last(dialogs)) /\ UNCHANGED <<old, replies, conf, marks, disk>>
    BY DEF Answered
  <1>2. /\ dialogs' \in Seq(Texts) /\ Len(dialogs') = Len(dialogs) - 1
        /\ Len(dialogs) \in Nat \ {0} /\ Last(dialogs) \in Texts
    BY <1>1, FrontLast DEF IInv, PollOK
  <1>3. ListOK' /\ ClipOK' /\ locked \subseteq ToSet(items')
    BY <1>1, <1>2, LearnStep DEF IInv
  <1>4. PollOK'
    BY <1>1, <1>2, CliphistAssumption DEF IInv, PollOK, marks
  <1> QED
    BY <1>1, <1>3, <1>4, SameFile DEF IInv, conf

LEMMA ChooseStep ==
    ASSUME IInv, NEW i \in 1 .. Len(items), Choose(i), pc = "up"
    PROVE  IInv' /\ locked \subseteq ToSet(items')
  <1>1. /\ items' = MovedToFront(i)
        /\ UNCHANGED <<pc, locked, num, lockedCount, poll, conf, marks, disk>>
    BY DEF Choose
  <1>2. owner' \in {Self, owner} /\ selected' \in {items[i], NoText}
    BY DEF Choose, Owned
  <1>3. /\ ListOK' /\ ToSet(items') = ToSet(items)
        /\ items' # << >> /\ Head(items') = items[i]
    BY <1>1, MoveStep DEF IInv
  <1>4. items[i] \in Texts
    BY ElementOfSeq DEF IInv, ListOK
  <1>5. ClipOK'
    BY <1>1, <1>2, <1>3, <1>4 DEF IInv, ClipOK, OfferedIsNewest
  <1>6. PollOK' /\ FileOK'
    BY <1>1, SamePoll, SameFile DEF IInv, PollOK, conf
  <1> QED
    BY <1>3, <1>5, <1>6 DEF IInv, ListOK

\* The user: only moves and marks, and what process_item does with the answer.
LEMMA UserStep ==
    ASSUME IInv, User
    PROVE  IInv' /\ pc = "up" /\ (pc' = "up" => locked \subseteq ToSet(items'))
  <1>1. locked \subseteq ToSet(items)
    BY DEF IInv, ListOK
  <1>2. CASE Activate
    BY <1>2, ChooseStep DEF Activate
  <1>3. CASE PrevItem
    <2>1. pc = "up" /\ 2 \in 1 .. Len(items) /\ Choose(2)
      BY <1>3 DEF PrevItem, Choose
    <2> QED
      BY <2>1, ChooseStep
  <1>4. CASE ToggleMarks
    <2>1. /\ pc = "up" /\ UNCHANGED <<pc, list, clip, poll, conf, disk>>
          /\ clipLock' \in BOOLEAN /\ clipIgnore' \in BOOLEAN
      BY <1>4 DEF ToggleMarks, IInv, PollOK
    <2>2. ListOK' /\ ClipOK' /\ FileOK'
      BY <2>1, SameList, SameFile DEF IInv, conf
    <2>3. PollOK'
      BY <2>1 DEF IInv, PollOK, poll
    <2> QED
      BY <1>1, <2>1, <2>2, <2>3 DEF IInv, list
  <1>5. CASE Answered
    BY <1>5, AnsweredStep
  <1>6. ASSUME NEW t \in Texts, Lock(t) \/ Unlock(t)
        PROVE  IInv' /\ pc = "up" /\ locked \subseteq ToSet(items')
    <2>1. pc = "up" /\ UNCHANGED <<pc, items, clip, poll, conf, marks, disk>>
      BY <1>6 DEF Lock, Unlock
    <2>2. ListOK'
      BY <1>6, LockStep, UnlockStep DEF IInv
    <2>3. ClipOK'
      BY <2>1 DEF IInv, ClipOK, OfferedIsNewest, clip, conf
    <2>4. PollOK' /\ FileOK'
      BY <2>1, SamePoll, SameFile DEF IInv, conf
    <2> QED
      BY <1>1, <2>1, <2>2, <2>3, <2>4 DEF IInv
  <1> QED
    BY <1>2, <1>3, <1>4, <1>5, <1>6 DEF User

LEMMA SaveStep ==
    ASSUME IInv, Save
    PROVE  IInv' /\ pc = "up" /\ locked \subseteq ToSet(items')
  <1>1. /\ pc = "up" /\ (WriteOut \/ WriteShort)
        /\ UNCHANGED <<pc, list, clip, poll, conf, marks>>
    BY DEF Save
  <1>2. FileOK'
    BY <1>1, WriteStep DEF IInv, conf
  <1>3. ListOK' /\ ClipOK' /\ PollOK'
    BY <1>1, SameList, SamePoll DEF IInv
  <1> QED
    BY <1>1, <1>2, <1>3 DEF IInv, ListOK, list

\* Sessions: what is not the beginning of one leaves the list of this one alone.
LEMMA SessionStep ==
    ASSUME IInv, Session
    PROVE  /\ IInv'
           /\ pc # "up" \/ pc' # "up"
           /\ pc = "down" /\ pc' = "up" /\ saved # NoText =>
                items' = saved.items /\ locked' = saved.locked
  <1>1. CASE Exit
    <2>1. pc = "up" /\ Vanish /\ (WriteOut \/ WriteShort)
      BY <1>1 DEF Exit
    <2>2. FileOK'
      BY <2>1, WriteStep DEF IInv, Vanish, conf
    <2> QED
      BY <2>1, <2>2, VanishStep DEF Vanish
  <1>2. CASE Stop \/ Abort \/ Decline
    <2>1. Vanish /\ UNCHANGED disk
      BY <1>2 DEF Stop, Abort, Decline
    <2>2. FileOK'
      BY <2>1, SameFile DEF IInv, Vanish, conf
    <2> QED
      BY <2>1, <2>2, VanishStep DEF Vanish
  <1>3. CASE Continue
    <2>1. /\ pc = "toomuch" /\ pc' = "up"
          /\ UNCHANGED <<list, clip, poll, conf, marks, disk>>
      BY <1>3 DEF Continue
    <2> QED
      BY <2>1, SameList, SamePoll, SameFile DEF IInv, conf
  <1>4. ASSUME NEW k \in KeepSizes, Start(k)
        PROVE  /\ IInv' /\ pc = "down"
               /\ pc' = "up" /\ saved # NoText =>
                    items' = saved.items /\ locked' = saved.locked
    <2>1. /\ ListOK' /\ ClipOK' /\ FileOK'
          /\ pc' = "up" /\ saved # NoText =>
               items' = saved.items /\ locked' = saved.locked
      BY <1>4, StartStep
    <2>2. pc = "down" /\ pc' \in {"toomuch", "up"} /\ UNCHANGED <<poll, marks>>
      BY <1>4 DEF Start
    <2> QED
      BY <2>1, <2>2, SamePoll DEF IInv
  <1> QED
    BY <1>1, <1>2, <1>3, <1>4 DEF Session

LEMMA CopyStep ==
    ASSUME IInv, Copy
    PROVE  IInv'
  <1>1. /\ owner' \in Copyable
        /\ UNCHANGED <<pc, list, selected, poll, conf, marks, disk>>
    BY DEF Copy
  <1>2. ListOK' /\ ClipOK'
    BY <1>1 DEF IInv, ListOK, ClipOK, OfferedIsNewest, list, conf
  <1>3. PollOK' /\ FileOK'
    BY <1>1, SamePoll, SameFile DEF IInv, PollOK, conf
  <1> QED
    BY <1>2, <1>3 DEF IInv

LEMMA StutterStep == IInv /\ UNCHANGED vars => IInv'
  <1> SUFFICES ASSUME IInv, UNCHANGED vars PROVE IInv'
    OBVIOUS
  <1>1. UNCHANGED <<pc, list, clip, poll, conf, marks, disk>>
    BY DEF vars
  <1>2. ListOK' /\ ClipOK'
    BY <1>1 DEF IInv, ListOK, ClipOK, OfferedIsNewest, list, clip, conf
  <1>3. PollOK' /\ FileOK'
    BY <1>1, SamePoll, SameFile DEF IInv, PollOK, conf
  <1> QED
    BY <1>2, <1>3 DEF IInv

LEMMA InvStep == IInv /\ [Next]_vars => IInv'
  BY AskStep, ReceiveStep, UserStep, SaveStep, SessionStep, CopyStep, StutterStep
     DEF Next

THEOREM Invariance == Spec => []IInv
  BY InitOK, InvStep, PTL DEF Spec

----------------------------------------------------------------------------
(* The theorems. *)

\* TypeOK: the state of wmcliphist keeps its form.
THEOREM TypeCorrect == Spec => []TypeOK
  <1>1. IInv => TypeOK
    <2> SUFFICES ASSUME IInv PROVE TypeOK
      OBVIOUS
    <2>1. num \in Nat /\ lockedCount \in Nat /\ locked \subseteq Texts
      <3>1. ToSet(items) \subseteq Texts
        BY ToSetPositions, ElementOfSeq DEF IInv, ListOK
      <3> QED
        BY <3>1, LenProperties, FS_CardinalityType DEF IInv, ListOK
    <2> QED
      BY <2>1 DEF IInv, ListOK, ClipOK, PollOK, FileOK, TypeOK
  <1> QED
    BY <1>1, Invariance, PTL

\* CountersAgree: the counters menu_item_add and the lock button decide by are
\* those of the list, which holds no text twice and no more than it may.
THEOREM CountersHold == Spec => []CountersAgree
  <1>1. IInv => CountersAgree
    BY DEF IInv, ListOK, CountersAgree, Kept, Distinct
  <1> QED
    BY <1>1, Invariance, PTL

\* RoomForNew: the assertion of menu_item_add holds in every session that has
\* as much room as those before it.  A full list has as many texts as it may,
\* and fewer of them are locked.
THEOREM RoomIsLeft == Spec => []RoomForNew
  <1>1. IInv => RoomForNew
    <2> SUFFICES ASSUME IInv, num = keep, Kept \subseteq locked
                 PROVE  keep < largest
      BY DEF RoomForNew
    <2>1. IsFiniteSet(Kept) /\ Cardinality(Kept) = Len(items)
      BY DistinctCounts DEF IInv, ListOK, Kept
    <2>2. locked = Kept
      BY DEF IInv, ListOK, Kept
    <2> QED
      BY <2>1, <2>2 DEF IInv, ListOK
  <1> QED
    BY <1>1, Invariance, PTL

\* OfferedIsNewest: with auto_take_up, what wmcliphist offers is its newest item.
THEOREM NewestIsOffered == Spec => []OfferedIsNewest
  <1>1. IInv => OfferedIsNewest
    BY DEF IInv, ClipOK
  <1> QED
    BY <1>1, Invariance, PTL

\* LockedStay: within a session no locked item leaves the list.
THEOREM LockedAreSpared == Spec => LockedStay
  <1>1. IInv /\ [Next]_vars => [pc = "up" /\ pc' = "up" => locked \subseteq ToSet(items')]_vars
    <2> SUFFICES ASSUME IInv, Next, pc = "up", pc' = "up"
                 PROVE  locked \subseteq ToSet(items')
      OBVIOUS
    <2>1. locked \subseteq ToSet(items)
      BY DEF IInv, ListOK
    <2>2. CASE Ask \/ Copy
      BY <2>1, <2>2 DEF Ask, Copy, list
    <2> QED
      BY <2>2, ReceiveStep, UserStep, SaveStep, SessionStep DEF Next
  <1> QED
    BY <1>1, Invariance, PTL DEF Spec, LockedStay

\* Restored: a session begins with the list of the last save.
THEOREM SessionRestores == Spec => Restored
  <1>1. IInv /\ [Next]_vars =>
          [pc = "down" /\ pc' = "up" /\ saved # NoText =>
             items' = saved.items /\ locked' = saved.locked]_vars
    <2> SUFFICES ASSUME IInv, Next, pc = "down", pc' = "up", saved # NoText
                 PROVE  items' = saved.items /\ locked' = saved.locked
      OBVIOUS
    <2>1. ~Ask /\ ~Copy
      BY DEF Ask, Copy
    <2> QED
      BY <2>1, ReceiveStep, UserStep, SaveStep, SessionStep DEF Next
  <1> QED
    BY <1>1, Invariance, PTL DEF Spec, Restored
=============================================================================
