--------------------------- MODULE WmTetrisProofs ---------------------------
(***************************************************************************)
(* Proofs about the game of wmtetris, for a board of any size, any choice  *)
(* of figures and games of any length.                                     *)
(*                                                                         *)
(* The types depend on where the figure is, so the two are proved          *)
(* together.  That no row stays full needs to know what the loop that      *)
(* clears rows leaves above the row it has come to (Cleared); that nothing *)
(* but the full rows goes, and that progress counts them, needs to know    *)
(* where each cell of the landed board is at every turn of it (Clearing).  *)
(***************************************************************************)
EXTENDS WmTetris, FiniteSetTheorems, TLAPS

LEMMA FiguresInSquare ==
    \A t \in 0 .. 6 : initial_figures(t) \subseteq Square
  BY DEF initial_figures, Square

\* Turning a figure leaves it in its square.
LEMMA TurnsInSquare ==
    ASSUME NEW f \in SUBSET Square
    PROVE  Left(f) \subseteq Square /\ Right(f) \subseteq Square
  BY DEF Left, Right, Square

\* The figure is on the board while it falls; the loop over the rows has
\* cleared no more rows than it has seen.
Placed ==
    /\ FigureFits
    /\ pc = "clear" => progress <= y

LEMMA InitPlaced == Init => TypeOK /\ Placed
  <1> SUFFICES ASSUME Init
               PROVE  TypeOK /\ Placed
    OBVIOUS
  <1> USE TetrisAssumption
  <1>1. figure \subseteq Square
    BY FiguresInSquare DEF Init
  <1>2. StartX \in Nat /\ 1 <= StartX /\ StartX + 3 < BOARD_WIDTH
    BY DEF StartX
  <1>3. Blocks(figure, fig_x, fig_y) \subseteq Cells
    BY <1>1, <1>2 DEF Init, Blocks, Square, Cells, Columns, Rows
  <1>4. Placed
    BY <1>3 DEF Init, Placed, FigureFits, Fits
  <1>5. TypeOK
    BY <1>1, <1>2 DEF Init, TypeOK
  <1> QED
    BY <1>4, <1>5

\* A figure that lands takes cells of the board; one that is cleared around
\* moves nothing off it.
LEMMA LoweredOnBoard == \A b, r : Lowered(b, r) \subseteq Cells
  BY DEF Lowered

\* No step takes the figure or the board out of bounds.
LEMMA PlacedStep == TypeOK /\ Placed /\ [Next]_vars => TypeOK' /\ Placed'
  <1> SUFFICES ASSUME TypeOK, Placed, [Next]_vars
               PROVE  TypeOK' /\ Placed'
    OBVIOUS
  <1> USE TetrisAssumption DEF TypeOK, Placed, FigureFits
  <1>1. CASE Fall
    BY <1>1 DEF Fall, Fits
  <1>2. CASE Land
    BY <1>2 DEF Land, Fits, fig
  <1>3. CASE ClearRow
    BY <1>3, LoweredOnBoard DEF ClearRow, fig, Rows
  <1>4. CASE NewFigure
    <2>1. figure' \subseteq Square
      BY <1>4, FiguresInSquare DEF NewFigure
    <2>2. StartX \in Nat
      BY DEF StartX
    <2>3. progress * progress \in Nat
      OBVIOUS
    <2> QED
      BY <1>4, <2>1, <2>2, <2>3 DEF NewFigure, Fits
  <1>5. CASE Rotate
    <2>1. figure' \subseteq Square
      BY <1>5, TurnsInSquare DEF Rotate
    <2> QED
      BY <1>5, <2>1 DEF Rotate, Fits
  <1>6. CASE Move
    BY <1>6 DEF Move, Fits
  <1>7. CASE NextTurn
    BY <1>7 DEF NextTurn, fig, Fits
  <1>8. CASE UNCHANGED vars
    BY <1>8 DEF vars, fig, Fits
  <1> QED
    BY <1>1, <1>2, <1>3, <1>4, <1>5, <1>6, <1>7, <1>8 DEF Next

LEMMA AlwaysPlaced == Spec => [](TypeOK /\ Placed)
  <1> QED
    BY InitPlaced, PlacedStep, PTL DEF Spec

\* Every variable keeps its type: the board has no block outside, and the
\* figure none outside its square, however often it is turned.
THEOREM TypeCorrect == Spec => []TypeOK
  <1> QED
    BY AlwaysPlaced, PTL

\* However it falls, is moved and is turned, a figure is on the board and on
\* free cells until it lands: board[][] is never written outside its bounds.
THEOREM FigureStaysOnBoard == Spec => []FigureFits
  <1> QED
    BY AlwaysPlaced, PTL DEF Placed

----------------------------------------------------------------------------
(* Full rows. *)

\* Above the row it has come to the loop leaves no full row, unless the top
\* row is one; after the loop that is every row.
Cleared ==
    \/ FullRow(board, 0)
    \/ \A r \in Rows : pc = "clear" /\ r < y => ~FullRow(board, r)

Swept == NoFullRows /\ Cleared

\* What the loop body does to each row: it copies the one above.
LEMMA LoweredRows ==
    ASSUME NEW b \in SUBSET Cells, NEW r \in Rows, NEW i \in Rows
    PROVE  FullRow(Lowered(b, r), i) <=> FullRow(b, IF i > r \/ i = 0 THEN i ELSE i - 1)
  <1>1. \A x \in Columns : <<x, i>> \in Cells
    BY DEF Cells
  <1>2. \A x \in Columns :
          <<x, i>> \in Lowered(b, r) <=> <<x, IF i > r \/ i = 0 THEN i ELSE i - 1>> \in b
    BY <1>1 DEF Lowered
  <1> QED
    BY <1>2 DEF FullRow

LEMMA SweptStep == TypeOK /\ Placed /\ Swept /\ [Next]_vars => Swept'
  <1> SUFFICES ASSUME TypeOK, Placed, Swept, [Next]_vars
               PROVE  Swept'
    OBVIOUS
  <1> USE TetrisAssumption DEF Swept, NoFullRows, Cleared, FullRows
  <1>1. CASE Land
    BY <1>1 DEF Land, Rows
  <1>2. CASE ClearRow
    <2>1. pc' = "clear" /\ y' = y + 1 /\ y \in Rows /\ 0 \in Rows /\ pc = "clear"
      BY <1>2 DEF ClearRow, Rows
    <2>2. CASE ~FullRow(board, y)
      <3>1. board' = board
        BY <1>2, <2>2 DEF ClearRow
      <3> QED
        BY <2>1, <2>2, <3>1 DEF Rows, FullRow
    <2>3. CASE FullRow(board, y)
      <3>1. board' = Lowered(board, y)
        BY <1>2, <2>3 DEF ClearRow
      <3>2. \A i \in Rows : FullRow(board', i)
                              <=> FullRow(board, IF i > y \/ i = 0 THEN i ELSE i - 1)
        BY <2>1, <3>1, LoweredRows DEF TypeOK
      <3>3. CASE FullRow(board, 0)
        <4>1. FullRow(board', 0)
          BY <2>1, <3>2, <3>3
        <4> QED
          BY <2>1, <4>1 DEF FullRow
      <3>4. CASE ~FullRow(board, 0)
        <4>1. \A i \in Rows : i < y => ~FullRow(board, i)
          BY <2>1, <3>4
        <4>2. ASSUME NEW i \in Rows, i < y + 1
              PROVE  ~FullRow(board', i)
          <5>1. CASE i = 0
            BY <3>2, <3>4, <5>1
          <5>2. CASE i # 0
            <6>1. i - 1 \in Rows /\ i - 1 < y /\ ~(i > y)
              BY <2>1, <4>2, <5>2 DEF Rows
            <6> QED
              BY <3>2, <4>1, <5>2, <6>1
          <5> QED
            BY <5>1, <5>2
        <4> QED
          BY <2>1, <4>2 DEF FullRow
      <3> QED
        BY <3>3, <3>4
    <2> QED
      BY <2>2, <2>3
  <1>3. CASE NewFigure
    <2>1. board' = board /\ pc' # "clear" /\ pc = "clear" /\ \A r \in Rows : r < y
      BY <1>3 DEF NewFigure, Rows
    <2> QED
      BY <2>1 DEF FullRow
  <1>4. CASE Fall \/ Rotate \/ Move \/ NextTurn \/ UNCHANGED vars
    <2>1. /\ board' = board
          /\ (pc' = pc /\ y' = y) \/ (pc # "clear" /\ pc' # "clear")
      BY <1>4 DEF Fall, Rotate, Move, NextTurn, vars
    <2> QED
      BY <2>1 DEF FullRow
  <1> QED
    BY <1>1, <1>2, <1>3, <1>4 DEF Next

\* Between two landings no row is full, however many rows a figure has filled
\* at once, unless the top row is full: the one pass from the top to the bottom
\* misses none while it moves them.
THEOREM RowsAreCleared == Spec => []NoFullRows
  <1>1. Init => Swept
    BY TetrisAssumption DEF Init, Swept, NoFullRows, Cleared, FullRows, FullRow, Columns
  <1>2. Swept => NoFullRows
    BY DEF Swept
  <1> QED
    BY <1>1, <1>2, AlwaysPlaced, SweptStep, PTL DEF Spec

----------------------------------------------------------------------------
(* What the loop leaves. *)

\* The full rows of a board strictly between two rows.
FullBetween(b, i, k) == {r \in FullRows(b) : r > i /\ r < k}

\* The board when the loop has come to row k: the rows above have been closed
\* up, those from k on are as they were.
CollapsedTo(b, k) ==
    {<<c[1], c[2] + Cardinality(FullBetween(b, c[2], k))>> :
        c \in {d \in b : d[2] >= k \/ ~FullRow(b, d[2])}}

Clearing ==
    pc = "clear" =>
        /\ \A c \in Cells : c[2] >= y => (c \in board <=> c \in landed)
        /\ progress = Cardinality(FullBetween(landed, -1, y))
        /\ RowOf(landed, 0) = {} => board = CollapsedTo(landed, y)

\* Between two rows there are no more full ones than rows, and a row adds itself
\* to those above it if it is full.
LEMMA FullBetweenCount ==
    ASSUME NEW b, NEW i \in -1 .. BOARD_HEIGHT, NEW k \in 0 .. BOARD_HEIGHT
    PROVE  /\ Cardinality(FullBetween(b, i, k)) \in Nat
           /\ i >= k => Cardinality(FullBetween(b, i, k)) = 0
           /\ i < k => Cardinality(FullBetween(b, i, k)) <= k - 1 - i
           /\ Cardinality(FullBetween(b, i, k + 1))
                = IF k \in Rows /\ i < k /\ FullRow(b, k)
                  THEN Cardinality(FullBetween(b, i, k)) + 1
                  ELSE Cardinality(FullBetween(b, i, k))
  <1> USE TetrisAssumption
  <1>1. PICK S : S = FullBetween(b, i, k)
    OBVIOUS
  <1>2. PICK T : T = FullBetween(b, i, k + 1)
    OBVIOUS
  <1>3. IsFiniteSet((i + 1) .. (k - 1))
    BY FS_Interval
  <1>4. Cardinality((i + 1) .. (k - 1)) = IF i + 1 > k - 1 THEN 0 ELSE (k - 1) - (i + 1) + 1
    BY FS_Interval
  <1>5. S \in SUBSET ((i + 1) .. (k - 1))
    BY <1>1 DEF FullBetween, FullRows, Rows
  <1>6. IsFiniteSet(S) /\ Cardinality(S) \in Nat
        /\ Cardinality(S) <= Cardinality((i + 1) .. (k - 1))
    BY <1>3, <1>5, FS_Subset, FS_CardinalityType
  <1>7. i >= k => S = {}
    BY <1>1 DEF FullBetween, FullRows, Rows
  <1>8. Cardinality({}) = 0
    BY FS_EmptySet
  <1>9. T = IF k \in Rows /\ i < k /\ FullRow(b, k) THEN S \cup {k} ELSE S
    <2>1. CASE k \in Rows /\ i < k /\ FullRow(b, k)
      <3>1. \A r : r \in T <=> r \in S \cup {k}
        BY <1>1, <1>2, <2>1 DEF FullBetween, FullRows, Rows
      <3> QED
        BY <2>1, <3>1
    <2>2. CASE ~(k \in Rows /\ i < k /\ FullRow(b, k))
      <3>1. \A r : r \in T <=> r \in S
        BY <1>1, <1>2, <2>2 DEF FullBetween, FullRows, Rows
      <3> QED
        BY <2>2, <3>1
    <2> QED
      BY <2>1, <2>2
  <1>10. k \notin S
    BY <1>1 DEF FullBetween, FullRows, Rows
  <1>11. Cardinality(S \cup {k}) = Cardinality(S) + 1
    BY <1>6, <1>10, FS_AddElement
  <1>12. Cardinality(T) = IF k \in Rows /\ i < k /\ FullRow(b, k)
                          THEN Cardinality(S) + 1 ELSE Cardinality(S)
    BY <1>9, <1>11
  <1>13. i >= k => Cardinality(S) = 0
    BY <1>7, <1>8
  <1>14. i < k => Cardinality(S) <= k - 1 - i
    BY <1>4, <1>6
  <1> QED
    BY <1>1, <1>2, <1>6, <1>12, <1>13, <1>14

\* Before the loop nothing has moved; after it everything has come down.
LEMMA CollapsedEnds ==
    ASSUME NEW b \in SUBSET Cells
    PROVE  /\ CollapsedTo(b, 0) = b
           /\ CollapsedTo(b, BOARD_HEIGHT) = Collapsed(b)
           /\ FullBetween(b, -1, BOARD_HEIGHT) = FullRows(b)
  <1> USE TetrisAssumption
  <1>1. \A c \in b : c = <<c[1], c[2]>> /\ c[2] \in Rows
    BY DEF Cells
  <1>2. \A c \in b : c[2] + Cardinality(FullBetween(b, c[2], 0)) = c[2]
    BY <1>1, FullBetweenCount DEF Rows
  <1>3. {d \in b : d[2] >= 0 \/ ~FullRow(b, d[2])} = b
    BY <1>1 DEF Rows
  <1>4. CollapsedTo(b, 0) = {<<c[1], c[2]>> : c \in b}
    BY <1>2, <1>3 DEF CollapsedTo
  <1>5. CollapsedTo(b, 0) = b
    BY <1>1, <1>4
  <1>6. \A c \in b : FullBetween(b, c[2], BOARD_HEIGHT) = {r \in FullRows(b) : r > c[2]}
    BY <1>1 DEF FullBetween, FullRows, Rows
  <1>7. {d \in b : d[2] >= BOARD_HEIGHT \/ ~FullRow(b, d[2])} = {d \in b : ~FullRow(b, d[2])}
    BY <1>1 DEF Rows
  <1>8. CollapsedTo(b, BOARD_HEIGHT) = Collapsed(b)
    BY <1>6, <1>7 DEF CollapsedTo, Collapsed
  <1>9. FullBetween(b, -1, BOARD_HEIGHT) = FullRows(b)
    BY DEF FullBetween, FullRows, Rows
  <1> QED
    BY <1>5, <1>8, <1>9

\* A row that is not full is left where it is.
LEMMA CollapsedPast ==
    ASSUME NEW b \in SUBSET Cells, NEW k \in Rows, ~FullRow(b, k)
    PROVE  CollapsedTo(b, k + 1) = CollapsedTo(b, k)
  <1> USE TetrisAssumption
  <1>1. \A c \in b : c[2] \in Rows
    BY DEF Cells
  <1>2. \A c \in b : Cardinality(FullBetween(b, c[2], k + 1))
                       = Cardinality(FullBetween(b, c[2], k))
    BY <1>1, FullBetweenCount DEF Rows
  <1>3. {d \in b : d[2] >= k + 1 \/ ~FullRow(b, d[2])}
          = {d \in b : d[2] >= k \/ ~FullRow(b, d[2])}
    <2>1. \A d \in b : d[2] >= k /\ ~(d[2] >= k + 1) => d[2] = k
      BY <1>1 DEF Rows
    <2>2. \A d \in b : d[2] >= k + 1 => d[2] >= k
      BY <1>1 DEF Rows
    <2> QED
      BY <2>1, <2>2
  <1> QED
    BY <1>2, <1>3 DEF CollapsedTo

\* A full row is taken out by what the loop body does, if the top row is empty.
LEMMA CollapsedOver ==
    ASSUME NEW b \in SUBSET Cells, NEW k \in Rows, FullRow(b, k), RowOf(b, 0) = {}
    PROVE  CollapsedTo(b, k + 1) = Lowered(CollapsedTo(b, k), k)
  <1> USE TetrisAssumption
  <1> DEFINE n(c) == Cardinality(FullBetween(b, c[2], k))
             m(c) == Cardinality(FullBetween(b, c[2], k + 1))
             old(c) == <<c[1], c[2] + n(c)>>
             new(c) == <<c[1], c[2] + m(c)>>
  <1>1. \A c \in b : /\ c = <<c[1], c[2]>>
                     /\ c[1] \in Columns /\ c[2] \in Rows /\ c[2] # 0
    BY DEF Cells, RowOf, Rows
  <1>2. \A c \in b : /\ n(c) \in Nat
                     /\ c[2] >= k => n(c) = 0
                     /\ c[2] < k => n(c) <= k - 1 - c[2]
                     /\ m(c) = IF c[2] < k THEN n(c) + 1 ELSE n(c)
    BY <1>1, FullBetweenCount DEF Rows
  <1>3. CollapsedTo(b, k) = {old(c) : c \in {d \in b : d[2] >= k \/ ~FullRow(b, d[2])}}
    BY DEF CollapsedTo
  <1>4. CollapsedTo(b, k + 1)
          = {new(c) : c \in {d \in b : d[2] >= k + 1 \/ ~FullRow(b, d[2])}}
    BY DEF CollapsedTo
  <1> HIDE DEF n, m
  <1>5. ASSUME NEW e \in CollapsedTo(b, k + 1)
        PROVE  e \in Lowered(CollapsedTo(b, k), k)
    <2>1. PICK c \in b : e = new(c) /\ (c[2] >= k + 1 \/ ~FullRow(b, c[2]))
      BY <1>4, <1>5
    <2>2. CASE c[2] < k
      <3>1. e = <<c[1], c[2] + n(c) + 1>> /\ c[2] + n(c) + 1 <= k /\ c[2] + n(c) + 1 > 0
        BY <1>1, <1>2, <2>1, <2>2 DEF Rows
      <3>2. old(c) \in CollapsedTo(b, k)
        BY <1>1, <1>3, <2>1, <2>2 DEF Rows
      <3>3. e \in Cells
        BY <1>1, <1>2, <3>1 DEF Cells, Rows
      <3>4. <<e[1], e[2] - 1>> = old(c)
        BY <1>1, <1>2, <3>1 DEF Rows
      <3>5. e[2] <= k /\ e[2] # 0
        BY <1>1, <1>2, <3>1 DEF Rows
      <3> QED
        <4>1. ~(e[2] > k \/ e[2] = 0)
          BY <2>1, <3>5, <1>1, <1>2, <3>1 DEF Rows
        <4>2. <<e[1], e[2] - 1>> \in CollapsedTo(b, k)
          BY <3>2, <3>4
        <4> QED
          BY <3>3, <4>1, <4>2, Zenon DEF Lowered
    <2>3. CASE c[2] >= k
      <3>1. c[2] > k
        BY <1>1, <2>1, <2>3 DEF Rows
      <3>2. e = old(c) /\ e = c
        BY <1>1, <1>2, <2>1, <2>3 DEF Rows
      <3>3. e \in CollapsedTo(b, k)
        BY <1>3, <2>3, <3>2
      <3> QED
        BY <3>1, <3>2, <3>3 DEF Lowered
    <2> QED
      BY <1>1, <2>2, <2>3 DEF Rows
  <1>6. ASSUME NEW e \in Lowered(CollapsedTo(b, k), k)
        PROVE  e \in CollapsedTo(b, k + 1)
    <2>1. e \in Cells /\ e = <<e[1], e[2]>> /\ e[2] \in Rows
      BY <1>6 DEF Lowered, Cells
    <2>2. CASE e[2] > k \/ e[2] = 0
      <3>1. e \in CollapsedTo(b, k)
        BY <1>6, <2>2 DEF Lowered
      <3>2. PICK c \in b : e = old(c) /\ (c[2] >= k \/ ~FullRow(b, c[2]))
        BY <1>3, <3>1
      <3>3. e[2] = c[2] + n(c)
        BY <3>2
      <3>4. c[2] > k
        BY <1>1, <1>2, <2>2, <3>3 DEF Rows
      <3>5. e = new(c)
        BY <1>1, <1>2, <3>2, <3>4 DEF Rows
      <3> QED
        BY <1>1, <1>4, <3>4, <3>5 DEF Rows
    <2>3. CASE ~(e[2] > k \/ e[2] = 0)
      <3>1. <<e[1], e[2] - 1>> \in CollapsedTo(b, k)
        BY <1>6, <2>3 DEF Lowered
      <3>2. PICK c \in b : /\ <<e[1], e[2] - 1>> = old(c)
                           /\ c[2] >= k \/ ~FullRow(b, c[2])
        BY <1>3, <3>1
      <3>3. e[1] = c[1] /\ e[2] - 1 = c[2] + n(c)
        BY <3>2
      <3>4. c[2] < k /\ e[2] = c[2] + n(c) + 1
        BY <1>1, <1>2, <2>1, <2>3, <3>3 DEF Rows
      <3>5. e = new(c)
        BY <1>1, <1>2, <2>1, <3>3, <3>4 DEF Rows
      <3>6. ~FullRow(b, c[2])
        BY <1>1, <3>2, <3>4 DEF Rows
      <3> QED
        BY <1>4, <3>5, <3>6
    <2> QED
      BY <2>2, <2>3
  <1> QED
    BY <1>5, <1>6

\* Neither the landing nor a round of the loop breaks what is known of it.
LEMMA ClearingStep == TypeOK /\ Placed /\ Clearing /\ [Next]_vars => Clearing'
  <1> SUFFICES ASSUME TypeOK, Placed, Clearing, [Next]_vars
               PROVE  Clearing'
    OBVIOUS
  <1> USE TetrisAssumption
  <1>1. CASE Land
    <2>1. pc' = "clear" /\ y' = 0 /\ progress' = 0 /\ landed' = board'
      BY <1>1 DEF Land
    <2>2. landed' \in SUBSET Cells
      BY PlacedStep DEF TypeOK
    <2>3. PICK b \in SUBSET Cells : b = landed'
      BY <2>2
    <2>4. CollapsedTo(b, 0) = b
      BY CollapsedEnds
    <2>5. Cardinality(FullBetween(b, -1, 0)) = 0
      BY FullBetweenCount
    <2>6. Cardinality(FullBetween(landed', -1, 0)) = 0 /\ board' = CollapsedTo(landed', 0)
      BY <2>1, <2>3, <2>4, <2>5
    <2> QED
      BY <2>1, <2>6 DEF Clearing
  <1>2. CASE ClearRow
    <2>1. /\ pc = "clear" /\ y \in Rows /\ y' = y + 1 /\ landed' = landed
          /\ landed \in SUBSET Cells
      BY <1>2 DEF ClearRow, TypeOK
    <2>2. /\ \A c \in Cells : c[2] >= y => (c \in board <=> c \in landed)
          /\ progress = Cardinality(FullBetween(landed, -1, y))
          /\ RowOf(landed, 0) = {} => board = CollapsedTo(landed, y)
      BY <2>1 DEF Clearing
    <2>3. \A c \in Cells : c[2] \in Rows
      BY DEF Cells
    <2>4. FullRow(board, y) <=> FullRow(landed, y)
      <3>1. \A x \in Columns : <<x, y>> \in Cells /\ <<x, y>>[2] = y
        BY <2>1 DEF Cells
      <3>2. \A x \in Columns : <<x, y>> \in board <=> <<x, y>> \in landed
        BY <2>1, <2>2, <3>1 DEF Rows
      <3> QED
        BY <3>2 DEF FullRow
    <2>5. Cardinality(FullBetween(landed, -1, y + 1))
            = IF FullRow(landed, y) THEN progress + 1 ELSE progress
      <3>1. y \in 0 .. BOARD_HEIGHT /\ -1 < y
        BY <2>1 DEF Rows
      <3> QED
        BY <2>1, <2>2, <3>1, FullBetweenCount
    <2>6. progress' = Cardinality(FullBetween(landed, -1, y + 1))
      BY <1>2, <2>4, <2>5 DEF ClearRow
    <2>7. \A c \in Cells : c[2] >= y + 1 => (c \in board' <=> c \in landed)
      <3> TAKE c \in Cells
      <3> HAVE c[2] >= y + 1
      <3>1. c[2] > y /\ c[2] >= y
        BY <2>1, <2>3 DEF Rows
      <3>2. c \in board' <=> c \in board
        BY <1>2, <3>1 DEF ClearRow, Lowered
      <3> QED
        BY <2>2, <3>1, <3>2
    <2>8. RowOf(landed, 0) = {} => board' = CollapsedTo(landed, y + 1)
      <3> HAVE RowOf(landed, 0) = {}
      <3>1. CASE FullRow(landed, y)
        BY <1>2, <2>1, <2>2, <2>4, <3>1, CollapsedOver DEF ClearRow
      <3>2. CASE ~FullRow(landed, y)
        BY <1>2, <2>1, <2>2, <2>4, <3>2, CollapsedPast DEF ClearRow
      <3> QED
        BY <3>1, <3>2
    <2> QED
      BY <2>1, <2>6, <2>7, <2>8 DEF Clearing
  <1>3. CASE Fall \/ NewFigure \/ Rotate \/ Move \/ NextTurn
    <2>1. pc' # "clear"
      BY <1>3 DEF Fall, NewFigure, Rotate, Move, NextTurn
    <2> QED
      BY <2>1 DEF Clearing
  <1>4. CASE UNCHANGED vars
    BY <1>4 DEF vars, Clearing
  <1> QED
    BY <1>1, <1>2, <1>3, <1>4 DEF Next

\* The loop, which goes through the rows once and moves them as it goes, clears
\* as many rows as the landed figure has filled, whatever their distances, and
\* leaves every other row lower by the full rows there were below it.
THEOREM LoopCollapses == Spec => []RowsCleared
  <1>1. Init => Clearing
    BY DEF Init, Clearing
  <1>2. TypeOK /\ Clearing => RowsCleared
    <2> SUFFICES ASSUME TypeOK, Clearing, pc = "clear", y = BOARD_HEIGHT
                 PROVE  /\ progress = Cardinality(FullRows(landed))
                        /\ RowOf(landed, 0) = {} => board = Collapsed(landed)
      BY DEF RowsCleared
    <2>1. landed \in SUBSET Cells
      BY DEF TypeOK
    <2> QED
      BY <2>1, CollapsedEnds DEF Clearing
  <1> QED
    BY <1>1, <1>2, AlwaysPlaced, ClearingStep, PTL DEF Spec

=============================================================================
