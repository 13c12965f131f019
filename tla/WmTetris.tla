------------------------------ MODULE WmTetris ------------------------------
(***************************************************************************)
(* The game of wmtetris (src/wmtetris/wmtetris/wmtetris.c).  Row 0 is the  *)
(* top of the board.                                                       *)
(*                                                                         *)
(* The board is the set of its filled cells, a figure the set of its four  *)
(* blocks in a square of 4 by 4; the colours are left out.  A turn of the  *)
(* loop lets the figure fall by one row or land; then any number of clicks *)
(* are handled until its time is over, which is shorter in fast mode.      *)
(***************************************************************************)
EXTENDS Integers, FiniteSets

CONSTANTS
    BOARD_WIDTH, BOARD_HEIGHT,
    Types,     \* the figures in play, of the seven
    MaxScore   \* bound of the model: the game is given up at this score

ASSUME TetrisAssumption ==
    /\ BOARD_WIDTH \in Nat /\ BOARD_WIDTH >= 5
    /\ BOARD_HEIGHT \in Nat /\ BOARD_HEIGHT >= 4
    /\ Types \subseteq 0 .. 6 /\ Types # {}
    /\ MaxScore \in Nat

VARIABLES
    pc,           \* "turn", "clear" (the rows), "clicks", "over"
    board,
    figure, fig_x, fig_y,
    next_figure,  \* its type
    y,            \* the row the loop that clears rows has come to
    progress,     \* the rows it has cleared
    score,
    landed        \* history: the board after the last landing

fig  == <<figure, fig_x, fig_y, next_figure>>
vars == <<pc, board, fig, y, progress, score, landed>>

Columns == 0 .. BOARD_WIDTH - 1
Rows    == 0 .. BOARD_HEIGHT - 1
Cells   == Columns \X Rows
Square  == (0 .. 3) \X (0 .. 3)

initial_figures(t) ==
    CASE t = 0 -> {<<0, 1>>, <<1, 1>>, <<2, 1>>, <<3, 1>>}
      [] t = 1 -> {<<0, 1>>, <<1, 1>>, <<2, 1>>, <<2, 2>>}
      [] t = 2 -> {<<0, 2>>, <<1, 2>>, <<2, 2>>, <<2, 1>>}
      [] t = 3 -> {<<0, 2>>, <<1, 1>>, <<1, 2>>, <<2, 2>>}
      [] t = 4 -> {<<0, 2>>, <<1, 2>>, <<1, 1>>, <<2, 1>>}
      [] t = 5 -> {<<0, 1>>, <<1, 1>>, <<1, 2>>, <<2, 2>>}
      [] OTHER -> {<<1, 1>>, <<2, 1>>, <<1, 2>>, <<2, 2>>}

StartX == BOARD_WIDTH \div 2 - 1

\* The cells a figure f covers at a place.
Blocks(f, fx, fy) == {<<fx + c[1], fy + c[2]>> : c \in f}

\* check_figure_position.
Fits(f, fx, fy) == Blocks(f, fx, fy) \subseteq Cells \ board

Init ==
    /\ pc = "turn"
    /\ board = {} /\ landed = {}
    /\ \E t \in Types : figure = initial_figures(t)
    /\ next_figure \in Types
    /\ fig_x = StartX /\ fig_y = 0
    /\ y = 0 /\ progress = 0 /\ score = 0

----------------------------------------------------------------------------
Fall ==
    /\ pc = "turn" /\ Fits(figure, fig_x, fig_y + 1)
    /\ fig_y' = fig_y + 1
    /\ pc' = "clicks"
    /\ UNCHANGED <<board, figure, fig_x, next_figure, y, progress, score, landed>>

Land ==
    /\ pc = "turn" /\ ~Fits(figure, fig_x, fig_y + 1)
    /\ score < MaxScore
    /\ board' = board \cup Blocks(figure, fig_x, fig_y)
    /\ landed' = board'
    /\ pc' = "clear" /\ y' = 0 /\ progress' = 0
    /\ UNCHANGED <<fig, score>>

FullRow(b, r) == \A x \in Columns : <<x, r>> \in b

\* Row r is overwritten by the row above it, and so on up to row 1; the top row
\* stays.  Mutation: up to row 2 only.
LoweredShort(b, r) ==
    {c \in Cells : IF c[2] > r \/ c[2] <= 1 THEN c \in b ELSE <<c[1], c[2] - 1>> \in b}
Lowered(b, r) ==
    {c \in Cells : IF c[2] > r \/ c[2] = 0 THEN c \in b ELSE <<c[1], c[2] - 1>> \in b}

ClearRow ==
    /\ pc = "clear" /\ y \in Rows
    /\ IF FullRow(board, y)
       THEN board' = Lowered(board, y) /\ progress' = progress + 1
       ELSE UNCHANGED <<board, progress>>
    /\ y' = y + 1
    /\ UNCHANGED <<pc, fig, score, landed>>

\* The game is over when the new figure has no room.
NewFigure ==
    /\ pc = "clear" /\ y = BOARD_HEIGHT
    /\ score' = score + progress * progress
    /\ figure' = initial_figures(next_figure) /\ next_figure' \in Types
    /\ fig_x' = StartX /\ fig_y' = 0
    /\ pc' = IF Fits(figure', StartX, 0) THEN "clicks" ELSE "over"
    /\ UNCHANGED <<board, y, progress, landed>>

\* The figure in its square, turned to the left or to the right.
Left(f)  == {<<c[2], 3 - c[1]>> : c \in f}
Right(f) == {<<3 - c[2], c[1]>> : c \in f}

\* Mutation: the turned figure is not looked at.
RotateAnyway ==
    /\ pc = "clicks"
    /\ figure' \in {Left(figure), Right(figure)}
    /\ UNCHANGED <<pc, board, fig_x, fig_y, next_figure, y, progress, score, landed>>

Rotate ==
    /\ pc = "clicks"
    /\ figure' \in {Left(figure), Right(figure)}
    /\ Fits(figure', fig_x, fig_y)
    /\ UNCHANGED <<pc, board, fig_x, fig_y, next_figure, y, progress, score, landed>>

Move ==
    /\ pc = "clicks"
    /\ fig_x' \in {fig_x - 1, fig_x + 1}
    /\ Fits(figure, fig_x', fig_y)
    /\ UNCHANGED <<pc, board, figure, fig_y, next_figure, y, progress, score, landed>>

\* The time of the turn is over.
NextTurn ==
    /\ pc = "clicks" /\ pc' = "turn"
    /\ UNCHANGED <<board, fig, y, progress, score, landed>>

Next == Fall \/ Land \/ ClearRow \/ NewFigure \/ Rotate \/ Move \/ NextTurn

Spec == Init /\ [][Next]_vars

----------------------------------------------------------------------------
(* Properties. *)

TypeOK ==
    /\ pc \in {"turn", "clear", "clicks", "over"}
    /\ board \subseteq Cells /\ landed \subseteq Cells
    /\ figure \subseteq Square /\ next_figure \in Types
    /\ fig_x \in Int /\ fig_y \in Nat
    /\ y \in 0 .. BOARD_HEIGHT /\ progress \in 0 .. BOARD_HEIGHT /\ score \in Nat

\* However it is moved and turned between two falls, the figure is on the board
\* and on free cells until it lands: board[][] is never written outside.
FigureFits == pc \in {"turn", "clicks"} => Fits(figure, fig_x, fig_y)

FullRows(b) == {r \in Rows : FullRow(b, r)}
RowOf(b, r) == {c \in b : c[2] = r}

\* What clearing rows means: the full rows are gone, and every other row has
\* come down by as many rows as there were full ones below it.
Collapsed(b) ==
    {<<c[1], c[2] + Cardinality({r \in FullRows(b) : r > c[2]})>> :
        c \in {d \in b : ~FullRow(b, d[2])}}

\* The loop, which goes through the rows once, from the top to the bottom,
\* moving them as it goes, finds every full row and leaves what is meant,
\* unless the figure has landed in the top row.
RowsCleared ==
    pc = "clear" /\ y = BOARD_HEIGHT =>
        /\ progress = Cardinality(FullRows(landed))
        /\ RowOf(landed, 0) = {} => board = Collapsed(landed)

\* No row stays full, unless the top one is: that one would be copied downwards.
NoFullRows == pc # "clear" => FullRow(board, 0) \/ FullRows(board) = {}
=============================================================================
