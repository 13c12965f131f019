SPECIFICATION Spec
CONSTANTS
    BOARD_WIDTH = 5
    BOARD_HEIGHT = 5
    Types = {0, 3, 6}
    MaxScore = 4
INVARIANTS
    FigureFits
    RowsCleared
\* The game ends.
CHECK_DEADLOCK FALSE
