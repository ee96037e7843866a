SPECIFICATION GSpec
CONSTANTS
  CONSOLE_HEIGHT = 2
  CONSOLE_WIDTH = 2
  CharValues = 4
  Rows <- AnyRow
  Cols <- AnyCol
  Colors <- AnyColor
  BUF_LEN = 2
  MaxFrames = 2
INVARIANTS CursorOnScreen LockSurvivesGuest OneInterrupt ReaderNotMissed
PROPERTY PrintAtInvisible
CHECK_DEADLOCK TRUE
