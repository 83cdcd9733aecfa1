CONSTANTS
  Main = Main
  Workers = {w}
  Blobs <- MCBlobs
  Messages <- MCMessages
  TextSize = 4
  Size = 11
  Recent = 16
SPECIFICATION Spec
INVARIANTS TypeOK CrashOnlyIfRaced CountIsLength KeepsTheNewest WindowShowsText
CHECK_DEADLOCK FALSE
