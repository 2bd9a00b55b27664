SPECIFICATION Spec
CONSTANTS
  Bevs = {b1}
  NoBev = none
  Objects <- TrickyObjects
  Junk <- SomeJunk
  MaxPieces = 3
  MaxAccepts = 2
INVARIANTS ObjectsAreUnderstood NothingLostOrInvented KeepsOneBeginning
CHECK_DEADLOCK FALSE
