SPECIFICATION FairSpec
CONSTANTS
  MaxRequests = 3
  MaxBatch = 2
CHECK_DEADLOCK FALSE
INVARIANTS
  UnservedOnlyIfWarned
  UnpostedIsALaterLook
  HeadlessOnlyIfEarly
  OrphanedOnlyIfClosed
  AppOutlivesItsUses
  ExitCodeIsTheOneAsked
PROPERTIES
  ServerTakesGuiDown
  GuiTakesServerDown
