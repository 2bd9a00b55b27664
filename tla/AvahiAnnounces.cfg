SPECIFICATION FairSpec
CONSTANTS
  Txts = {primary, subordinated}
  Torn = Torn
  MaxCollisions = 2
  MaxHosts = 2
INVARIANTS AnnouncesTheLatest UnannouncedOnlyIfKnown GivesUpTakenNames
PROPERTY ComesBack
CHECK_DEADLOCK FALSE
