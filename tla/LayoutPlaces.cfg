SPECIFICATION Spec
CONSTANTS
  Uuids = {1, 2, 3}
  Urls = {1, 2}
  MaxTabs = 7
  Prefs <- KindsOfPlace
  Garbage <- Words
INVARIANTS PositionsSound ZonesInUrlOrder BarShowsPositions RefusedForWantOfSlots
PROPERTY OthersStay
CHECK_DEADLOCK FALSE
