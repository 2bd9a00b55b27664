SPECIFICATION Spec
CONSTANTS
  Uuids = {1, 2, 3}
  Urls = {1, 2}
  MaxTabs = 6
  Prefs <- Thirds
  Garbage <- Words
INVARIANT AcceptedTabHasSlot
CHECK_DEADLOCK FALSE
