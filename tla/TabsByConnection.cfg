SPECIFICATION Spec
CONSTANTS
  Conns = {c1, c2}
  Tabs = {t1, t2, t3}
  Shortcuts = {}
  Nobody = Nobody
  NoId = NoId
  Forever = Forever
  MaxTabs = 2
  MaxShortcuts = 1
  MaxTTL = 1
  ByConnection = TRUE
  ShortcutsEnabled = FALSE
SYMMETRY Symmetry
INVARIANTS BooksMatchScreen ExtraZoneSound OwnersSound
PROPERTY ImplementsTerminal
