SPECIFICATION FairSpec
CONSTANTS
  Conns = {c1}
  Tabs = {t1, t2}
  Shortcuts = {s1, s2}
  Nobody = Nobody
  NoId = NoId
  Forever = Forever
  MaxTabs = 1
  MaxShortcuts = 1
  MaxTTL = 1
  ByConnection = FALSE
  ShortcutsEnabled = TRUE
PROPERTIES ImplementsTerminalLive EveryCallReturns ForgottenPagesGo
