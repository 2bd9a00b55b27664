SPECIFICATION Spec
CONSTANTS
  Tabs = {t1, t2}
  Shortcuts = {s1, s2}
  IconUrls = {u1}
  NoUrl = NoUrl
  NoIcon = NoIcon
  NotLoaded = NotLoaded
  NoTab = NoTab
  Dark = Dark
  MaxShortcutCount = 2
  ShortcutPrefs <- SomePrefs
  AutoClose = TRUE
  LauncherVisible = TRUE
SYMMETRY Alike
INVARIANTS FacesTrue BlinksInFrontOnlyUnasked MeasuredUnlessSwept PlacesSound PopupTrue IconsSettled
PROPERTY FrontStays
CHECK_DEADLOCK FALSE
