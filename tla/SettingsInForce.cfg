SPECIFICATION Spec
CONSTANTS
  Initial <- Defaults
  Volumes <- SomeVolumes
  Brightnesses <- SomeBrightnesses
  Modes <- SomeModes
  PageIds = {p1}
  Full = 1000
  HasAudio = TRUE
  PanelMax = 7
  AudioAtStart = 0
  PanelAtStart = 0
INVARIANTS PagesShowLive InForceUnlessKnown
