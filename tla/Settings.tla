------------------------------ MODULE Settings ------------------------------
(***************************************************************************)
(* SetSettings and GetSettings.  The settings exist several times: in the  *)
(* server thread (settingsState, what GetSettings answers), in the Browser *)
(* (currentSettings), as window.madtSettings in the document of each page, *)
(* as the volume of the mixer and the brightness of the panel, and in the  *)
(* TXT record of the service.  A SetSettings is checked and merged by the  *)
(* server thread, carried out by the GUI thread, where any effect may      *)
(* fail, and entered in the books when the server thread has its answer.   *)
(*                                                                         *)
(* Three fields stand for the ten: volume and brightness, which have       *)
(* effects, and activeMode, which is advertised.  The GUI runs each slot   *)
(* to its end, its scripts included; pages load at their own pace.         *)
(***************************************************************************)
EXTENDS Integers, FiniteSets

CONSTANTS
  Initial,       \* runtimeConfig.settings
  Volumes,       \* the strings clients send as volume
  Brightnesses,  \* the integers they send as brightness, as get<int> reads them
  Modes,         \* the strings they send as activeMode
  PageIds,       \* pages the GUI may have
  Full,          \* UINT32_MAX
  HasAudio,      \* audioVolume names a script or a control
  PanelMax,      \* the scale of the backlight: 100 with a command, the maxValue
                 \* of the panel with a path, 0 with neither
  AudioAtStart,  \* what the mixer and the backlight were left at
  PanelAtStart

Fields == {"volume", "brightness", "activeMode"}
ActiveModes == {"PRIMARY", "SUBORDINATED"}

\* A volume is a decimal or hexadecimal number, or no number.
VolumeText == [form : {"dec", "hex", "junk"}, raw : Nat]
SettingsState == [volume : VolumeText, brightness : 0..255, activeMode : Modes \cup ActiveModes]

ASSUME SettingsAssumption ==
  /\ Volumes \subseteq VolumeText /\ Brightnesses \subseteq Int
  /\ Initial \in SettingsState
  /\ Full \in Nat \ {0} /\ PanelMax \in Nat /\ HasAudio \in BOOLEAN
  /\ AudioAtStart \in 0..100 /\ PanelAtStart \in 0..PanelMax

\* A request names some fields and gives them values, right or wrong.
Patches == [names : SUBSET Fields,
            to : [volume : Volumes, brightness : Brightnesses, activeMode : Modes]]

VARIABLES
  settingsState,  \* Server::settingsState
  txt,            \* the activemode of the TXT record
  call,           \* the ApplySettings the server thread waits for
  answer,         \* retCode of the last SetSettings
  app,            \* appInstance is set
  browser,        \* browser is set
  live,           \* Browser::currentSettings
  pages,          \* per page: is it there, has it loaded, what its document knows
  audio,          \* percent the mixer is at
  panel,          \* what the backlight is at
  early,          \* history: the last settings accepted came before the Browser
  refused         \* history: an effect has failed since the last acceptance

server == <<settingsState, txt, call, answer>>
outputs == <<audio, panel>>
vars == <<server, app, browser, live, pages, outputs, early, refused>>

NoPage == [there |-> FALSE, loaded |-> FALSE, shows |-> {}]
NoCall == [at |-> "none", settings |-> Initial, ok |-> FALSE]

Init ==
  /\ settingsState = Initial /\ txt = Initial.activeMode
  /\ call = NoCall /\ answer = "none"
  /\ app = FALSE /\ browser = FALSE /\ live = Initial
  /\ pages = [p \in PageIds |-> NoPage]
  /\ audio = AudioAtStart /\ panel = PanelAtStart
  /\ early = FALSE /\ refused = FALSE

-----------------------------------------------------------------------------
(* Conversions *)

\* settingsVolumeToPercent: a decimal of at most 100 is a percentage, any other
\* number a share of UINT32_MAX, rounded; no number is full volume.
Percent(volume) ==
  LET clamped == IF volume.raw <= Full THEN volume.raw ELSE Full
  IN IF volume.form = "junk" THEN 100
     ELSE IF volume.form = "dec" /\ volume.raw <= 100 THEN volume.raw
     ELSE (200 * clamped + Full) \div (2 * Full)

\* applyBacklightBrightness: what 0..255 becomes on the scale of the panel.
Panel(brightness) == (brightness * PanelMax + 127) \div 255

\* isValidSettingsPatch.
Valid(patch) ==
  /\ "brightness" \in patch.names => patch.to.brightness \in 0..255
  /\ "activeMode" \in patch.names => patch.to.activeMode \in ActiveModes

\* mergeSettings.
Merge(patch) ==
  [volume     |-> IF "volume" \in patch.names
                    THEN patch.to.volume ELSE settingsState.volume,
   brightness |-> IF "brightness" \in patch.names
                    THEN patch.to.brightness ELSE settingsState.brightness,
   activeMode |-> IF "activeMode" \in patch.names
                    THEN patch.to.activeMode ELSE settingsState.activeMode]

-----------------------------------------------------------------------------
(* The server thread *)

\* handleSetSettings, refused by its check or for want of an application.
Refuse(patch) ==
  /\ call.at = "none"
  /\ ~Valid(patch) \/ ~app
  /\ answer' = IF Valid(patch) THEN "EXEC_ERROR" ELSE "BAD_REQUEST"
  /\ UNCHANGED <<settingsState, txt, call, app, browser, live, pages, outputs, early, refused>>

\* handleSetSettings, to the wait.
SetSettings(patch) ==
  /\ call.at = "none" /\ Valid(patch) /\ app
  /\ call' = [at |-> "posted", settings |-> Merge(patch), ok |-> FALSE]
  /\ UNCHANGED <<settingsState, txt, answer, app, browser, live, pages, outputs, early, refused>>

\* handleSetSettings, from the wait to the answer.
Return ==
  /\ call.at = "answered"
  /\ answer' = IF call.ok THEN "OK" ELSE "EXEC_ERROR"
  /\ settingsState' = IF call.ok THEN call.settings ELSE settingsState
  /\ txt' = IF call.ok THEN call.settings.activeMode ELSE txt
  /\ call' = NoCall
  /\ UNCHANGED <<app, browser, live, pages, outputs, early, refused>>

-----------------------------------------------------------------------------
(* The GUI thread *)

\* applyAudioVolume and applyBacklightBrightness: one that fails may or may not
\* have had its effect, and one that is not configured does nothing.
Sound(settings, ok) ==
  IF ~HasAudio THEN ok = TRUE /\ audio' = audio
  ELSE \/ audio' = Percent(settings.volume)
       \/ ~ok /\ audio' = audio

Light(settings, ok) ==
  IF PanelMax = 0 THEN ok = TRUE /\ panel' = panel
  ELSE \/ panel' = Panel(settings.brightness)
       \/ ~ok /\ panel' = panel

\* Browser::ApplySettings runs its script in every page's document.
Tell(settings) ==
  pages' = [p \in PageIds |->
              [there |-> pages[p].there, loaded |-> pages[p].loaded,
               shows |-> IF pages[p].there THEN {settings} ELSE {}]]

AppStarts ==
  /\ ~app /\ app' = TRUE
  /\ UNCHANGED <<server, browser, live, pages, outputs, early, refused>>

\* Faulty: the light is left alone when the sound has failed, and nobody is told.
OnApplySettingsShort ==
  /\ call.at = "posted"
  /\ IF browser THEN live' = call.settings /\ Tell(call.settings)
                ELSE UNCHANGED <<live, pages>>
  /\ \E ok \in BOOLEAN :
       /\ Sound(call.settings, ok)
       /\ IF ok THEN Light(call.settings, TRUE) ELSE panel' = panel
       /\ call' = [at |-> "answered", settings |-> call.settings, ok |-> TRUE]
  /\ refused' = FALSE
  /\ early' = ~browser
  /\ UNCHANGED <<settingsState, txt, answer, app, browser>>

\* The lambda of Gui::ApplySettings: every effect is tried, and all must succeed.
OnApplySettings ==
  /\ call.at = "posted"
  /\ IF browser THEN live' = call.settings /\ Tell(call.settings)
                ELSE UNCHANGED <<live, pages>>
  /\ \E sound, light \in BOOLEAN :
       /\ Sound(call.settings, sound) /\ Light(call.settings, light)
       /\ call' = [at |-> "answered", settings |-> call.settings, ok |-> sound /\ light]
       /\ refused' = ~(sound /\ light)
       /\ early' = IF sound /\ light THEN ~browser ELSE early
  /\ UNCHANGED <<settingsState, txt, answer, app, browser>>

\* The startup timer: the Browser begins with the settings of the configuration,
\* and so do mixer and panel, whose failures are only logged.
CreateBrowser ==
  /\ app /\ ~browser /\ browser' = TRUE
  /\ live' = Initial
  /\ \E sound, light \in BOOLEAN :
       /\ Sound(Initial, sound) /\ Light(Initial, light)
       /\ refused' = (refused \/ ~(sound /\ light))
  /\ UNCHANGED <<server, app, pages, early>>

-----------------------------------------------------------------------------
(* Pages *)

SetPage(p, there, loaded, shows) ==
  /\ pages' = [pages EXCEPT ![p] = [there |-> there, loaded |-> loaded, shows |-> shows]]
  /\ UNCHANGED <<server, app, browser, live, outputs, early, refused>>

\* onNewWebTab: a view whose document is empty and which loads its URL.
NewPage(p) ==
  /\ browser /\ ~pages[p].there
  /\ SetPage(p, TRUE, FALSE, {})

\* onNavigateTo, or a link: another document is on its way.
Navigate(p) ==
  /\ pages[p].there
  /\ SetPage(p, TRUE, FALSE, pages[p].shows)

\* It replaces the one that was told.
Commit(p) ==
  /\ pages[p].there /\ ~pages[p].loaded
  /\ SetPage(p, TRUE, FALSE, {})

\* Faulty: a page is told once, when its first document has loaded.
LoadFinishedSilent(p, ok) ==
  /\ pages[p].there /\ ~pages[p].loaded
  /\ SetPage(p, TRUE, ok, pages[p].shows)

\* loadFinished, with the lambda of configureView.
LoadFinished(p, ok) ==
  /\ pages[p].there /\ ~pages[p].loaded
  /\ SetPage(p, TRUE, ok, IF ok THEN {live} ELSE pages[p].shows)

\* onKillTab.
KillPage(p) ==
  /\ pages[p].there
  /\ SetPage(p, FALSE, FALSE, {})

Next ==
  \/ \E patch \in Patches : Refuse(patch) \/ SetSettings(patch)
  \/ Return
  \/ AppStarts \/ OnApplySettings \/ CreateBrowser
  \/ \E p \in PageIds :
       \/ NewPage(p) \/ Navigate(p) \/ Commit(p) \/ KillPage(p)
       \/ \E ok \in BOOLEAN : LoadFinished(p, ok)

Spec == Init /\ [][Next]_vars

-----------------------------------------------------------------------------
(* Properties *)

\* Every variable has the type of the C++ object it stands for; the mixer is
\* given a percentage and the panel a value of its scale, whatever was sent.
TypeOK ==
  /\ settingsState \in SettingsState /\ live \in SettingsState
  /\ txt \in Modes \cup ActiveModes
  /\ call \in [at : {"none", "posted", "answered"}, settings : SettingsState, ok : BOOLEAN]
  /\ answer \in {"none", "OK", "BAD_REQUEST", "EXEC_ERROR"}
  /\ app \in BOOLEAN /\ browser \in BOOLEAN
  /\ pages \in [PageIds -> [there : BOOLEAN, loaded : BOOLEAN, shows : SUBSET SettingsState]]
  /\ audio \in 0..100 /\ panel \in 0..PanelMax
  /\ early \in BOOLEAN /\ refused \in BOOLEAN

\* A page that has loaded knows the settings of the Browser, whether they came
\* before it, while it was loading, between two documents or after
\* (Browser.cpp, configureView and ApplySettings).
PagesShowLive ==
  \A p \in PageIds : pages[p].loaded => pages[p].there /\ pages[p].shows = {live}

\* What a GetSettings answers is what is in force.
InForce ==
  /\ live = settingsState
  /\ HasAudio => audio = Percent(settingsState.volume)
  /\ PanelMax > 0 => panel = Panel(settingsState.brightness)

\* Between two SetSettings, what the books say is what Browser, mixer and panel
\* do and what is advertised, but for two circumstances: an effect has failed
\* since (the others stay changed), or the last settings were accepted before
\* there was a Browser, which then began with those of the configuration.
InForceUnlessKnown ==
  call.at = "none" =>
    /\ txt = settingsState.activeMode
    /\ browser /\ ~early /\ ~refused => InForce

\* What README.md says of SetSettings: it "updates the live MADT state and applies
\* supported runtime effects".  After an OK, with a Browser, its settings are live.
AcceptedIsLive == call.at = "none" /\ answer = "OK" /\ browser => live = settingsState
=============================================================================
