--------------------------- MODULE Settings_proofs ---------------------------
(***************************************************************************)
(* Settings for any configuration, any values clients send, any scale of   *)
(* the mixer and of the panel, and any number of pages.                    *)
(*                                                                         *)
(* What is in force after a SetSettings depends on what was in force while *)
(* its answer was under way, and on what the Browser will begin with, so   *)
(* InForceUnlessKnown is strengthened to SettingsInv: the call carries the *)
(* settings in force once it has succeeded, and before there is a Browser, *)
(* and before any acceptance, the books hold those of the configuration.   *)
(***************************************************************************)
EXTENDS Settings, TLAPS

\* The settings the books hold, or will hold when the server has its answer.
Due == IF call.at = "answered" /\ call.ok THEN call.settings ELSE settingsState

DueInForce ==
  /\ live = Due
  /\ HasAudio => audio = Percent(Due.volume)
  /\ PanelMax > 0 => panel = Panel(Due.brightness)

BooksSound ==
  /\ txt = settingsState.activeMode
  /\ browser /\ ~early /\ ~refused => DueInForce
  /\ ~browser /\ ~early => Due = Initial
  /\ browser => app

PagesSound ==
  /\ PagesShowLive
  /\ \A p \in PageIds : pages[p].there => browser

SettingsInv == TypeOK /\ BooksSound /\ PagesSound

-----------------------------------------------------------------------------
(* Conversions *)

\* Whatever string is sent as volume, the mixer gets a percentage
\* (runtime-config.cpp, settingsVolumeToPercent).
THEOREM PercentInRange == \A volume \in VolumeText : Percent(volume) \in 0..100
<1> SUFFICES ASSUME NEW volume \in VolumeText
             PROVE  Percent(volume) \in 0..100
  OBVIOUS
<1> DEFINE clamped == IF volume.raw <= Full THEN volume.raw ELSE Full
           n == 200 * clamped + Full
           q == n \div (2 * Full)
<1>1. volume.raw \in Nat /\ Full \in Nat /\ Full > 0
  BY SettingsAssumption DEF VolumeText
<1>2. clamped \in Nat /\ clamped <= Full
  BY <1>1
<1>3. n \in Nat /\ n < 101 * (2 * Full)
  BY <1>1, <1>2
<1> HIDE DEF clamped
<1>4. q \in 0..100
  <2> DEFINE d == 2 * Full
  <2>1. d \in Nat /\ d > 0
    BY <1>1
  <2>2. n \in Nat /\ n < 101 * d
    BY <1>3
  <2> HIDE DEF d, n
  <2>3. n \div d \in 0..100
    BY <2>1, <2>2
  <2>4. QED
    BY <2>3 DEF d
<1>5. Percent(volume) = IF volume.form = "junk" THEN 100
                        ELSE IF volume.form = "dec" /\ volume.raw <= 100
                          THEN volume.raw ELSE q
  BY DEF Percent, clamped
<1>6. QED
  BY <1>1, <1>4, <1>5

\* A brightness that passed the check is on the panel's scale
\* (gui.cpp, applyBacklightBrightness).
THEOREM PanelInRange == \A brightness \in 0..255 : Panel(brightness) \in 0..PanelMax
<1> SUFFICES ASSUME NEW brightness \in 0..255
             PROVE  Panel(brightness) \in 0..PanelMax
  OBVIOUS
<1> DEFINE n == brightness * PanelMax
<1>1. PanelMax \in Nat
  BY SettingsAssumption
<1>2. n \in Nat /\ n <= 255 * PanelMax
  <2>1. brightness * PanelMax <= 255 * PanelMax /\ brightness * PanelMax >= 0
    BY <1>1
  <2>2. QED
    BY <1>1, <2>1
<1> HIDE DEF n
<1>3. (n + 127) \div 255 \in 0..PanelMax
  BY <1>1, <1>2
<1>4. QED
  BY <1>3 DEF n, Panel

LEMMA MergeTyped ==
  ASSUME settingsState \in SettingsState, NEW patch \in Patches, Valid(patch)
  PROVE  Merge(patch) \in SettingsState
BY SettingsAssumption DEF Merge, Valid, Patches, SettingsState, ActiveModes

\* What the effects leave behind, and what they do when they succeed.
LEMMA EffectsSound ==
  ASSUME TypeOK, NEW s \in SettingsState, NEW sound \in BOOLEAN, NEW light \in BOOLEAN,
         Sound(s, sound), Light(s, light)
  PROVE  /\ audio' \in 0..100 /\ panel' \in 0..PanelMax
         /\ sound => (HasAudio => audio' = Percent(s.volume))
         /\ light => (PanelMax > 0 => panel' = Panel(s.brightness))
<1>1. Percent(s.volume) \in 0..100 /\ Panel(s.brightness) \in 0..PanelMax
  BY PercentInRange, PanelInRange DEF SettingsState
<1>2. audio' \in 0..100 /\ (sound => (HasAudio => audio' = Percent(s.volume)))
  BY <1>1 DEF Sound, TypeOK
<1>3. panel' \in 0..PanelMax /\ (light => (PanelMax > 0 => panel' = Panel(s.brightness)))
  BY <1>1, SettingsAssumption DEF Light, TypeOK
<1>4. QED
  BY <1>2, <1>3

-----------------------------------------------------------------------------
(* The invariant *)

LEMMA InitSettings == Init => SettingsInv
<1> SUFFICES ASSUME Init
             PROVE  SettingsInv
  OBVIOUS
<1>1. /\ pages = [p \in PageIds |-> [there |-> FALSE, loaded |-> FALSE, shows |-> {}]]
      /\ call = [at |-> "none", settings |-> Initial, ok |-> FALSE]
  BY DEF Init, NoPage, NoCall
<1>2. Initial \in SettingsState /\ Initial.activeMode \in Modes \cup ActiveModes
  BY SettingsAssumption DEF SettingsState
<1>3. pages \in [PageIds -> [there : BOOLEAN, loaded : BOOLEAN, shows : SUBSET SettingsState]]
  BY <1>1
<1>4. call \in [at : {"none", "posted", "answered"}, settings : SettingsState, ok : BOOLEAN]
  BY <1>1, <1>2
<1>5. TypeOK
  BY <1>2, <1>3, <1>4, SettingsAssumption DEF Init, TypeOK
<1>6. BooksSound
  BY <1>1 DEF Init, BooksSound, Due
<1>7. PagesSound
  BY <1>1 DEF PagesSound, PagesShowLive
<1>8. QED
  BY <1>5, <1>6, <1>7 DEF SettingsInv

LEMMA ServerKeeps ==
  ASSUME SettingsInv,
         \/ \E patch \in Patches : Refuse(patch) \/ SetSettings(patch)
         \/ Return
  PROVE  SettingsInv'
<1>1. UNCHANGED <<app, browser, live, pages, audio, panel, early, refused>>
  BY DEF Refuse, SetSettings, Return, outputs
<1>2. PagesSound'
  BY <1>1 DEF SettingsInv, PagesSound, PagesShowLive
<1>3. CASE \E patch \in Patches : Refuse(patch)
  <2>1. UNCHANGED <<settingsState, txt, call>> /\ answer' \in {"EXEC_ERROR", "BAD_REQUEST"}
    BY <1>3 DEF Refuse
  <2>2. TypeOK'
    BY <1>1, <2>1 DEF SettingsInv, TypeOK
  <2>3. BooksSound'
    BY <1>1, <2>1 DEF SettingsInv, BooksSound, DueInForce, Due
  <2>4. QED
    BY <1>2, <2>2, <2>3 DEF SettingsInv
<1>4. CASE \E patch \in Patches : SetSettings(patch)
  <2>1. PICK patch \in Patches : SetSettings(patch)
    BY <1>4
  <2>2. Merge(patch) \in SettingsState
    BY <2>1, MergeTyped DEF SettingsInv, TypeOK, SetSettings
  <2>3. /\ UNCHANGED <<settingsState, txt, answer>>
        /\ call' = [at |-> "posted", settings |-> Merge(patch), ok |-> FALSE]
        /\ call.at = "none"
    BY <2>1 DEF SetSettings
  <2>4. TypeOK'
    BY <1>1, <2>2, <2>3 DEF SettingsInv, TypeOK
  <2>5. Due' = Due
    BY <2>3 DEF Due
  <2>6. BooksSound'
    BY <1>1, <2>3, <2>5 DEF SettingsInv, BooksSound, DueInForce
  <2>7. QED
    BY <1>2, <2>4, <2>6 DEF SettingsInv
<1>5. CASE Return
  <2>1. /\ call.at = "answered" /\ call' = NoCall
        /\ settingsState' = Due
        /\ txt' = IF call.ok THEN call.settings.activeMode ELSE txt
        /\ answer' \in {"OK", "EXEC_ERROR"}
    BY <1>5 DEF Return, Due
  <2>2. Due' = Due
    BY <2>1 DEF Due, NoCall
  <2>3. Due \in SettingsState
    BY DEF SettingsInv, TypeOK, Due
  <2>4. txt' = Due.activeMode
    BY <2>1 DEF SettingsInv, BooksSound, Due
  <2>5. TypeOK'
    BY <1>1, <2>1, <2>3, <2>4, SettingsAssumption
       DEF SettingsInv, TypeOK, NoCall, SettingsState
  <2>6. BooksSound'
    BY <1>1, <2>1, <2>2, <2>4 DEF SettingsInv, BooksSound, DueInForce
  <2>7. QED
    BY <1>2, <2>5, <2>6 DEF SettingsInv
<1>6. QED
  BY <1>3, <1>4, <1>5

LEMMA ApplyKeeps ==
  ASSUME SettingsInv, OnApplySettings
  PROVE  SettingsInv'
<1> DEFINE s == call.settings
<1>1. s \in SettingsState /\ call.at = "posted"
  BY DEF SettingsInv, TypeOK, OnApplySettings
<1>2. PICK sound \in BOOLEAN, light \in BOOLEAN :
        /\ Sound(s, sound) /\ Light(s, light)
        /\ call' = [at |-> "answered", settings |-> s, ok |-> sound /\ light]
        /\ refused' = ~(sound /\ light)
        /\ early' = IF sound /\ light THEN ~browser ELSE early
  BY DEF OnApplySettings
<1>3. /\ audio' \in 0..100 /\ panel' \in 0..PanelMax
      /\ sound => (HasAudio => audio' = Percent(s.volume))
      /\ light => (PanelMax > 0 => panel' = Panel(s.brightness))
  BY <1>1, <1>2, EffectsSound DEF SettingsInv
<1>4. /\ UNCHANGED <<settingsState, txt, answer, app, browser>>
      /\ browser => live' = s /\ Tell(s)
      /\ ~browser => UNCHANGED <<live, pages>>
  BY DEF OnApplySettings
<1>5. (sound /\ light) \in BOOLEAN
  OBVIOUS
<1>6. TypeOK'
  <2>1. pages' \in [PageIds -> [there : BOOLEAN, loaded : BOOLEAN, shows : SUBSET SettingsState]]
    BY <1>1, <1>4 DEF SettingsInv, TypeOK, Tell
  <2>2. call' \in [at : {"none", "posted", "answered"}, settings : SettingsState, ok : BOOLEAN]
    BY <1>1, <1>2, <1>5
  <2>3. live' \in SettingsState
    BY <1>1, <1>4 DEF SettingsInv, TypeOK
  <2>4. early' \in BOOLEAN /\ refused' \in BOOLEAN
    BY <1>2, <1>5 DEF SettingsInv, TypeOK
  <2>5. QED
    BY <1>3, <1>4, <2>1, <2>2, <2>3, <2>4 DEF SettingsInv, TypeOK
<1>7. PagesSound'
  <2>1. CASE browser
    BY <1>4, <2>1 DEF SettingsInv, PagesSound, PagesShowLive, Tell
  <2>2. CASE ~browser
    BY <1>4, <2>2 DEF SettingsInv, PagesSound, PagesShowLive
  <2>3. QED
    BY <2>1, <2>2
<1>8. BooksSound'
  <2>1. CASE sound /\ light
    <3>1. Due' = s /\ early' = ~browser
      BY <1>2, <2>1 DEF Due
    <3>2. QED
      BY <1>3, <1>4, <2>1, <3>1 DEF SettingsInv, BooksSound, DueInForce
  <2>2. CASE ~(sound /\ light)
    <3>1. Due' = settingsState /\ Due = settingsState /\ refused' = TRUE /\ early' = early
      BY <1>1, <1>2, <1>4, <2>2 DEF Due
    <3>2. QED
      BY <1>4, <3>1 DEF SettingsInv, BooksSound
  <2>3. QED
    BY <2>1, <2>2
<1>9. QED
  BY <1>6, <1>7, <1>8 DEF SettingsInv

LEMMA StartKeeps ==
  ASSUME SettingsInv, AppStarts \/ CreateBrowser
  PROVE  SettingsInv'
<1>1. CASE AppStarts
  BY <1>1 DEF AppStarts, SettingsInv, TypeOK, BooksSound, PagesSound, PagesShowLive,
              DueInForce, Due, server, outputs
<1>2. CASE CreateBrowser
  <2>1. PICK sound \in BOOLEAN, light \in BOOLEAN :
          /\ Sound(Initial, sound) /\ Light(Initial, light)
          /\ refused' = (refused \/ ~(sound /\ light))
    BY <1>2 DEF CreateBrowser
  <2>2. /\ audio' \in 0..100 /\ panel' \in 0..PanelMax
        /\ sound => (HasAudio => audio' = Percent(Initial.volume))
        /\ light => (PanelMax > 0 => panel' = Panel(Initial.brightness))
    BY <2>1, EffectsSound, SettingsAssumption DEF SettingsInv
  <2>3. /\ app /\ ~browser /\ browser' = TRUE /\ live' = Initial
        /\ UNCHANGED <<settingsState, txt, call, answer, app, pages, early>>
    BY <1>2 DEF CreateBrowser, server
  <2>4. Due' = Due
    BY <2>3 DEF Due
  <2>5. TypeOK'
    BY <2>1, <2>2, <2>3, SettingsAssumption DEF SettingsInv, TypeOK
  <2>6. PagesSound'
    BY <2>3 DEF SettingsInv, PagesSound, PagesShowLive
  <2>7. ~early' /\ ~refused' => Due = Initial /\ sound /\ light
    BY <2>1, <2>3 DEF SettingsInv, BooksSound
  <2>8. BooksSound'
    BY <2>2, <2>3, <2>4, <2>7 DEF SettingsInv, BooksSound, DueInForce
  <2>9. QED
    BY <2>5, <2>6, <2>8 DEF SettingsInv
<1>3. QED
  BY <1>1, <1>2

LEMMA PageKeeps ==
  ASSUME SettingsInv, NEW p \in PageIds,
         \/ NewPage(p) \/ Navigate(p) \/ Commit(p) \/ KillPage(p)
         \/ \E ok \in BOOLEAN : LoadFinished(p, ok)
  PROVE  SettingsInv'
<1>1. PICK there \in BOOLEAN, loaded \in BOOLEAN, shows \in SUBSET SettingsState :
        /\ SetPage(p, there, loaded, shows)
        /\ there => browser
        /\ loaded => there /\ shows = {live}
  <2>1. live \in SettingsState /\ pages[p].shows \in SUBSET SettingsState
    BY DEF SettingsInv, TypeOK
  <2>2. pages[p].there => browser
    BY DEF SettingsInv, PagesSound
  <2>3. {} \in SUBSET SettingsState /\ {live} \in SUBSET SettingsState
    BY <2>1
  <2>4. CASE NewPage(p)
    BY <2>3, <2>4 DEF NewPage
  <2>5. CASE Navigate(p)
    BY <2>1, <2>2, <2>5 DEF Navigate
  <2>6. CASE Commit(p)
    BY <2>2, <2>3, <2>6 DEF Commit
  <2>7. CASE KillPage(p)
    BY <2>3, <2>7 DEF KillPage
  <2>8. CASE \E ok \in BOOLEAN : LoadFinished(p, ok)
    <3>1. PICK ok \in BOOLEAN : LoadFinished(p, ok)
      BY <2>8
    <3>2. CASE ok = TRUE
      BY <2>2, <2>3, <3>1, <3>2 DEF LoadFinished
    <3>3. CASE ok = FALSE
      BY <2>1, <2>2, <3>1, <3>3 DEF LoadFinished
    <3>4. QED
      BY <3>2, <3>3
  <2>9. QED
    BY <2>4, <2>5, <2>6, <2>7, <2>8
<1>2. /\ pages' = [pages EXCEPT ![p] = [there |-> there, loaded |-> loaded, shows |-> shows]]
      /\ UNCHANGED <<settingsState, txt, call, answer, app, browser, live, audio, panel,
                     early, refused>>
  BY <1>1 DEF SetPage, server, outputs
<1>3. TypeOK'
  BY <1>1, <1>2 DEF SettingsInv, TypeOK
<1>4. PagesSound'
  BY <1>1, <1>2 DEF SettingsInv, TypeOK, PagesSound, PagesShowLive
<1>5. BooksSound'
  BY <1>2 DEF SettingsInv, BooksSound, DueInForce, Due
<1>6. QED
  BY <1>3, <1>4, <1>5 DEF SettingsInv

LEMMA SettingsStep == SettingsInv /\ [Next]_vars => SettingsInv'
<1> SUFFICES ASSUME SettingsInv, [Next]_vars
             PROVE  SettingsInv'
  OBVIOUS
<1>1. CASE UNCHANGED vars
  BY <1>1 DEF vars, server, outputs, SettingsInv, TypeOK, BooksSound, PagesSound,
              PagesShowLive, DueInForce, Due
<1>2. CASE Next
  BY <1>2, ServerKeeps, ApplyKeeps, StartKeeps, PageKeeps DEF Next
<1>3. QED
  BY <1>1, <1>2

-----------------------------------------------------------------------------
(* Theorems *)

LEMMA SettingsAlwaysSound == Spec => []SettingsInv
<1>1. QED
  BY InitSettings, SettingsStep, PTL DEF Spec

\* Types, the percentage and the scale of the panel among them.
THEOREM SettingsTyped == Spec => []TypeOK
<1>1. SettingsInv => TypeOK
  BY DEF SettingsInv
<1>2. QED
  BY <1>1, SettingsAlwaysSound, PTL

\* A loaded page knows the Browser's settings, in whatever order its documents,
\* its loads and the requests came.
THEOREM PagesAlwaysShowLive == Spec => []PagesShowLive
<1>1. SettingsInv => PagesShowLive
  BY DEF SettingsInv, PagesSound
<1>2. QED
  BY <1>1, SettingsAlwaysSound, PTL

\* What GetSettings answers is in force, but for a failed effect and for settings
\* accepted before the Browser.
THEOREM InForceAlwaysUnlessKnown == Spec => []InForceUnlessKnown
<1>1. SettingsInv => InForceUnlessKnown
  BY DEF SettingsInv, BooksSound, DueInForce, Due, InForceUnlessKnown, InForce
<1>2. QED
  BY <1>1, SettingsAlwaysSound, PTL
=============================================================================
