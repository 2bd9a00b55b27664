---------------------------- MODULE Screen_proofs ----------------------------
(***************************************************************************)
(* Screen for any numbers of tabs, shortcuts and icons.                    *)
(*                                                                         *)
(* A page is sound by itself (FaceSound): its tab wears its icon or is     *)
(* dark because it blinks.  To know which page is in front after a tab was *)
(* removed the bar has to be known too: every normal page stands in it     *)
(* once (BarSound).  That a killed tab stood in the bar at all needs the   *)
(* queue: a page whose kill is queued is still there, since no request is  *)
(* carried out before that kill.  For icons, whoever waits for a reply has *)
(* asked for that URL (WaitersSound), so that no reply changes the icon of *)
(* another.                                                                *)
(***************************************************************************)
EXTENDS Screen, FiniteSetTheorems, TLAPS

FaceSound(page) ==
  page.life = "live" /\ ~page.extra =>
    /\ page.face \in {page.icon, Dark}
    /\ page.face = Dark => page.blinking
    /\ ~page.visible => page.face = Dark

BarSound ==
  /\ \A t \in Tabs : t \in Normal <=> \E i \in DOMAIN bar : bar[i] = t
  /\ \A i, j \in DOMAIN bar : bar[i] = bar[j] => i = j

FrontSound == IF bar = <<>> THEN current = NoTab ELSE current \in Normal

TabInv ==
  /\ TabTypeOK
  /\ due \subseteq Live
  /\ \A t \in Tabs : FaceSound(pages[t])
  /\ BarSound /\ FrontSound
  /\ BlinksInFrontOnlyUnasked
  /\ MeasuredUnlessSwept

LoaderOK == LoaderTypeOK(Tabs \cup Shortcuts)

-----------------------------------------------------------------------------
(* One page *)

\* q is p but for its tab's face and what it makes of its flag.
SamePage(p, q) ==
  /\ q.life = p.life /\ q.extra = p.extra /\ q.iconUrl = p.iconUrl /\ q.icon = p.icon
  /\ q.blinking = p.blinking

LEMMA ShownType ==
  ASSUME NEW p \in Page, NEW b \in BOOLEAN, NEW v \in BOOLEAN, NEW i \in Icons,
         NEW f \in Icons \cup {Dark}
  PROVE  Shown(p, b, v, i, f) \in Page
  BY DEF Shown, Page

LEMMA WithIconSound ==
  ASSUME NEW p \in Page
  PROVE  /\ WithIcon(p) \in Page /\ SamePage(p, WithIcon(p)) /\ WithIcon(p).visible = p.visible
         /\ p.visible => FaceSound(WithIcon(p))
  <1>1. p.icon \in Icons /\ p.face \in Icons \cup {Dark} /\ p.blinking \in BOOLEAN /\ p.visible \in BOOLEAN
    BY DEF Page
  <1>2. WithIcon(p) \in Page
    BY <1>1, ShownType DEF WithIcon
  <1>3. SamePage(p, WithIcon(p)) /\ WithIcon(p).visible = p.visible
    BY DEF WithIcon, Shown, SamePage
  <1>4. p.visible => FaceSound(WithIcon(p))
    BY <1>1, TabAssumption DEF WithIcon, Shown, FaceSound
  <1> QED BY <1>2, <1>3, <1>4

LEMMA StoppedSound ==
  ASSUME NEW p \in Page
  PROVE  /\ Stopped(p) \in Page /\ FaceSound(Stopped(p)) /\ ~Stopped(p).blinking
         /\ Stopped(p).life = p.life /\ Stopped(p).extra = p.extra
         /\ Stopped(p).iconUrl = p.iconUrl /\ Stopped(p).icon = p.icon
  <1> DEFINE q == Shown(p, FALSE, TRUE, p.icon, p.face)
  <1>1. q \in Page
    BY ShownType DEF Page
  <1>2. /\ q.life = p.life /\ q.extra = p.extra /\ q.iconUrl = p.iconUrl /\ q.icon = p.icon
        /\ q.visible = TRUE /\ q.blinking = FALSE
    BY DEF Shown
  <1>3. /\ WithIcon(q) \in Page /\ SamePage(q, WithIcon(q)) /\ FaceSound(WithIcon(q))
    BY <1>1, <1>2, WithIconSound
  <1>4. Stopped(p) = WithIcon(q)
    BY DEF Stopped
  <1> HIDE DEF q
  <1> QED BY <1>2, <1>3, <1>4 DEF SamePage

LEMMA SyncedSound ==
  ASSUME NEW ps \in [Tabs -> Page], \A t \in Tabs : FaceSound(ps[t])
  PROVE  /\ Synced(ps) \in [Tabs -> Page]
         /\ \A t \in Tabs : FaceSound(Synced(ps)[t]) /\ SamePage(ps[t], Synced(ps)[t])
  <1>1. ASSUME NEW t \in Tabs
        PROVE  /\ Synced(ps)[t] \in Page /\ FaceSound(Synced(ps)[t]) /\ SamePage(ps[t], Synced(ps)[t])
    <2>1. CASE ps[t].life = "live" /\ ~ps[t].extra /\ ps[t].visible
      BY <2>1, WithIconSound DEF Synced
    <2>2. CASE ~(ps[t].life = "live" /\ ~ps[t].extra /\ ps[t].visible)
      <3>1. Synced(ps)[t] = ps[t] BY <2>2 DEF Synced
      <3> QED BY <3>1 DEF SamePage
    <2> QED BY <2>1, <2>2
  <1>2. DOMAIN Synced(ps) = Tabs /\ Synced(ps) = [t \in Tabs |-> Synced(ps)[t]]
    BY DEF Synced
  <1> QED BY <1>1, <1>2

LEMMA APageSound ==
  ASSUME NEW life \in Lives, NEW extra \in BOOLEAN, NEW url \in IconUrls \cup {NoUrl},
         NEW icon \in Icons
  PROVE  /\ APage(life, extra, url, icon) \in Page /\ FaceSound(APage(life, extra, url, icon))
         /\ ~APage(life, extra, url, icon).blinking
         /\ APage(life, extra, url, icon).life = life /\ APage(life, extra, url, icon).extra = extra
         /\ APage(life, extra, url, icon).iconUrl = url /\ APage(life, extra, url, icon).icon = icon
  <1>1. NoIcon \in Icons
    BY DEF Icons
  <1> QED BY <1>1, TabAssumption DEF APage, Page, FaceSound

LEMMA IconType ==
  ASSUME LoaderOK, NEW url PROVE IconAtOnce(url) \in Icons
  BY IconAssumption DEF LoaderOK, LoaderTypeOK, IconAtOnce, MustWait, Icons

-----------------------------------------------------------------------------
(* The bar *)

LEMMA ArrangedSound ==
  ASSUME NEW S \in SUBSET Tabs, NEW b \in Arrangements(S)
  PROVE  /\ b \in Seq(Tabs)
         /\ b = <<>> => S = {}
         /\ \A t \in Tabs : t \in S <=> \E i \in DOMAIN b : b[i] = t
         /\ \A i, j \in DOMAIN b : b[i] = b[j] => i = j
  <1>1. Cardinality(S) \in Nat
    BY FS_CardinalityType, FS_Subset, TabAssumption
  <1>2. b \in [1..Cardinality(S) -> S] /\ \A t \in S : \E i \in DOMAIN b : b[i] = t
    BY DEF Arrangements, Bijection, Surjection
  <1>3. \A i, j \in DOMAIN b : b[i] = b[j] => i = j
    BY DEF Arrangements, Bijection, Injection, IsInjective
  <1>4. b \in Seq(Tabs)
    <2> DEFINE n == Cardinality(S)
    <2>1. n \in Nat /\ b \in [1..n -> Tabs] BY <1>1, <1>2
    <2> HIDE DEF n
    <2> QED BY <2>1
  <1>5. \A t \in Tabs : t \in S <=> \E i \in DOMAIN b : b[i] = t
    BY <1>2
  <1>6. b = <<>> => S = {}
    BY <1>5
  <1> QED BY <1>3, <1>4, <1>5, <1>6

Without(b, at) == [i \in 1..(Len(b) - 1) |-> b[IF i < at THEN i ELSE i + 1]]

\* Without the tab at one place the bar has the others, in their order.
LEMMA RestSound ==
  ASSUME NEW b \in Seq(Tabs), NEW at \in DOMAIN b,
         \A i, j \in DOMAIN b : b[i] = b[j] => i = j,
         NEW rest, rest = Without(b, at),
         NEW next, next = IF at <= Len(rest) THEN at ELSE Len(rest)
  PROVE  /\ rest \in Seq(Tabs) /\ Len(rest) = Len(b) - 1
         /\ \A t \in Tabs : (\E i \in DOMAIN rest : rest[i] = t) <=> t # b[at] /\ \E i \in DOMAIN b : b[i] = t
         /\ \A i, j \in DOMAIN rest : rest[i] = rest[j] => i = j
         /\ rest # <<>> => next \in DOMAIN rest
  <1> USE DEF Without
  <1> DEFINE skip(i) == IF i < at THEN i ELSE i + 1
  <1>1. at \in 1..Len(b) /\ Len(b) \in Nat \ {0} /\ DOMAIN b = 1..Len(b)
    OBVIOUS
  <1>2. \A i \in 1..(Len(b) - 1) : skip(i) \in DOMAIN b /\ skip(i) # at /\ rest[i] = b[skip(i)]
    BY <1>1
  <1>3. rest \in Seq(Tabs) /\ Len(rest) = Len(b) - 1 /\ DOMAIN rest = 1..(Len(b) - 1)
    BY <1>1, <1>2
  <1>4. \A i, j \in DOMAIN rest : rest[i] = rest[j] => i = j
    <2> TAKE i, j \in DOMAIN rest
    <2> HAVE rest[i] = rest[j]
    <2>1. skip(i) = skip(j) BY <1>2, <1>3
    <2> QED BY <2>1, <1>1, <1>3
  <1>5. ASSUME NEW t \in Tabs, NEW i \in DOMAIN rest, rest[i] = t
        PROVE  t # b[at] /\ \E j \in DOMAIN b : b[j] = t
    BY <1>1, <1>2, <1>3, <1>5
  <1>6. ASSUME NEW t \in Tabs, t # b[at], NEW j \in DOMAIN b, b[j] = t
        PROVE  \E i \in DOMAIN rest : rest[i] = t
    <2>1. CASE j < at
      <3>1. j \in DOMAIN rest /\ skip(j) = j BY <1>1, <1>3, <2>1
      <3> QED BY <3>1, <1>2, <1>3, <1>6
    <2>2. CASE j > at
      <3>1. j - 1 \in DOMAIN rest /\ skip(j - 1) = j BY <1>1, <1>3, <2>2
      <3> QED BY <3>1, <1>2, <1>3, <1>6
    <2> QED BY <1>1, <1>6, <2>1, <2>2
  <1>7. rest # <<>> => next \in DOMAIN rest
    BY <1>1, <1>3
  <1> HIDE DEF skip
  <1> QED BY <1>3, <1>4, <1>5, <1>6, <1>7

-----------------------------------------------------------------------------
(* The steps of the tabs *)

USE DEF Live, Normal, Extra, threads, loader

LEMMA TabInitInv == Init => TabInv
  <1> SUFFICES ASSUME Init PROVE TabInv
    OBVIOUS
  <1> USE DEF Init, TabInit
  <1> DEFINE page == APage("unborn", FALSE, NoUrl, NoIcon)
  <1>0. "unborn" \in Lives /\ NoIcon \in Icons
    BY DEF Lives, Icons
  <1>1. page \in Page /\ FaceSound(page) /\ page.life = "unborn" /\ page.extra = FALSE
    BY <1>0 DEF APage, Page, FaceSound
  <1>a. pages = [t \in Tabs |-> page]
    OBVIOUS
  <1> HIDE DEF page
  <1>b. pages \in [Tabs -> Page] /\ \A t \in Tabs : pages[t] = page
    BY <1>1, <1>a
  <1>2. TabTypeOK
    <2>1. bar \in Seq(Tabs) /\ current \in Tabs \cup {NoTab}
      OBVIOUS
    <2> QED BY <1>b, <2>1 DEF TabTypeOK
  <1>3. Live = {} /\ Normal = {}
    BY <1>1, <1>b
  <1>4. \A t \in Tabs : FaceSound(pages[t])
    BY <1>1, <1>b
  <1>5. bar = <<>> /\ current = NoTab /\ looking = NoTab /\ due = {}
    OBVIOUS
  <1>6. BarSound
    <2>1. DOMAIN bar = {} BY <1>5
    <2> HIDE DEF Init, TabInit, Live, Normal
    <2> QED BY <1>3, <2>1 DEF BarSound
  <1>7. FrontSound /\ BlinksInFrontOnlyUnasked /\ MeasuredUnlessSwept
    BY <1>5 DEF FrontSound, BlinksInFrontOnlyUnasked, MeasuredUnlessSwept
  <1> HIDE DEF Init, TabInit
  <1> QED BY <1>2, <1>4, <1>5, <1>6, <1>7 DEF TabInv

\* A step that changes at most faces and flags of pages: what is left to show.
LEMMA FacesOnly ==
  ASSUME TabInv, UNCHANGED <<bar, current, how, due, looking>>, overlay' \in BOOLEAN,
         pages' \in [Tabs -> Page],
         \A t \in Tabs : /\ pages'[t].life = pages[t].life /\ pages'[t].extra = pages[t].extra
                         /\ FaceSound(pages'[t])
                         /\ t = current /\ pages'[t].blinking => pages[t].blinking
  PROVE  TabInv'
  <1>1. Live' = Live /\ Normal' = Normal
    OBVIOUS
  <1>2. TabTypeOK'
    BY DEF TabInv, TabTypeOK
  <1>3. BarSound' /\ FrontSound' /\ (due \subseteq Live)'
    BY <1>1 DEF TabInv, BarSound, FrontSound
  <1>4. BlinksInFrontOnlyUnasked'
    BY DEF TabInv, TabTypeOK, BlinksInFrontOnlyUnasked
  <1>5. MeasuredUnlessSwept'
    BY DEF TabInv, TabTypeOK, MeasuredUnlessSwept
  <1> QED BY <1>2, <1>3, <1>4, <1>5 DEF TabInv

LEMMA NewWebTabInv ==
  ASSUME TabInv, LoaderOK, NEW t \in Tabs, NEW extra \in BOOLEAN,
         NEW url \in IconUrls \cup {NoUrl}, OnNewWebTab(t, extra, url)
  PROVE  TabInv'
  <1> DEFINE page == APage("live", extra, url, IconAtOnce(url))
             born == [pages EXCEPT ![t] = page]
  <1>1. /\ page \in Page /\ FaceSound(page) /\ ~page.blinking /\ page.life = "live"
        /\ page.extra = extra
    BY APageSound, IconType DEF Lives
  <1>2. /\ born \in [Tabs -> Page] /\ \A u \in Tabs : FaceSound(born[u])
        /\ born[t] = page /\ \A u \in Tabs \ {t} : born[u] = pages[u]
    BY <1>1 DEF TabInv, TabTypeOK
  <1>3. /\ pages[t].life = "unborn" /\ UNCHANGED <<overlay, due, looking>>
        /\ due = {} /\ looking = NoTab
    BY DEF OnNewWebTab, Awaited
  <1> HIDE DEF page, born
  <1>4. CASE extra
    <2>1. pages' = born /\ UNCHANGED <<bar, current, how>>
      BY <1>4 DEF OnNewWebTab, born, page
    <2>2. \A u \in Tabs : u \in Normal' <=> u \in Normal
      BY <1>1, <1>2, <1>3, <1>4, <2>1
    <2>3. TabTypeOK'
      BY <1>2, <1>3, <2>1 DEF TabInv, TabTypeOK
    <2>4. BarSound' /\ FrontSound'
      BY <2>1, <2>2 DEF TabInv, BarSound, FrontSound
    <2>5. BlinksInFrontOnlyUnasked'
      BY <1>1, <1>2, <2>1 DEF TabInv, TabTypeOK, BlinksInFrontOnlyUnasked
    <2>6. MeasuredUnlessSwept'
      BY <1>3 DEF MeasuredUnlessSwept
    <2> QED BY <1>2, <1>3, <2>1, <2>3, <2>4, <2>5, <2>6 DEF TabInv
  <1>5. CASE ~extra
    <2>1. /\ pages' = Synced(born) /\ bar' \in Arrangements(Normal \cup {t})
          /\ IF FirstTab THEN BringToFront(t, "first") ELSE UNCHANGED <<current, how>>
      BY <1>5 DEF OnNewWebTab, born, page
    <2>2. /\ pages' \in [Tabs -> Page]
          /\ \A u \in Tabs : FaceSound(pages'[u]) /\ SamePage(born[u], pages'[u])
      BY <1>2, <2>1, SyncedSound
    <2>3. Normal' = Normal \cup {t} /\ Normal' \in SUBSET Tabs /\ t \in Normal'
      BY <1>1, <1>2, <1>3, <1>5, <2>2 DEF SamePage
    <2>4. /\ bar' \in Seq(Tabs)
          /\ \A u \in Tabs : u \in Normal' <=> \E i \in DOMAIN bar' : bar'[i] = u
          /\ \A i, j \in DOMAIN bar' : bar'[i] = bar'[j] => i = j
          /\ bar' # <<>>
      <3> DEFINE S == Normal \cup {t}
      <3>1. S \in SUBSET Tabs /\ t \in S /\ bar' \in Arrangements(S) /\ Normal' = S
        BY <2>1, <2>3
      <3> HIDE DEF S, Normal
      <3> QED BY <3>1, ArrangedSound
    <2>5. TabTypeOK'
      BY <1>3, <2>1, <2>2, <2>4 DEF TabInv, TabTypeOK, BringToFront
    <2>6. FrontSound'
      <3>1. bar' # <<>> /\ t \in Normal' /\ Normal \subseteq Normal'
        BY <2>3, <2>4
      <3>2. current' = t \/ (bar # <<>> /\ current' = current)
        BY <2>1 DEF FirstTab, BringToFront
      <3> HIDE DEF Normal
      <3> QED BY <3>1, <3>2 DEF TabInv, FrontSound
    <2>7. BlinksInFrontOnlyUnasked'
      <3>1. \A u \in Tabs : pages'[u].blinking => u # t /\ pages[u].blinking
        BY <1>1, <1>2, <2>2 DEF SamePage
      <3> QED BY <2>1, <3>1, TabAssumption DEF TabInv, TabTypeOK, BlinksInFrontOnlyUnasked, BringToFront
    <2>8. MeasuredUnlessSwept'
      BY <1>3 DEF MeasuredUnlessSwept
    <2> QED BY <1>3, <2>2, <2>4, <2>5, <2>6, <2>7, <2>8 DEF TabInv, BarSound
  <1> QED BY <1>4, <1>5

LEMMA ActivateInv ==
  ASSUME TabInv, NEW t \in Tabs, OnActivateTab(t)
  PROVE  TabInv'
  <1>1. /\ pages' \in [Tabs -> Page]
        /\ \A u \in Tabs : /\ pages'[u].life = pages[u].life /\ pages'[u].extra = pages[u].extra
                            /\ FaceSound(pages'[u])
    BY StoppedSound DEF OnActivateTab, TabInv, TabTypeOK
  <1>b. ~pages'[t].blinking /\ \A u \in Tabs \ {t} : pages'[u] = pages[u]
    BY StoppedSound DEF OnActivateTab, TabInv, TabTypeOK
  <1>2. CASE pages[t].extra
    <2>1. UNCHANGED <<bar, current, how, due, looking>> /\ overlay' \in BOOLEAN
      BY <1>2 DEF OnActivateTab
    <2> QED BY <1>1, <1>b, <2>1, FacesOnly
  <1>3. CASE ~pages[t].extra
    <2>1. /\ UNCHANGED <<bar, overlay, due, looking>> /\ current' = t /\ how' = "asked"
          /\ t \in Normal /\ due = {} /\ looking = NoTab
      BY <1>3 DEF OnActivateTab, BringToFront, Awaited
    <2>2. Live' = Live /\ Normal' = Normal
      BY <1>1
    <2>3. TabTypeOK'
      BY <1>1, <2>1 DEF TabInv, TabTypeOK
    <2>4. BarSound' /\ FrontSound' /\ MeasuredUnlessSwept'
      BY <2>1, <2>2 DEF TabInv, BarSound, FrontSound, MeasuredUnlessSwept
    <2>5. BlinksInFrontOnlyUnasked'
      BY <1>b, <2>1 DEF BlinksInFrontOnlyUnasked
    <2> QED BY <1>1, <2>1, <2>3, <2>4, <2>5 DEF TabInv
  <1> QED BY <1>2, <1>3

LEMMA BlinkInv ==
  ASSUME TabInv, NEW t \in Tabs, OnBlinkTab(t)
  PROVE  TabInv'
  <1>1. UNCHANGED <<bar, current, how, due, looking>> /\ overlay' \in BOOLEAN
    BY DEF OnBlinkTab, TabInv, TabTypeOK
  <1>2. CASE pages' = pages
    BY <1>1, <1>2, FacesOnly DEF TabInv, TabTypeOK
  <1>3. CASE pages' # pages
    <2> DEFINE q == Shown(pages[t], TRUE, TRUE, pages[t].icon, pages[t].face)
    <2>1. pages' = [pages EXCEPT ![t] = q] /\ current # t
      BY <1>3 DEF OnBlinkTab
    <2>2. q \in Page
      BY ShownType DEF TabInv, TabTypeOK, Page
    <2>3. q.life = pages[t].life /\ q.extra = pages[t].extra /\ FaceSound(q)
      BY DEF Shown, FaceSound, TabInv
    <2> HIDE DEF q
    <2> QED BY <1>1, <2>1, <2>2, <2>3, FacesOnly DEF TabInv, TabTypeOK
  <1> QED BY <1>2, <1>3

LEMMA NavigateInv ==
  ASSUME TabInv, NEW t \in Tabs, OnNavigateTo(t)
  PROVE  TabInv'
  <1>1. /\ pages' \in [Tabs -> Page]
        /\ \A u \in Tabs : FaceSound(pages'[u]) /\ SamePage(pages[u], pages'[u])
    BY SyncedSound DEF OnNavigateTo, TabInv, TabTypeOK
  <1>2. /\ bar' \in Arrangements(Normal) /\ UNCHANGED <<current, how, overlay, due, looking>>
        /\ t \in Normal
    BY DEF OnNavigateTo
  <1>3. Live' = Live /\ Normal' = Normal
    BY <1>1 DEF SamePage
  <1>4. /\ bar' \in Seq(Tabs) /\ bar' # <<>>
        /\ \A u \in Tabs : u \in Normal <=> \E i \in DOMAIN bar' : bar'[i] = u
        /\ \A i, j \in DOMAIN bar' : bar'[i] = bar'[j] => i = j
    <2> DEFINE S == Normal
    <2>1. S \in SUBSET Tabs /\ t \in S /\ bar' \in Arrangements(S)
      BY <1>2
    <2> HIDE DEF S, Normal
    <2>2. /\ bar' \in Seq(Tabs) /\ bar' # <<>>
          /\ \A u \in Tabs : u \in S <=> \E i \in DOMAIN bar' : bar'[i] = u
          /\ \A i, j \in DOMAIN bar' : bar'[i] = bar'[j] => i = j
      BY <2>1, ArrangedSound
    <2> QED BY <2>2 DEF S
  <1>5. TabTypeOK'
    BY <1>1, <1>2, <1>4 DEF TabInv, TabTypeOK
  <1>6. BarSound' /\ FrontSound' /\ (due \subseteq Live)'
    BY <1>2, <1>3, <1>4 DEF TabInv, BarSound, FrontSound
  <1>7. BlinksInFrontOnlyUnasked' /\ MeasuredUnlessSwept'
    BY <1>1, <1>2 DEF TabInv, TabTypeOK, BlinksInFrontOnlyUnasked, MeasuredUnlessSwept, SamePage
  <1> QED BY <1>1, <1>5, <1>6, <1>7 DEF TabInv

\* A page is destroyed: by a request, or by a kill that was queued.
LEMMA DestroyInv ==
  ASSUME TabInv, NEW t \in Live, NEW why \in {"killed", "swept"}, Destroy(t, why),
         looking' = looking, due' = due \ {t},
         why = "killed" => looking = NoTab
  PROVE  TabInv'
  <1> DEFINE page == APage(why, FALSE, NoUrl, NoIcon)
             gone == [pages EXCEPT ![t] = page]
  <1>1. /\ page \in Page /\ FaceSound(page) /\ ~page.blinking /\ page.life = why /\ why # "live"
    <2>1. why \in Lives /\ NoIcon \in Icons
      BY DEF Lives, Icons
    <2> QED BY <2>1 DEF APage, Page, FaceSound
  <1>2. /\ gone \in [Tabs -> Page] /\ \A u \in Tabs : FaceSound(gone[u])
        /\ gone[t] = page /\ \A u \in Tabs \ {t} : gone[u] = pages[u]
    BY <1>1 DEF TabInv, TabTypeOK
  <1> HIDE DEF page, gone
  <1>3. /\ pages' \in [Tabs -> Page] /\ overlay' \in BOOLEAN
        /\ \A u \in Tabs : FaceSound(pages'[u]) /\ SamePage(gone[u], pages'[u])
    <2>1. CASE pages[t].extra
      BY <1>2, <2>1 DEF Destroy, gone, page, SamePage
    <2>2. CASE ~pages[t].extra
      BY <1>2, <2>2, SyncedSound DEF Destroy, gone, page, TabInv, TabTypeOK
    <2> QED BY <2>1, <2>2
  <1>4. Live' = Live \ {t} /\ Normal' = Normal \ {t}
    BY <1>1, <1>2, <1>3 DEF SamePage
  <1>5. /\ \A u \in Tabs : pages'[u].blinking => u # t /\ pages[u].blinking
        /\ \A u \in Tabs \ {t} : pages'[u].life = pages[u].life
        /\ pages'[t].life = why
    BY <1>1, <1>2, <1>3 DEF SamePage
  <1>6. MeasuredUnlessSwept'
    BY <1>5 DEF TabInv, TabTypeOK, MeasuredUnlessSwept
  <1>7. CASE pages[t].extra
    <2>1. UNCHANGED <<bar, current, how>> /\ Normal' = Normal
      BY <1>4, <1>7 DEF Destroy
    <2>2. TabTypeOK'
      BY <1>3, <2>1 DEF TabInv, TabTypeOK
    <2>3. BarSound' /\ FrontSound' /\ BlinksInFrontOnlyUnasked'
      BY <1>5, <2>1 DEF TabInv, TabTypeOK, BarSound, FrontSound, BlinksInFrontOnlyUnasked
    <2> QED BY <1>3, <1>4, <1>6, <2>2, <2>3 DEF TabInv
  <1>8. CASE ~pages[t].extra
    <2> DEFINE at   == CHOOSE i \in DOMAIN bar : bar[i] = t
               rest == [i \in 1..(Len(bar) - 1) |-> bar[IF i < at THEN i ELSE i + 1]]
               next == IF at <= Len(rest) THEN at ELSE Len(rest)
    <2>1. at \in DOMAIN bar /\ bar[at] = t
      BY <1>8 DEF TabInv, BarSound
    <2>2. /\ bar' = rest
          /\ IF current # t THEN UNCHANGED <<current, how>>
             ELSE IF rest = <<>> THEN BringToFront(NoTab, "none")
             ELSE BringToFront(rest[next], "neighbour")
      BY <1>8 DEF Destroy, Removed
    <2>3. bar \in Seq(Tabs) /\ \A i, j \in DOMAIN bar : bar[i] = bar[j] => i = j
      BY DEF TabInv, TabTypeOK, BarSound
    <2> HIDE DEF at
    <2>0. rest = Without(bar, at)
      BY DEF Without
    <2> HIDE DEF rest
    <2>4. /\ rest \in Seq(Tabs)
          /\ \A u \in Tabs : (\E i \in DOMAIN rest : rest[i] = u) <=> u # t /\ \E i \in DOMAIN bar : bar[i] = u
          /\ \A i, j \in DOMAIN rest : rest[i] = rest[j] => i = j
          /\ rest # <<>> => next \in DOMAIN rest
      <3>0. next = IF at <= Len(rest) THEN at ELSE Len(rest)
        OBVIOUS
      <3> HIDE DEF next
      <3>1. /\ rest \in Seq(Tabs)
            /\ \A u \in Tabs : (\E i \in DOMAIN rest : rest[i] = u) <=> u # bar[at] /\ \E i \in DOMAIN bar : bar[i] = u
            /\ \A i, j \in DOMAIN rest : rest[i] = rest[j] => i = j
            /\ rest # <<>> => next \in DOMAIN rest
        BY <2>0, <2>1, <2>3, <3>0, RestSound
      <3> QED BY <2>1, <3>1
    <2> HIDE DEF next
    <2>5. BarSound'
      BY <1>4, <2>2, <2>4 DEF TabInv, BarSound
    <2>6. rest # <<>> => rest[next] \in Normal'
      BY <2>2, <2>4, <2>5 DEF BarSound
    <2>7. FrontSound'
      <3>1. CASE current # t
        <4>1. bar # <<>>
          BY <2>1
        <4>2. current' \in Normal'
          BY <1>4, <2>2, <3>1, <4>1 DEF TabInv, FrontSound
        <4>3. \E i \in DOMAIN bar' : bar'[i] = current'
          BY <2>5, <4>2 DEF BarSound
        <4> QED BY <4>2, <4>3 DEF FrontSound
      <3>2. CASE current = t
        BY <2>2, <2>6, <3>2 DEF FrontSound, BringToFront
      <3> QED BY <3>1, <3>2
    <2>8. TabTypeOK'
      BY <1>3, <2>2, <2>4, <2>6 DEF TabInv, TabTypeOK, BringToFront
    <2>9. BlinksInFrontOnlyUnasked'
      BY <1>5, <2>2 DEF TabInv, TabTypeOK, BlinksInFrontOnlyUnasked, BringToFront
    <2> QED BY <1>3, <1>4, <1>6, <2>5, <2>7, <2>8, <2>9 DEF TabInv
  <1> QED BY <1>7, <1>8

LEMMA KillInv ==
  ASSUME TabInv, NEW t \in Tabs, OnKillTab(t)
  PROVE  TabInv'
  <1>1. t \in Live /\ due = {} /\ looking = NoTab /\ due' = due /\ looking' = looking
    BY DEF OnKillTab, Awaited
  <1>2. CASE pages[t].extra
    <2>1. /\ UNCHANGED <<bar, current, how>> /\ overlay' \in BOOLEAN
          /\ pages' = [pages EXCEPT ![t] = Stopped(pages[t])]
      BY <1>2 DEF OnKillTab
    <2> QED BY <1>1, <2>1, StoppedSound, FacesOnly DEF TabInv, TabTypeOK
  <1>3. CASE ~pages[t].extra
    <2>1. Destroy(t, "killed")
      BY <1>3 DEF OnKillTab
    <2> QED BY <1>1, <2>1, DestroyInv
  <1> QED BY <1>2, <1>3

LEMMA SweptInv ==
  ASSUME TabInv, NEW t \in Tabs, OnSweptTab(t)
  PROVE  TabInv'
  <1>1. t \in Live /\ Destroy(t, "swept") /\ looking' = looking /\ due' = due \ {t}
    BY DEF OnSweptTab, TabInv
  <1> QED BY <1>1, DestroyInv

LEMMA TimeoutInv ==
  ASSUME TabInv, NEW t \in Tabs, Timeout(t)
  PROVE  TabInv'
  <1> DEFINE q == Shown(pages[t], TRUE, ~pages[t].visible, pages[t].icon,
                        IF pages[t].visible THEN Dark ELSE pages[t].icon)
  <1>1. pages' = [pages EXCEPT ![t] = q] /\ UNCHANGED <<bar, current, how, overlay, threads>>
    BY DEF Timeout
  <1>2. pages[t].blinking /\ pages[t] \in Page
    BY DEF Timeout, TabInv, TabTypeOK
  <1>3. q \in Page
    BY <1>2, ShownType DEF Page
  <1>4. q.life = pages[t].life /\ q.extra = pages[t].extra /\ FaceSound(q)
    BY DEF Shown, FaceSound
  <1> HIDE DEF q
  <1> QED BY <1>1, <1>2, <1>3, <1>4, FacesOnly DEF TabInv, TabTypeOK

LEMMA ClickInv ==
  ASSUME TabInv, NEW t \in Tabs, Click(t)
  PROVE  TabInv'
  <1>1. t \in Normal /\ current' = t /\ how' = "clicked" /\ UNCHANGED <<pages, bar, overlay, threads>>
    BY DEF Click, BringToFront
  <1>2. TabTypeOK' /\ BarSound'
    BY <1>1 DEF TabInv, TabTypeOK, BarSound
  <1>3. FrontSound' /\ BlinksInFrontOnlyUnasked' /\ MeasuredUnlessSwept'
    BY <1>1 DEF TabInv, BarSound, FrontSound, BlinksInFrontOnlyUnasked, MeasuredUnlessSwept
  <1> QED BY <1>1, <1>2, <1>3 DEF TabInv

\* The steps of the server thread leave the screen as it is.
LEMMA ServerInv ==
  ASSUME TabInv, (\E t \in Tabs : Sweep(t)) \/ Look \/ Measure
  PROVE  TabInv'
  <1>1. UNCHANGED <<pages, bar, current, how, overlay>>
    BY DEF Sweep, Look, Measure
  <1>2. due' \subseteq Live
    BY DEF Sweep, Look, Measure, TabInv
  <1>3. looking' \in Tabs \cup {NoTab}
    BY DEF Sweep, Look, Measure, TabInv, TabTypeOK
  <1>4. MeasuredUnlessSwept'
    BY DEF Sweep, Look, Measure, TabInv, FrontSound, MeasuredUnlessSwept
  <1>5. TabTypeOK'
    BY <1>1, <1>2, <1>3 DEF TabInv, TabTypeOK
  <1>6. BarSound' /\ FrontSound' /\ BlinksInFrontOnlyUnasked'
    BY <1>1 DEF TabInv, BarSound, FrontSound, BlinksInFrontOnlyUnasked
  <1> QED BY <1>1, <1>2, <1>4, <1>5, <1>6 DEF TabInv

LEMMA TabIconsInv ==
  ASSUME TabInv, NEW url \in IconUrls, NEW icon \in Icons, TabIcons(url, icon),
         UNCHANGED <<bar, current, how, overlay, threads>>
  PROVE  TabInv'
  <1>1. ASSUME NEW t \in Tabs
        PROVE  /\ pages'[t] \in Page /\ pages'[t].life = pages[t].life
               /\ pages'[t].extra = pages[t].extra /\ pages'[t].blinking = pages[t].blinking
               /\ FaceSound(pages'[t])
    <2>0. pages[t] \in Page /\ FaceSound(pages[t])
      BY DEF TabInv, TabTypeOK
    <2> DEFINE has == Shown(pages[t], pages[t].blinking, pages[t].visible, icon, pages[t].face)
    <2>1. pages'[t] = IF t \in pending[url] \cap Live
                        THEN IF has.visible THEN WithIcon(has) ELSE has ELSE pages[t]
      BY DEF TabIcons
    <2>2. has \in Page
      BY <2>0, ShownType DEF Page
    <2>3. /\ has.life = pages[t].life /\ has.extra = pages[t].extra
          /\ has.blinking = pages[t].blinking /\ has.visible = pages[t].visible
          /\ has.face = pages[t].face
      BY DEF Shown
    <2>4. CASE ~(t \in pending[url] \cap Live)
      BY <2>0, <2>1, <2>4
    <2>5. CASE t \in pending[url] \cap Live /\ has.visible
      <3>1. pages'[t] = WithIcon(has) BY <2>1, <2>5
      <3> HIDE DEF has
      <3> QED BY <2>2, <2>3, <2>5, <3>1, WithIconSound DEF SamePage
    <2>6. CASE t \in pending[url] \cap Live /\ ~has.visible
      <3>1. pages'[t] = has BY <2>1, <2>6
      <3>2. FaceSound(has)
        BY <2>0, <2>3, <2>6 DEF FaceSound
      <3> HIDE DEF has
      <3> QED BY <2>2, <2>3, <3>1, <3>2
    <2> HIDE DEF has
    <2> QED BY <2>4, <2>5, <2>6
  <1>2. pages' \in [Tabs -> Page]
    <2>1. DOMAIN pages' = Tabs /\ pages' = [t \in Tabs |-> pages'[t]]
      BY DEF TabIcons
    <2> QED BY <1>1, <2>1
  <1> QED BY <1>1, <1>2, FacesOnly DEF TabInv, TabTypeOK

LEMMA TabStepInv ==
  ASSUME TabInv, LoaderOK, [Next]_vars
  PROVE  TabInv'
  <1>1. CASE UNCHANGED tabVars
    BY <1>1 DEF tabVars, TabInv, TabTypeOK, BarSound, FrontSound, BlinksInFrontOnlyUnasked,
      MeasuredUnlessSwept
  <1>2. CASE TabNext
    <2>1. ASSUME NEW t \in Tabs, NEW extra \in BOOLEAN, NEW url \in IconUrls \cup {NoUrl},
                 OnNewWebTab(t, extra, url)
          PROVE  TabInv'
      BY <2>1, NewWebTabInv
    <2>2. ASSUME NEW t \in Tabs,
                 OnActivateTab(t) \/ OnBlinkTab(t) \/ OnNavigateTo(t) \/ OnKillTab(t)
                   \/ OnSweptTab(t) \/ Timeout(t) \/ Click(t)
          PROVE  TabInv'
      BY <2>2, ActivateInv, BlinkInv, NavigateInv, KillInv, SweptInv, TimeoutInv, ClickInv
    <2> QED BY <1>2, <2>1, <2>2, ServerInv DEF TabNext
  <1>3. ASSUME NEW url \in IconUrls, NEW icon \in Icons, IconReply(url, icon)
        PROVE  TabInv'
    BY <1>3, TabIconsInv DEF IconReply
  <1> QED BY <1>1, <1>2, <1>3 DEF Next, vars

-----------------------------------------------------------------------------
(* The shortcuts and the icons *)

PanelInv ==
  /\ shortcuts \in [Shortcuts -> Shortcut]
  /\ PlacesSound

\* Whoever waits for a reply has asked for that URL, and nobody waits for a page
\* that never was.
WaitersSound ==
  \A url \in IconUrls :
    /\ \A t \in pending[url] \cap Tabs :
         pages[t].life # "unborn" /\ (pages[t].life = "live" => pages[t].iconUrl = url)
    /\ \A x \in pending[url] \cap Shortcuts :
         shortcuts[x].life # "unborn" /\ (shortcuts[x].life = "live" => shortcuts[x].iconUrl = url)

IconInv == LoaderOK /\ WaitersSound /\ IconsSettled

LEMMA IconInitInv == Init => PanelInv /\ IconInv
  <1> SUFFICES ASSUME Init PROVE PanelInv /\ IconInv
    OBVIOUS
  <1>1. LoaderOK
    BY DEF Init, LoaderInit, LoaderOK, LoaderTypeOK
  <1>2. \A x \in Shortcuts : shortcuts[x] = AShortcut("unborn", -1, -1, NoUrl, NoIcon)
    BY DEF Init, PanelInit
  <1>3. AShortcut("unborn", -1, -1, NoUrl, NoIcon) \in Shortcut
    BY DEF AShortcut, Shortcut, Icons
  <1>4. shortcuts \in [Shortcuts -> Shortcut]
    BY <1>3 DEF Init, PanelInit
  <1>5. Alive(shortcuts) = {}
    BY <1>2 DEF Alive, AShortcut
  <1>6. Live = {}
    BY DEF Init, TabInit, APage
  <1>7. \A url \in IconUrls : pending[url] = {}
    BY DEF Init, LoaderInit
  <1> HIDE DEF Live
  <1>8. PlacesSound /\ WaitersSound /\ IconsSettled
    BY <1>5, <1>6, <1>7 DEF PlacesSound, WaitersSound, IconsSettled
  <1> QED BY <1>1, <1>4, <1>8 DEF PanelInv, IconInv

\* A place that is given is free, and the one that was asked for.
LEMMA AllocatedFree ==
  ASSUME NEW pref, NEW pos \in Allocated(pref)
  PROVE  /\ pos \in Places /\ (pref \in Places => pos = pref)
         /\ \A x \in Alive(shortcuts) : shortcuts[x].pos # pos
  BY DEF Allocated, FreePlaces

LEMMA NewShortcutInv ==
  ASSUME PanelInv, LoaderOK, NEW x \in Shortcuts, NEW pref \in ShortcutPrefs,
         NEW url \in IconUrls \cup {NoUrl}, OnNewShortcut(x, pref, url)
  PROVE  PanelInv'
  <1>1. PICK pos \in Allocated(pref) :
          shortcuts' = [shortcuts EXCEPT ![x] = AShortcut("live", pref, pos, url, IconAtOnce(url))]
    BY DEF OnNewShortcut
  <1> DEFINE s == AShortcut("live", pref, pos, url, IconAtOnce(url))
  <1>2. /\ pos \in Places /\ (pref \in Places => pos = pref)
        /\ \A y \in Alive(shortcuts) : shortcuts[y].pos # pos
    BY AllocatedFree
  <1>3. /\ s \in Shortcut /\ s.life = "live" /\ s.pref = pref /\ s.pos = pos
    BY <1>2, IconType, PanelAssumption DEF AShortcut, Shortcut
  <1> HIDE DEF s
  <1>4. /\ shortcuts' \in [Shortcuts -> Shortcut] /\ shortcuts'[x] = s
        /\ \A y \in Shortcuts \ {x} : shortcuts'[y] = shortcuts[y]
    BY <1>1, <1>3 DEF PanelInv, s
  <1>5. shortcuts[x].life = "unborn"
    BY DEF OnNewShortcut
  <1>6. Alive(shortcuts') = Alive(shortcuts) \cup {x} /\ x \notin Alive(shortcuts)
    BY <1>3, <1>4, <1>5 DEF Alive
  <1>7. PlacesSound'
    <2> SUFFICES ASSUME NEW y \in Alive(shortcuts')
                 PROVE  /\ shortcuts'[y].pos \in Places
                        /\ shortcuts'[y].pref \in Places => shortcuts'[y].pos = shortcuts'[y].pref
                        /\ \A z \in Alive(shortcuts') \ {y} : shortcuts'[z].pos # shortcuts'[y].pos
      BY DEF PlacesSound, Places
    <2>1. CASE y = x
      BY <1>2, <1>3, <1>4, <1>6, <2>1 DEF Alive
    <2>2. CASE y # x
      BY <1>2, <1>3, <1>4, <1>6, <2>2 DEF Alive, PanelInv, PlacesSound
    <2> QED BY <2>1, <2>2
  <1> QED BY <1>4, <1>7 DEF PanelInv

\* A step that leaves every place as it is, or takes a shortcut away.
LEMMA PlacesKept ==
  ASSUME PanelInv, shortcuts' \in [Shortcuts -> Shortcut],
         \A x \in Shortcuts : shortcuts'[x].life = "live" =>
           /\ shortcuts[x].life = "live"
           /\ shortcuts'[x].pos = shortcuts[x].pos /\ shortcuts'[x].pref = shortcuts[x].pref
  PROVE  PanelInv'
  BY DEF PanelInv, PlacesSound, Alive, Places

LEMMA KillShortcutInv ==
  ASSUME PanelInv, NEW x \in Shortcuts, OnKillShortcut(x)
  PROVE  PanelInv'
  <1> DEFINE s == AShortcut("dead", -1, -1, NoUrl, NoIcon)
  <1>1. s \in Shortcut /\ s.life = "dead"
    BY DEF AShortcut, Shortcut, Icons
  <1>2. shortcuts' = [shortcuts EXCEPT ![x] = s]
    BY DEF OnKillShortcut
  <1> HIDE DEF s
  <1>3. shortcuts' \in [Shortcuts -> Shortcut]
    BY <1>1, <1>2 DEF PanelInv
  <1>4. ASSUME NEW y \in Shortcuts, shortcuts'[y].life = "live"
        PROVE  shortcuts'[y] = shortcuts[y]
    BY <1>1, <1>2, <1>4 DEF PanelInv
  <1> QED BY <1>3, <1>4, PlacesKept

LEMMA ShortcutIconsInv ==
  ASSUME PanelInv, NEW url \in IconUrls, NEW icon \in Icons, ShortcutIcons(url, icon)
  PROVE  PanelInv'
  <1>1. ASSUME NEW x \in Shortcuts
        PROVE  /\ shortcuts'[x] \in Shortcut /\ shortcuts'[x].life = shortcuts[x].life
               /\ shortcuts'[x].pos = shortcuts[x].pos /\ shortcuts'[x].pref = shortcuts[x].pref
    BY DEF ShortcutIcons, PanelInv, Shortcut, AShortcut, Alive
  <1>2. shortcuts' \in [Shortcuts -> Shortcut]
    <2>1. DOMAIN shortcuts' = Shortcuts /\ shortcuts' = [x \in Shortcuts |-> shortcuts'[x]]
      BY DEF ShortcutIcons
    <2> QED BY <1>1, <2>1
  <1> QED BY <1>1, <1>2, PlacesKept

LEMMA PanelStepInv ==
  ASSUME PanelInv, LoaderOK, [Next]_vars
  PROVE  PanelInv'
  <1>1. CASE UNCHANGED shortcuts
    BY <1>1, PlacesKept DEF PanelInv
  <1>2. CASE PanelNext
    <2>1. ASSUME NEW x \in Shortcuts, NEW pref \in ShortcutPrefs, NEW url \in IconUrls \cup {NoUrl},
                 OnNewShortcut(x, pref, url)
          PROVE  PanelInv'
      BY <2>1, NewShortcutInv
    <2>2. ASSUME NEW x \in Shortcuts, OnKillShortcut(x)
          PROVE  PanelInv'
      BY <2>2, KillShortcutInv
    <2> QED BY <1>1, <1>2, <2>1, <2>2 DEF PanelNext, Toggle, Dismiss, Activate
  <1>3. ASSUME NEW url \in IconUrls, NEW icon \in Icons, IconReply(url, icon)
        PROVE  PanelInv'
    BY <1>3, ShortcutIconsInv DEF IconReply
  <1> QED BY <1>1, <1>2, <1>3 DEF Next, vars, panelVars

\* A page, or a shortcut, that is no other for the icon loader: it has not come, and
\* if it is there it wants and wears what it did.
SameOwner(p, q) ==
  /\ p.life # "unborn" => q.life # "unborn"
  /\ q.life = "live" => p.life = "live" /\ q.iconUrl = p.iconUrl /\ q.icon = p.icon

LEMMA IconsKept ==
  ASSUME IconInv, UNCHANGED loader,
         \A t \in Tabs : SameOwner(pages[t], pages'[t]),
         \A x \in Shortcuts : SameOwner(shortcuts[x], shortcuts'[x])
  PROVE  IconInv'
  <1> USE DEF SameOwner
  <1>1. LoaderOK'
    BY DEF IconInv, LoaderOK, LoaderTypeOK
  <1>2. WaitersSound'
    BY DEF IconInv, WaitersSound
  <1>3. IconsSettled'
    BY DEF IconInv, IconsSettled, Settled, MustWait, IconAtOnce, Alive
  <1> QED BY <1>1, <1>2, <1>3 DEF IconInv

\* One comes that was not there, and asks for its icon.
LEMMA IconAskedInv ==
  ASSUME IconInv, NEW o \in Tabs \cup Shortcuts, NEW url \in IconUrls \cup {NoUrl}, LoadIcon(url, o),
         \A t \in Tabs \ {o} : SameOwner(pages[t], pages'[t]),
         \A x \in Shortcuts \ {o} : SameOwner(shortcuts[x], shortcuts'[x]),
         o \in Tabs => /\ pages[o].life = "unborn" /\ pages'[o].life = "live"
                       /\ pages'[o].iconUrl = url /\ pages'[o].icon = IconAtOnce(url),
         o \in Shortcuts => /\ shortcuts[o].life = "unborn" /\ shortcuts'[o].life = "live"
                            /\ shortcuts'[o].iconUrl = url /\ shortcuts'[o].icon = IconAtOnce(url)
  PROVE  IconInv'
  <1>1. /\ cache' = cache /\ LoaderOK'
        /\ \A u \in IconUrls : pending'[u] = IF u = url /\ MustWait(u) THEN pending[u] \cup {o} ELSE pending[u]
    BY DEF LoadIcon, IconInv, LoaderOK, LoaderTypeOK
  <1>2. WaitersSound'
    <2> SUFFICES ASSUME NEW u \in IconUrls, NEW w \in pending'[u]
                 PROVE  /\ w \in Tabs => pages'[w].life # "unborn" /\ (pages'[w].life = "live" => pages'[w].iconUrl = u)
                        /\ w \in Shortcuts => shortcuts'[w].life # "unborn" /\ (shortcuts'[w].life = "live" => shortcuts'[w].iconUrl = u)
      BY DEF WaitersSound
    <2>1. CASE w = o /\ u = url
      BY <2>1
    <2>2. CASE w = o /\ u # url
      <3>1. o \in pending[u] BY <1>1, <2>2
      <3> QED BY <2>2, <3>1 DEF IconInv, WaitersSound
    <2>3. CASE w # o
      <3>0. pending'[u] \in {pending[u], pending[u] \cup {o}}
        BY <1>1
      <3>1. w \in pending[u] BY <2>3, <3>0
      <3> QED BY <2>3, <3>1 DEF IconInv, WaitersSound, SameOwner
    <2> QED BY <2>1, <2>2, <2>3
  <1>3. \A u : /\ MustWait(u)' = MustWait(u) /\ IconAtOnce(u)' = IconAtOnce(u)
               /\ u \in IconUrls => pending[u] \subseteq pending'[u]
    BY <1>1 DEF MustWait, IconAtOnce
  <1>4. MustWait(url) => url \in IconUrls /\ o \in pending'[url] /\ IconAtOnce(url) = NoIcon
    BY <1>1 DEF MustWait, IconAtOnce
  <1>5. ASSUME NEW t \in Live' PROVE Settled(t, pages[t].iconUrl, pages[t].icon)'
    <2>1. CASE t = o
      BY <1>3, <1>4, <2>1 DEF Settled
    <2>2. CASE t # o
      <3>1. t \in Live /\ pages'[t].iconUrl = pages[t].iconUrl /\ pages'[t].icon = pages[t].icon
        BY <1>5, <2>2 DEF SameOwner
      <3>2. Settled(t, pages[t].iconUrl, pages[t].icon)
        BY <3>1 DEF IconInv, IconsSettled
      <3> HIDE DEF Live
      <3> QED BY <1>3, <3>1, <3>2 DEF Settled, MustWait
    <2> QED BY <2>1, <2>2
  <1>6. ASSUME NEW x \in Alive(shortcuts') PROVE Settled(x, shortcuts[x].iconUrl, shortcuts[x].icon)'
    <2>1. CASE x = o
      BY <1>3, <1>4, <2>1 DEF Settled, Alive
    <2>2. CASE x # o
      <3>1. /\ x \in Alive(shortcuts)
            /\ shortcuts'[x].iconUrl = shortcuts[x].iconUrl /\ shortcuts'[x].icon = shortcuts[x].icon
        BY <1>6, <2>2 DEF SameOwner, Alive
      <3>2. Settled(x, shortcuts[x].iconUrl, shortcuts[x].icon)
        BY <3>1 DEF IconInv, IconsSettled
      <3> QED BY <1>3, <3>1, <3>2 DEF Settled, MustWait
    <2> QED BY <2>1, <2>2
  <1>7. \A u \in IconUrls : pending'[u] # {} => cache'[u] = NotLoaded
    BY <1>1 DEF IconInv, IconsSettled, MustWait
  <1>8. IconsSettled'
    BY <1>5, <1>6, <1>7 DEF IconsSettled
  <1> QED BY <1>1, <1>2, <1>8 DEF IconInv

LEMMA IconReplyInv ==
  ASSUME IconInv, TabInv, PanelInv, NEW url \in IconUrls, NEW icon \in Icons, IconReply(url, icon)
  PROVE  IconInv'
  <1>1. /\ cache' = [cache EXCEPT ![url] = icon] /\ pending' = [pending EXCEPT ![url] = {}]
        /\ pending[url] # {} /\ TabIcons(url, icon) /\ ShortcutIcons(url, icon)
    BY DEF IconReply, Finished
  <1>2. /\ LoaderOK' /\ cache'[url] = icon /\ pending'[url] = {} /\ cache[url] = NotLoaded
        /\ \A u \in IconUrls \ {url} : cache'[u] = cache[u] /\ pending'[u] = pending[u]
    BY <1>1 DEF IconInv, LoaderOK, LoaderTypeOK, IconsSettled
  <1>3. icon # NotLoaded
    BY IconAssumption DEF Icons
  <1>4. ASSUME NEW t \in Tabs
        PROVE  /\ pages'[t].life = pages[t].life /\ pages'[t].iconUrl = pages[t].iconUrl
               /\ pages'[t].icon = IF t \in pending[url] \cap Live THEN icon ELSE pages[t].icon
    <2> DEFINE has == Shown(pages[t], pages[t].blinking, pages[t].visible, icon, pages[t].face)
    <2>1. pages'[t] = IF t \in pending[url] \cap Live
                        THEN IF has.visible THEN WithIcon(has) ELSE has ELSE pages[t]
      BY <1>1 DEF TabIcons
    <2>2. has.life = pages[t].life /\ has.iconUrl = pages[t].iconUrl /\ has.icon = icon
      BY DEF Shown
    <2>3. /\ WithIcon(has).life = has.life /\ WithIcon(has).iconUrl = has.iconUrl
          /\ WithIcon(has).icon = has.icon
      BY DEF Shown, WithIcon
    <2> HIDE DEF has
    <2> QED BY <2>1, <2>2, <2>3
  <1>5. ASSUME NEW x \in Shortcuts
        PROVE  /\ shortcuts'[x].life = shortcuts[x].life /\ shortcuts'[x].iconUrl = shortcuts[x].iconUrl
               /\ shortcuts'[x].icon = IF x \in pending[url] \cap Alive(shortcuts) THEN icon ELSE shortcuts[x].icon
    BY <1>1 DEF ShortcutIcons, AShortcut, Alive
  <1>6. WaitersSound'
    BY <1>2, <1>4, <1>5 DEF IconInv, WaitersSound
  <1>7. ASSUME NEW o, NEW u, NEW i, NEW j, Settled(o, u, i),
               u = url => o \in pending[url], o \in pending[url] => u = url,
               j = IF o \in pending[url] THEN icon ELSE i
        PROVE  Settled(o, u, j)'
    BY <1>2, <1>3, <1>7 DEF Settled, MustWait, IconAtOnce
  <1>8. ASSUME NEW t \in Live' PROVE Settled(t, pages[t].iconUrl, pages[t].icon)'
    <2>1. t \in Live /\ t \in Tabs
      BY <1>4, <1>8
    <2>2. Settled(t, pages[t].iconUrl, pages[t].icon)
      BY <2>1 DEF IconInv, IconsSettled
    <2>3. pages[t].iconUrl = url => t \in pending[url]
      BY <1>2, <2>2 DEF Settled, MustWait
    <2>4. t \in pending[url] => pages[t].iconUrl = url
      BY <2>1 DEF IconInv, WaitersSound
    <2>5. /\ pages'[t].iconUrl = pages[t].iconUrl
          /\ pages'[t].icon = IF t \in pending[url] THEN icon ELSE pages[t].icon
      BY <1>4, <2>1
    <2> HIDE DEF Live
    <2> QED BY <1>7, <2>2, <2>3, <2>4, <2>5
  <1>9. ASSUME NEW x \in Alive(shortcuts') PROVE Settled(x, shortcuts[x].iconUrl, shortcuts[x].icon)'
    <2>1. x \in Alive(shortcuts) /\ x \in Shortcuts /\ shortcuts[x].life = "live"
      BY <1>5, <1>9 DEF Alive
    <2>2. Settled(x, shortcuts[x].iconUrl, shortcuts[x].icon)
      BY <2>1 DEF IconInv, IconsSettled
    <2>3. shortcuts[x].iconUrl = url => x \in pending[url]
      BY <1>2, <2>2 DEF Settled, MustWait
    <2>4. x \in pending[url] => shortcuts[x].iconUrl = url
      BY <2>1 DEF IconInv, WaitersSound
    <2>5. /\ shortcuts'[x].iconUrl = shortcuts[x].iconUrl
          /\ shortcuts'[x].icon = IF x \in pending[url] THEN icon ELSE shortcuts[x].icon
      BY <1>5, <2>1
    <2> QED BY <1>7, <2>2, <2>3, <2>4, <2>5
  <1>10. IconsSettled'
    BY <1>2, <1>8, <1>9 DEF IconInv, IconsSettled
  <1> QED BY <1>2, <1>6, <1>10 DEF IconInv

\* A page that is not new wants and wears the icon it did, whatever happens to its tab.
LEMMA KeepsOwners ==
  ASSUME TabInv, NEW t \in Tabs,
         OnActivateTab(t) \/ OnBlinkTab(t) \/ OnNavigateTo(t) \/ OnKillTab(t)
           \/ OnSweptTab(t) \/ Timeout(t)
  PROVE  \A u \in Tabs : SameOwner(pages[u], pages'[u])
  <1>1. pages \in [Tabs -> Page] /\ \A u \in Tabs : FaceSound(pages[u])
    BY DEF TabInv, TabTypeOK
  <1>2. CASE \/ pages' = pages
             \/ pages' = [pages EXCEPT ![t] = Stopped(pages[t])]
             \/ pages' = Synced(pages)
    BY <1>1, <1>2, StoppedSound, SyncedSound DEF SameOwner, SamePage
  <1>3. ASSUME NEW b, NEW v, NEW f, pages' = [pages EXCEPT ![t] = Shown(pages[t], b, v, pages[t].icon, f)]
        PROVE  \A u \in Tabs : SameOwner(pages[u], pages'[u])
    BY <1>1, <1>3 DEF Shown, SameOwner
  <1>4. ASSUME NEW why \in {"killed", "swept"}, Destroy(t, why)
        PROVE  \A u \in Tabs : SameOwner(pages[u], pages'[u])
    <2> DEFINE page == APage(why, FALSE, NoUrl, NoIcon)
               gone == [pages EXCEPT ![t] = page]
    <2>1. page \in Page /\ FaceSound(page) /\ page.life = why
      <3>1. why \in Lives /\ NoIcon \in Icons
        BY DEF Lives, Icons
      <3> QED BY <3>1 DEF APage, Page, FaceSound
    <2> HIDE DEF page
    <2>2. /\ gone \in [Tabs -> Page] /\ \A u \in Tabs : FaceSound(gone[u])
          /\ gone[t] = page /\ \A u \in Tabs \ {t} : gone[u] = pages[u]
      BY <1>1, <2>1
    <2>3. pages' = gone \/ pages' = Synced(gone)
      BY <1>4 DEF Destroy, page
    <2> HIDE DEF gone
    <2>4. \A u \in Tabs : SamePage(gone[u], pages'[u])
      BY <2>2, <2>3, SyncedSound DEF SamePage
    <2> QED BY <2>1, <2>2, <2>4 DEF SamePage, SameOwner
  <1>5. CASE OnActivateTab(t)
    BY <1>2, <1>5 DEF OnActivateTab
  <1>6. CASE OnBlinkTab(t)
    BY <1>2, <1>3, <1>6 DEF OnBlinkTab
  <1>7. CASE OnNavigateTo(t)
    BY <1>2, <1>7 DEF OnNavigateTo
  <1>8. CASE OnKillTab(t)
    BY <1>2, <1>4, <1>8 DEF OnKillTab
  <1>9. CASE OnSweptTab(t)
    BY <1>4, <1>9 DEF OnSweptTab
  <1>10. CASE Timeout(t)
    BY <1>3, <1>10 DEF Timeout
  <1> QED BY <1>5, <1>6, <1>7, <1>8, <1>9, <1>10

LEMMA NewWebTabIcon ==
  ASSUME TabInv, LoaderOK, NEW t \in Tabs, NEW extra \in BOOLEAN,
         NEW url \in IconUrls \cup {NoUrl}, OnNewWebTab(t, extra, url)
  PROVE  /\ pages[t].life = "unborn" /\ pages'[t].life = "live"
         /\ pages'[t].iconUrl = url /\ pages'[t].icon = IconAtOnce(url)
         /\ \A u \in Tabs \ {t} : SameOwner(pages[u], pages'[u])
  <1> DEFINE page == APage("live", extra, url, IconAtOnce(url))
             born == [pages EXCEPT ![t] = page]
  <1>1. /\ page \in Page /\ FaceSound(page) /\ page.life = "live"
        /\ page.iconUrl = url /\ page.icon = IconAtOnce(url)
    BY APageSound, IconType DEF Lives
  <1>2. /\ born \in [Tabs -> Page] /\ \A u \in Tabs : FaceSound(born[u])
        /\ born[t] = page /\ \A u \in Tabs \ {t} : born[u] = pages[u]
    BY <1>1 DEF TabInv, TabTypeOK
  <1>3. pages[t].life = "unborn" /\ (pages' = born \/ pages' = Synced(born))
    BY DEF OnNewWebTab
  <1> HIDE DEF page, born
  <1>4. \A u \in Tabs : SamePage(born[u], pages'[u])
    BY <1>2, <1>3, SyncedSound DEF SamePage
  <1> QED BY <1>1, <1>2, <1>3, <1>4 DEF SamePage, SameOwner

LEMMA IconStepInv ==
  ASSUME IconInv, TabInv, PanelInv, [Next]_vars
  PROVE  IconInv'
  <1>1. ASSUME NEW t \in Tabs PROVE SameOwner(pages[t], pages[t])
    BY DEF SameOwner
  <1>2. ASSUME NEW x \in Shortcuts PROVE SameOwner(shortcuts[x], shortcuts[x])
    BY DEF SameOwner
  <1>a. UNCHANGED pages => \A t \in Tabs : SameOwner(pages[t], pages'[t])
    BY <1>1
  <1>b. UNCHANGED shortcuts => \A x \in Shortcuts : SameOwner(shortcuts[x], shortcuts'[x])
    BY <1>2
  <1>3. ASSUME NEW url \in IconUrls, NEW icon \in Icons, IconReply(url, icon)
        PROVE  IconInv'
    BY <1>3, IconReplyInv
  <1>4. CASE UNCHANGED vars
    BY <1>4, <1>a, <1>b, IconsKept DEF vars, tabVars, panelVars
  <1>5. CASE PanelNext /\ UNCHANGED tabVars
    <2>0. \A t \in Tabs : SameOwner(pages[t], pages'[t])
      BY <1>5, <1>a DEF tabVars
    <2>1. CASE Toggle \/ Dismiss \/ \E i \in 1..MaxShortcutCount : Activate(i)
      BY <2>0, <2>1, <1>b, IconsKept DEF Toggle, Dismiss, Activate
    <2>2. ASSUME NEW x \in Shortcuts, OnKillShortcut(x) PROVE IconInv'
      <3>1. \A y \in Shortcuts : SameOwner(shortcuts[y], shortcuts'[y])
        BY <2>2 DEF OnKillShortcut, PanelInv, AShortcut, SameOwner
      <3>2. UNCHANGED loader
        BY <2>2 DEF OnKillShortcut
      <3> QED BY <2>0, <3>1, <3>2, IconsKept
    <2>3. ASSUME NEW x \in Shortcuts, NEW pref \in ShortcutPrefs, NEW url \in IconUrls \cup {NoUrl},
                 OnNewShortcut(x, pref, url)
          PROVE  IconInv'
      <3>1. PICK pos \in Allocated(pref) :
              shortcuts' = [shortcuts EXCEPT ![x] = AShortcut("live", pref, pos, url, IconAtOnce(url))]
        BY <2>3 DEF OnNewShortcut
      <3>2. /\ shortcuts'[x].life = "live" /\ shortcuts'[x].iconUrl = url
            /\ shortcuts'[x].icon = IconAtOnce(url)
        BY <3>1 DEF PanelInv, AShortcut
      <3>3. \A y \in Shortcuts \ {x} : SameOwner(shortcuts[y], shortcuts'[y])
        BY <3>1 DEF PanelInv, SameOwner
      <3>4. shortcuts[x].life = "unborn" /\ LoadIcon(url, x)
        BY <2>3 DEF OnNewShortcut
      <3> QED BY <2>0, <3>2, <3>3, <3>4, OwnersAssumption, IconAskedInv
    <2> QED BY <1>5, <2>1, <2>2, <2>3 DEF PanelNext
  <1>6. CASE TabNext /\ UNCHANGED panelVars
    <2>0. \A x \in Shortcuts : SameOwner(shortcuts[x], shortcuts'[x])
      BY <1>6, <1>b DEF panelVars
    <2>1. CASE (\E t \in Tabs : Sweep(t) \/ Click(t)) \/ Look \/ Measure
      BY <2>0, <2>1, <1>a, IconsKept DEF Sweep, Click, Look, Measure
    <2>2. ASSUME NEW t \in Tabs,
                 OnActivateTab(t) \/ OnBlinkTab(t) \/ OnNavigateTo(t) \/ OnKillTab(t)
                   \/ OnSweptTab(t) \/ Timeout(t)
          PROVE  IconInv'
      <3>1. UNCHANGED loader
        BY <2>2 DEF OnActivateTab, OnBlinkTab, OnNavigateTo, OnKillTab, OnSweptTab, Timeout
      <3>2. \A u \in Tabs : SameOwner(pages[u], pages'[u])
        BY <2>2, KeepsOwners
      <3> QED BY <2>0, <3>1, <3>2, IconsKept
    <2>3. ASSUME NEW t \in Tabs, NEW extra \in BOOLEAN, NEW url \in IconUrls \cup {NoUrl},
                 OnNewWebTab(t, extra, url)
          PROVE  IconInv'
      BY <2>0, <2>3, NewWebTabIcon, IconAskedInv, OwnersAssumption DEF OnNewWebTab, IconInv
    <2> QED BY <1>6, <2>1, <2>2, <2>3 DEF TabNext
  <1> QED BY <1>3, <1>4, <1>5, <1>6 DEF Next

-----------------------------------------------------------------------------
(* The popup *)

\* A finite set whose members have places of their own can be written in the order
\* of these: the member with k others before it comes (k + 1)st.
LEMMA CanBeOrdered ==
  ASSUME NEW S, IsFiniteSet(S), NEW pos \in [S -> Int],
         \A x, y \in S : pos[x] = pos[y] => x = y
  PROVE  \E f \in SetToSeqs(S) : \A i, j \in 1..Cardinality(S) : i < j => pos[f[i]] < pos[f[j]]
  <1> DEFINE n == Cardinality(S)
             UpTo(x) == {y \in S : pos[y] <= pos[x]}
             rank == [x \in S |-> Cardinality(UpTo(x))]
             f == [i \in 1..n |-> CHOOSE x \in S : rank[x] = i]
  <1>1. n \in Nat /\ IsFiniteSet(1..n) /\ Cardinality(1..n) = n
    <2>1. n \in Nat
      BY FS_CardinalityType
    <2>2. IsFiniteSet(1..n) /\ Cardinality(1..n) = IF 1 > n THEN 0 ELSE n - 1 + 1
      BY <2>1, FS_Interval
    <2> QED BY <2>1, <2>2
  <1>2. ASSUME NEW x \in S
        PROVE  IsFiniteSet(UpTo(x)) /\ rank[x] \in 1..n
    <2>1. UpTo(x) \in SUBSET S /\ x \in UpTo(x)
      OBVIOUS
    <2>2. IsFiniteSet(UpTo(x)) /\ Cardinality(UpTo(x)) <= n
      BY <2>1, FS_Subset
    <2>3. Cardinality(UpTo(x)) \in Nat /\ Cardinality(UpTo(x)) # 0
      BY <2>1, <2>2, FS_CardinalityType, FS_EmptySet
    <2> QED BY <1>1, <2>2, <2>3
  <1>3. ASSUME NEW x \in S, NEW y \in S, pos[x] < pos[y]
        PROVE  rank[x] < rank[y]
    <2>1. UpTo(x) \in SUBSET UpTo(y) /\ y \in UpTo(y) /\ y \notin UpTo(x)
      BY <1>3
    <2>2. Cardinality(UpTo(x)) <= Cardinality(UpTo(y)) /\ Cardinality(UpTo(x)) # Cardinality(UpTo(y))
      BY <1>2, <2>1, FS_Subset
    <2>3. rank[x] \in 1..n /\ rank[y] \in 1..n
      BY <1>2
    <2>4. Cardinality(UpTo(x)) \in Int /\ Cardinality(UpTo(y)) \in Int
      BY <1>1, <2>3
    <2> QED BY <2>2, <2>4
  <1> HIDE DEF rank, UpTo, n
  <1>4. \A x, y \in S : rank[x] = rank[y] => x = y
    <2> SUFFICES ASSUME NEW x \in S, NEW y \in S, x # y PROVE rank[x] # rank[y]
      OBVIOUS
    <2>1. pos[x] < pos[y] \/ pos[y] < pos[x]
      OBVIOUS
    <2>2. rank[x] \in 1..n /\ rank[y] \in 1..n
      BY <1>2
    <2>3. rank[x] \in Int /\ rank[y] \in Int
      BY <1>1, <2>2
    <2> QED BY <1>3, <2>1, <2>3
  <1>5. rank \in Surjection(S, 1..n)
    <2>1. rank \in Injection(S, 1..n)
      BY <1>2, <1>4 DEF rank, Injection, IsInjective
    <2> QED BY <1>1, <2>1, FS_Injection DEF n
  <1>6. \A i \in 1..n : f[i] \in S /\ rank[f[i]] = i
    BY <1>5 DEF Surjection
  <1> HIDE DEF f
  <1>7. f \in SetToSeqs(S)
    <2>1. f \in [1..n -> S]
      BY <1>6 DEF f
    <2> QED BY <1>6, <2>1 DEF SetToSeqs, n
  <1>8. ASSUME NEW i \in 1..n, NEW j \in 1..n, i < j
        PROVE  pos[f[i]] < pos[f[j]]
    <2>1. f[i] # f[j] /\ ~(rank[f[j]] < rank[f[i]])
      BY <1>1, <1>6, <1>8
    <2>2. pos[f[i]] \in Int /\ pos[f[j]] \in Int
      BY <1>6
    <2>3. ~(pos[f[j]] < pos[f[i]])
      BY <1>3, <1>6, <2>1
    <2>4. pos[f[i]] # pos[f[j]]
      BY <1>6, <2>1
    <2> QED BY <2>2, <2>3, <2>4
  <1> QED BY <1>7, <1>8 DEF n

\* The live shortcuts are as few as their places, and there is an order to show them.
LEMMA ShortcutsInOrder ==
  ASSUME PanelInv
  PROVE  LET live  == Alive(shortcuts)
             order == DisplayOrder(shortcuts)
         IN /\ IsFiniteSet(live) /\ order \in SetToSeqs(live)
            /\ \A i, j \in 1..Cardinality(live) :
                 i < j => shortcuts[order[i]].pos < shortcuts[order[j]].pos
  <1> DEFINE live == Alive(shortcuts)
             pos == [x \in live |-> shortcuts[x].pos]
             order == DisplayOrder(shortcuts)
  <1>1. pos \in [live -> Places] /\ \A x, y \in live : pos[x] = pos[y] => x = y
    BY DEF PanelInv, PlacesSound
  <1>2. IsFiniteSet(live)
    <2>1. IsFiniteSet(Places)
      BY PanelAssumption, FS_Interval DEF Places
    <2>2. pos \in Injection(live, Places)
      BY <1>1 DEF Injection, IsInjective
    <2> QED BY <2>1, <2>2, FS_Injection
  <1>3. \A x \in live : pos[x] \in Int
    BY <1>1, PanelAssumption DEF Places
  <1>4. PICK f \in SetToSeqs(live) :
          \A i, j \in 1..Cardinality(live) : i < j => pos[f[i]] < pos[f[j]]
    <2>1. pos \in [live -> Int]
      BY <1>3
    <2> QED BY <1>1, <1>2, <2>1, CanBeOrdered
  <1>5. \A g \in SetToSeqs(live) :
          /\ g \in [1..Cardinality(live) -> live]
          /\ \A i, j \in 1..Cardinality(live) : i # j => g[i] # g[j]
    BY DEF SetToSeqs
  <1> HIDE DEF live
  <1>6. /\ order \in SetToSeqs(live)
        /\ \A i, j \in DOMAIN order : i < j => shortcuts[order[i]].pos <= shortcuts[order[j]].pos
    <2>1. \A i, j \in DOMAIN f : i < j => shortcuts[f[i]].pos <= shortcuts[f[j]].pos
      <3> SUFFICES ASSUME NEW i \in DOMAIN f, NEW j \in DOMAIN f, i < j
                   PROVE  shortcuts[f[i]].pos <= shortcuts[f[j]].pos
        OBVIOUS
      <3>1. f[i] \in live /\ f[j] \in live /\ pos[f[i]] < pos[f[j]]
        BY <1>4, <1>5
      <3>2. pos[f[i]] \in Int /\ pos[f[j]] \in Int
        BY <1>3, <3>1
      <3> QED BY <3>1, <3>2
    <2> QED BY <2>1 DEF DisplayOrder, live
  <1>7. ASSUME NEW i \in 1..Cardinality(live), NEW j \in 1..Cardinality(live), i < j
        PROVE  shortcuts[order[i]].pos < shortcuts[order[j]].pos
    <2>0. /\ order \in [1..Cardinality(live) -> live]
          /\ \A k, l \in 1..Cardinality(live) : k # l => order[k] # order[l]
      BY <1>5, <1>6
    <2> HIDE DEF order
    <2>1. order[i] \in live /\ order[j] \in live /\ order[i] # order[j]
      BY <1>2, <1>7, <2>0, FS_CardinalityType
    <2>2. pos[order[i]] <= pos[order[j]] /\ pos[order[i]] # pos[order[j]]
      BY <1>1, <1>6, <1>7, <2>0, <2>1
    <2>3. pos[order[i]] \in Int /\ pos[order[j]] \in Int
      BY <1>3, <2>1
    <2> QED BY <2>1, <2>2, <2>3
  <1> QED BY <1>2, <1>6, <1>7 DEF live

\* The buttons are those of the shortcuts there are, the launcher counts them, and
\* the popup is not open over nothing.
PopupInv ==
  /\ popup = Rebuilt(shortcuts)
  /\ launcher = Cardinality(Alive(shortcuts))
  /\ open \in BOOLEAN /\ (open => Alive(shortcuts) # {})

LEMMA PopupInitInv == Init => PopupInv
  <1> SUFFICES ASSUME Init PROVE PopupInv
    OBVIOUS
  <1>1. Alive(shortcuts) = {}
    BY DEF Init, PanelInit, Alive, AShortcut
  <1>2. Cardinality(Alive(shortcuts)) = 0
    BY <1>1, FS_EmptySet
  <1>3. DisplayOrder(shortcuts) \in SetToSeqs(Alive(shortcuts))
    BY IconInitInv, ShortcutsInOrder
  <1>4. DOMAIN DisplayOrder(shortcuts) = {}
    BY <1>2, <1>3 DEF SetToSeqs
  <1>5. Rebuilt(shortcuts) = <<>>
    BY <1>4 DEF Rebuilt
  <1> QED BY <1>1, <1>2, <1>5 DEF Init, PanelInit, PopupInv

LEMMA PopupStepInv ==
  ASSUME PanelInv, PopupInv, [Next]_vars
  PROVE  PopupInv'
  <1>1. ASSUME UNCHANGED <<shortcuts, popup, launcher>>, open' \in BOOLEAN,
               open' => open \/ Alive(shortcuts) # {}
        PROVE  PopupInv'
    BY <1>1 DEF PopupInv, Rebuilt, DisplayOrder, Alive
  <1>2. ASSUME NEW ss, shortcuts' = ss, popup' = Rebuilt(ss), Relaunch(ss)
        PROVE  PopupInv'
    BY <1>2, Zenon DEF PopupInv, Relaunch
  <1>3. CASE UNCHANGED panelVars
    BY <1>1, <1>3 DEF panelVars, PopupInv
  <1>4. ASSUME NEW x \in Shortcuts, NEW pref, NEW url, OnNewShortcut(x, pref, url)
        PROVE  PopupInv'
    BY <1>2, <1>4 DEF OnNewShortcut
  <1>5. ASSUME NEW x \in Shortcuts, OnKillShortcut(x)
        PROVE  PopupInv'
    BY <1>2, <1>5 DEF OnKillShortcut
  <1>6. CASE Toggle
    <2>1. /\ UNCHANGED <<shortcuts, launcher>> /\ open' \in BOOLEAN /\ Alive(shortcuts) # {}
          /\ popup' = IF open THEN popup ELSE Rebuilt(shortcuts)
      BY <1>6 DEF Toggle
    <2>2. popup' = popup
      BY <2>1 DEF PopupInv
    <2> QED BY <1>1, <2>1, <2>2
  <1>7. CASE Dismiss
    BY <1>1, <1>7 DEF Dismiss
  <1>8. ASSUME NEW i, Activate(i)
        PROVE  PopupInv'
    BY <1>1, <1>8 DEF Activate
  <1>9. ASSUME NEW url, NEW icon, IconReply(url, icon)
        PROVE  PopupInv'
    <2> DEFINE waiting == pending[url] \cap Alive(shortcuts)
    <2>1. ShortcutIcons(url, icon) /\ UNCHANGED <<launcher, open>>
      BY <1>9 DEF IconReply
    <2>2. Alive(shortcuts') = Alive(shortcuts)
      BY <2>1 DEF ShortcutIcons, Alive, AShortcut, PanelInv
    <2>3. popup' = Rebuilt(shortcuts')
      <3>1. CASE waiting = {}
        <4>1. shortcuts' = [x \in Shortcuts |-> shortcuts[x]]
          BY <2>1, <3>1 DEF ShortcutIcons
        <4>2. shortcuts' = shortcuts
          BY <4>1 DEF PanelInv
        <4> QED BY <2>1, <3>1, <4>2 DEF ShortcutIcons, PopupInv
      <3>2. CASE waiting # {}
        BY <2>1, <3>2 DEF ShortcutIcons
      <3> QED BY <3>1, <3>2
    <2> QED BY <2>1, <2>2, <2>3, Zenon DEF PopupInv
  <1> QED BY <1>3, <1>4, <1>5, <1>6, <1>7, <1>8, <1>9 DEF Next, PanelNext, vars

-----------------------------------------------------------------------------
(* The theorems *)

ScreenInv == TabInv /\ PanelInv /\ IconInv

LEMMA ScreenAlways == Spec => []ScreenInv
  <1>1. Init => ScreenInv
    BY TabInitInv, IconInitInv DEF ScreenInv
  <1>2. ScreenInv /\ [Next]_vars => ScreenInv'
    BY TabStepInv, PanelStepInv, IconStepInv DEF ScreenInv, IconInv
  <1> QED BY <1>1, <1>2, PTL DEF Spec

\* For any number of tabs and icons: a tab wears its own icon, or is dark because it
\* blinks, and is never left dark (stopBlink, syncTabOrder, the timer's lambda).
THEOREM TabsWearTheirIcons == Spec => []FacesTrue
  <1>1. TabInv => FacesTrue
    BY DEF TabInv, FaceSound, FacesTrue
  <1> QED BY <1>1, ScreenAlways, PTL DEF ScreenInv

\* The page in front blinks only if it came there without being activated
\* (onActivateTab, onBlinkTab, QTabWidget::removeTab).
THEOREM AttentionEndsInFront == Spec => []BlinksInFrontOnlyUnasked
  <1>1. TabInv => BlinksInFrontOnlyUnasked
    BY DEF TabInv
  <1> QED BY <1>1, ScreenAlways, PTL DEF ScreenInv

\* The bar holds the pages that are not in the extra zone, each once, and shows one.
THEOREM BarHoldsThePages == Spec => []BarTrue
  <1>1. TabInv => BarTrue
    BY DEF TabInv, BarSound, FrontSound, BarTrue
  <1> QED BY <1>1, ScreenAlways, PTL DEF ScreenInv

\* No request takes away the page whose size the server thread reads (gui.cpp,
\* GetCharacteristics); only a kill that was queued can.
THEOREM RequestsSpareTheMeasured == Spec => []MeasuredUnlessSwept
  <1>1. TabInv => MeasuredUnlessSwept
    BY DEF TabInv
  <1> QED BY <1>1, ScreenAlways, PTL DEF ScreenInv

\* Nothing but a tap, an activation or its removal takes a page from the front.
THEOREM FrontKept == Spec => FrontStays
  <1> DEFINE Kept == current # NoTab /\ current' # current =>
                       pages'[current].life # "live" \/ how' \in {"asked", "clicked"}
  <1>1. ASSUME TabInv, LoaderOK, [Next]_vars PROVE [Kept]_<<tabVars, loader>>
    <2> SUFFICES ASSUME current # NoTab, current' # current
                 PROVE  pages'[current].life # "live" \/ how' \in {"asked", "clicked"}
      OBVIOUS
    <2>1. PICK t \in Tabs :
            \/ \E extra \in BOOLEAN, url \in IconUrls \cup {NoUrl} : OnNewWebTab(t, extra, url)
            \/ OnActivateTab(t) \/ OnKillTab(t) \/ OnSweptTab(t) \/ Click(t)
      BY <1>1 DEF Next, vars, tabVars, TabNext, OnBlinkTab, OnNavigateTo, Timeout, Sweep, Look,
        Measure, IconReply
    <2>2. CASE \E extra \in BOOLEAN, url \in IconUrls \cup {NoUrl} : OnNewWebTab(t, extra, url)
      BY <1>1, <2>2 DEF OnNewWebTab, FirstTab, TabInv, FrontSound
    <2>3. CASE OnActivateTab(t) \/ Click(t)
      BY <2>3 DEF OnActivateTab, Click, BringToFront
    <2>4. ASSUME NEW why \in {"killed", "swept"}, Destroy(t, why)
          PROVE  pages'[current].life # "live"
      <3> DEFINE page == APage(why, FALSE, NoUrl, NoIcon)
                 gone == [pages EXCEPT ![t] = page]
      <3>1. page.life = why
        BY DEF APage
      <3> HIDE DEF page
      <3>2. current = t /\ pages \in [Tabs -> Page]
        BY <1>1, <2>4 DEF Destroy, Removed, TabInv, TabTypeOK
      <3>3. pages' = gone \/ pages' = Synced(gone)
        BY <2>4 DEF Destroy, page
      <3>4. gone[t].life # "live"
        BY <3>1, <3>2
      <3> HIDE DEF gone
      <3>5. pages'[t] = gone[t]
        BY <3>3, <3>4 DEF Synced
      <3> QED BY <3>2, <3>4, <3>5
    <2>5. CASE OnKillTab(t)
      BY <2>4, <2>5 DEF OnKillTab
    <2>6. CASE OnSweptTab(t)
      BY <2>4, <2>6 DEF OnSweptTab
    <2> QED BY <2>1, <2>2, <2>3, <2>5, <2>6
  <1>2. TabInv /\ LoaderOK /\ [Next]_vars => [Kept]_<<tabVars, loader>>
    BY <1>1
  <1> QED BY <1>2, ScreenAlways, PTL DEF FrontStays, ScreenInv, IconInv, Spec

\* Every shortcut has a place of its own, the one it asked for if that is a place
\* (allocateShortcutPosition).
THEOREM PlacesOfTheirOwn == Spec => []PlacesSound
  <1>1. PanelInv => PlacesSound
    BY DEF PanelInv
  <1> QED BY <1>1, ScreenAlways, PTL DEF ScreenInv

\* Whoever asked for an icon has what the loader has, or waits for a reply that is
\* under way (IconLoader::loadIcon).
THEOREM NobodyForgotten == Spec => []IconsSettled
  <1>1. IconInv => IconsSettled
    BY DEF IconInv
  <1> QED BY <1>1, ScreenAlways, PTL DEF ScreenInv

\* For any number of shortcuts: what the user can tap is what there is
\* (rebuildShortcutPopup, updateShortcutLauncherState).
THEOREM ButtonsAreTheShortcuts == Spec => []PopupTrue
  <1>1. PanelInv /\ PopupInv => PopupTrue
    <2> SUFFICES ASSUME PanelInv, PopupInv PROVE PopupTrue
      OBVIOUS
    <2> DEFINE live  == Alive(shortcuts)
               n == Cardinality(live)
               order == DisplayOrder(shortcuts)
    <2>1. /\ IsFiniteSet(live) /\ order \in SetToSeqs(live)
          /\ \A i, j \in 1..n : i < j => shortcuts[order[i]].pos < shortcuts[order[j]].pos
      BY ShortcutsInOrder
    <2>2. n \in Nat /\ order \in [1..n -> live] /\ \A i, j \in 1..n : i # j => order[i] # order[j]
      BY <2>1, FS_CardinalityType DEF SetToSeqs
    <2>3. \A x \in live : \E i \in 1..n : order[i] = x
      <3>1. order \in Surjection(1..n, live)
        <4>1. order \in Injection(1..n, live)
          BY <2>2 DEF Injection, IsInjective
        <4>2. IsFiniteSet(1..n) /\ Cardinality(1..n) = IF 1 > n THEN 0 ELSE n - 1 + 1
          BY <2>2, FS_Interval
        <4>3. Cardinality(1..n) = n
          BY <2>2, <4>2
        <4> QED BY <2>1, <4>1, <4>3, FS_Injection
      <3> QED BY <3>1 DEF Surjection
    <2>4. popup = [i \in 1..n |-> Button(order[i], shortcuts[order[i]])]
      BY <2>2 DEF PopupInv, Rebuilt
    <2> HIDE DEF order
    <2>5. Len(popup) = n /\ DOMAIN popup = 1..n
      BY <2>2, <2>4
    <2>6. \A x \in live : \E i \in DOMAIN popup : popup[i] = Button(x, shortcuts[x])
      BY <2>3, <2>4, <2>5
    <2>7. \A i, j \in DOMAIN popup : i < j => popup[i].pos < popup[j].pos
      BY <2>1, <2>4, <2>5 DEF Button
    <2>8. open => popup # <<>>
      <3> SUFFICES ASSUME open PROVE n # 0
        BY <2>5
      <3> QED BY <2>1, FS_EmptySet DEF PopupInv
    <2> QED BY <2>5, <2>6, <2>7, <2>8 DEF PopupTrue, PopupInv
  <1>2. ScreenInv /\ PopupInv /\ [Next]_vars => PopupInv'
    BY PopupStepInv DEF ScreenInv
  <1> QED BY <1>1, <1>2, PopupInitInv, ScreenAlways, PTL DEF Spec, ScreenInv
=============================================================================
