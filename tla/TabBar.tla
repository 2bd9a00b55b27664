------------------------------- MODULE TabBar -------------------------------
(***************************************************************************)
(* What the user sees of the tabs (Browser.cpp): which page is in front,   *)
(* which tabs blink, and the face each tab wears, its icon or, while it    *)
(* blinks, nothing on red.  Clients activate and blink tabs, the user taps *)
(* them, timers fire, icons arrive; each may come between any two others.  *)
(*                                                                         *)
(* TabLifecycle says when pages come and go, TabLayout in which order they *)
(* stand; here a page that comes may find a place or not, and may change   *)
(* the order of the bar.  A request that is waited for is one step, since  *)
(* nothing the server thread does comes between its post and its answer.   *)
(* The kills nobody waits for stay in the queue (due) and are ahead of any *)
(* later request.                                                          *)
(***************************************************************************)
EXTENDS Naturals, Sequences, FiniteSets, Functions, IconLoader

CONSTANTS
  Tabs,   \* uuids: each is used once
  NoTab,  \* no page
  Dark    \* the face of a blinking tab every other half second

ASSUME TabAssumption == IsFiniteSet(Tabs) /\ NoTab \notin Tabs /\ Dark \notin Icons

VARIABLES
  pages,    \* uuid -> the BrowserPage and the tab that shows it
  bar,      \* the tabs of the QTabWidget, from left to right
  current,  \* its currentWidget
  how,      \* history: how that came to be in front
  overlay,  \* extraFrame is shown
  due,      \* queued kills nobody waits for
  looking   \* the page whose size the server thread is reading, or NoTab

threads == <<due, looking>>
tabVars == <<pages, bar, current, how, overlay, threads>>

\* A page that was destroyed was killed for a client or, with none waiting, swept.
Lives == {"unborn", "live", "killed", "swept"}

Page == [life : Lives, extra : BOOLEAN,
         iconUrl : IconUrls \cup {NoUrl}, icon : Icons,
         blinking : BOOLEAN,   \* blinkTimer is active
         visible : BOOLEAN,    \* blinkVisible
         face : Icons \cup {Dark}]  \* icon and colour of its tab

TabTypeOK ==
  /\ pages \in [Tabs -> Page]
  /\ bar \in Seq(Tabs)
  /\ current \in Tabs \cup {NoTab}
  /\ how \in {"none", "first", "asked", "clicked", "neighbour"}
  /\ overlay \in BOOLEAN
  /\ due \subseteq Tabs /\ looking \in Tabs \cup {NoTab}

Live   == {t \in Tabs : pages[t].life = "live"}
Normal == {t \in Live : ~pages[t].extra}
Extra  == Live \ Normal

APage(life, extra, url, icon) ==
  [life |-> life, extra |-> extra, iconUrl |-> url, icon |-> icon,
   blinking |-> FALSE, visible |-> TRUE, face |-> IF extra THEN NoIcon ELSE icon]

TabInit ==
  /\ pages = [t \in Tabs |-> APage("unborn", FALSE, NoUrl, NoIcon)]
  /\ bar = <<>> /\ current = NoTab /\ how = "none" /\ overlay = FALSE
  /\ due = {} /\ looking = NoTab

-----------------------------------------------------------------------------
(* Helpers *)

\* page with its timer, flag, icon and face as given.
Shown(page, blinking, visible, icon, face) ==
  [life |-> page.life, extra |-> page.extra, iconUrl |-> page.iconUrl, icon |-> icon,
   blinking |-> blinking, visible |-> visible, face |-> face]

\* applyPageIcon: a page of the extra zone has no tab to wear it.
WithIcon(page) ==
  Shown(page, page.blinking, page.visible, page.icon,
        IF page.extra THEN page.face ELSE page.icon)

\* stopBlink
Stopped(page) == WithIcon(Shown(page, FALSE, TRUE, page.icon, page.face))

\* Faulty: the tabs that are dark get their icons too.
SyncedAll(ps) == [t \in Tabs |-> IF t \in Normal THEN WithIcon(ps[t]) ELSE ps[t]]

\* The second loop of syncTabOrder.
Synced(ps) ==
  [t \in Tabs |-> IF ps[t].life = "live" /\ ~ps[t].extra /\ ps[t].visible
                    THEN WithIcon(ps[t]) ELSE ps[t]]

\* The orders the pages of S may stand in, which is TabLayout's concern.
Arrangements(S) == Bijection(1..Cardinality(S), S)

BringToFront(t, why) == current' = t /\ how' = why

\* Faulty: a request is carried out while the server thread is busy.
AwaitedOnlyKills == due = {}

\* The server thread waits for one answer at a time, and the kills it has posted
\* before are ahead in the queue.
Awaited == due = {} /\ looking = NoTab

-----------------------------------------------------------------------------
(* The slots of the GUI thread *)

\* Faulty: a new tab comes to the front.
FirstTabAny == TRUE

\* onNewWebTab: normalPageCount() is 1.
FirstTab == bar = <<>>

\* onNewWebTab, for a page that finds a place; one that does not changes nothing.
OnNewWebTab(t, extra, url) ==
  /\ Awaited /\ pages[t].life = "unborn"
  /\ extra => Extra = {}
  /\ LET born == [pages EXCEPT ![t] = APage("live", extra, url, IconAtOnce(url))]
     IN IF extra
        THEN pages' = born /\ UNCHANGED <<bar, current, how>>
        ELSE /\ pages' = Synced(born)
             /\ bar' \in Arrangements(Normal \cup {t})
             /\ IF FirstTab THEN BringToFront(t, "first") ELSE UNCHANGED <<current, how>>
  /\ LoadIcon(url, t)
  /\ UNCHANGED <<overlay, threads>>

\* onActivateTab
OnActivateTab(t) ==
  /\ Awaited /\ t \in Live
  /\ pages' = [pages EXCEPT ![t] = Stopped(pages[t])]
  /\ IF pages[t].extra
     THEN overlay' = TRUE /\ UNCHANGED <<current, how>>
     ELSE BringToFront(t, "asked") /\ UNCHANGED overlay
  /\ UNCHANGED <<bar, threads, loader>>

\* Faulty: the tab in front is made to blink like any other.
OnBlinkTabAny(t) ==
  /\ Awaited /\ t \in Live /\ ~pages[t].extra
  /\ pages' = [pages EXCEPT ![t] = Shown(pages[t], TRUE, TRUE, pages[t].icon, pages[t].face)]
  /\ UNCHANGED <<overlay, bar, current, how, threads, loader>>

\* onBlinkTab: the tab in front has nothing to call attention to.  One that blinks
\* already begins its interval anew and keeps the face it has.
OnBlinkTab(t) ==
  /\ Awaited /\ t \in Live
  /\ IF pages[t].extra
     THEN overlay' = TRUE /\ UNCHANGED pages
     ELSE /\ pages' = IF current = t THEN pages ELSE
               [pages EXCEPT ![t] = Shown(pages[t], TRUE, TRUE, pages[t].icon, pages[t].face)]
          /\ UNCHANGED overlay
  /\ UNCHANGED <<bar, current, how, threads, loader>>

\* onNavigateTo of a page that asked for a third: it may change its place, and
\* others with it.  For any other page nothing changes here.
OnNavigateTo(t) ==
  /\ Awaited /\ t \in Normal
  /\ pages' = Synced(pages)
  /\ bar' \in Arrangements(Normal)
  /\ UNCHANGED <<current, how, overlay, threads, loader>>

\* QTabWidget::removeTab: the tab to the right comes to the front, or the last.
Removed(t) ==
  LET at   == CHOOSE i \in DOMAIN bar : bar[i] = t
      rest == [i \in 1..(Len(bar) - 1) |-> bar[IF i < at THEN i ELSE i + 1]]
  IN /\ bar' = rest
     /\ IF current # t THEN UNCHANGED <<current, how>>
        ELSE IF rest = <<>> THEN BringToFront(NoTab, "none")
        ELSE BringToFront(rest[IF at <= Len(rest) THEN at ELSE Len(rest)], "neighbour")

\* onKillTab of a page that is destroyed.
Destroy(t, why) ==
  LET gone == [pages EXCEPT ![t] = APage(why, FALSE, NoUrl, NoIcon)]
  IN IF pages[t].extra
     THEN pages' = gone /\ overlay' = FALSE /\ UNCHANGED <<bar, current, how>>
     ELSE pages' = Synced(gone) /\ Removed(t) /\ UNCHANGED overlay

\* onKillTab for a client: the extra page is only hidden.
OnKillTab(t) ==
  /\ Awaited /\ t \in Live
  /\ IF pages[t].extra
     THEN /\ overlay' = FALSE
          /\ pages' = [pages EXCEPT ![t] = Stopped(pages[t])]
          /\ UNCHANGED <<bar, current, how>>
     ELSE Destroy(t, "killed")
  /\ UNCHANGED <<threads, loader>>

\* onKillTab with no answer awaited.
OnSweptTab(t) ==
  /\ t \in due /\ due' = due \ {t}
  /\ Destroy(t, "swept")
  /\ UNCHANGED <<looking, loader>>

-----------------------------------------------------------------------------
(* Timers, icons and the user *)

\* The lambda of QTimer::timeout.
Timeout(t) ==
  /\ t \in Normal /\ pages[t].blinking
  /\ pages' = [pages EXCEPT ![t] =
       Shown(pages[t], TRUE, ~pages[t].visible, pages[t].icon,
             IF pages[t].visible THEN Dark ELSE pages[t].icon)]
  /\ UNCHANGED <<bar, current, how, overlay, threads, loader>>

\* The callbacks of the tabs that waited for an icon: those that are gone are not
\* in list, and a dark tab shows it when it next lights up.
TabIcons(url, icon) ==
  pages' = [t \in Tabs |->
    IF t \in pending[url] \cap Live
      THEN LET has == Shown(pages[t], pages[t].blinking, pages[t].visible, icon, pages[t].face)
           IN IF has.visible THEN WithIcon(has) ELSE has
      ELSE pages[t]]

\* The user taps a tab; Browser does not hear of it.
Click(t) ==
  /\ t \in Normal /\ current # t
  /\ BringToFront(t, "clicked")
  /\ UNCHANGED <<pages, bar, overlay, threads, loader>>

-----------------------------------------------------------------------------
(* The server thread *)

\* pruneExpiredTabs or eraseOwnedTabs, for one of the tabs.
Sweep(t) ==
  /\ looking = NoTab /\ t \in Live \ due
  /\ due' = due \cup {t}
  /\ UNCHANGED <<pages, bar, current, how, overlay, looking, loader>>

\* Gui::GetCharacteristics, on the server thread: it takes the pointer to the page
\* in front ...
Look ==
  /\ looking = NoTab /\ current # NoTab
  /\ looking' = current
  /\ UNCHANGED <<pages, bar, current, how, overlay, due, loader>>

\* ... and asks it for its size, while the GUI thread goes on.
Measure ==
  /\ looking # NoTab /\ looking' = NoTab
  /\ UNCHANGED <<pages, bar, current, how, overlay, due, loader>>

TabNext ==
  \/ \E t \in Tabs :
       \/ \E extra \in BOOLEAN, url \in IconUrls \cup {NoUrl} : OnNewWebTab(t, extra, url)
       \/ OnActivateTab(t) \/ OnBlinkTab(t) \/ OnNavigateTo(t) \/ OnKillTab(t)
       \/ OnSweptTab(t) \/ Timeout(t) \/ Click(t) \/ Sweep(t)
  \/ Look \/ Measure

-----------------------------------------------------------------------------
(* Properties *)

\* A tab wears the icon of its own page, or is dark because it blinks; it is never
\* left dark when its blinking has ended, whatever timers, icons, reorderings and
\* repeated requests came in between (Browser.cpp, stopBlink and syncTabOrder).
FacesTrue ==
  \A t \in Normal :
    /\ pages[t].face \in {pages[t].icon, Dark}
    /\ pages[t].face = Dark => pages[t].blinking
    /\ ~pages[t].visible => pages[t].face = Dark

\* The bar holds the pages that are not in the extra zone, each once, and one of
\* them is in front as long as there is one.
BarTrue ==
  /\ \A t \in Tabs : t \in Normal <=> \E i \in DOMAIN bar : bar[i] = t
  /\ \A i, j \in DOMAIN bar : bar[i] = bar[j] => i = j
  /\ IF bar = <<>> THEN current = NoTab ELSE current \in Normal

\* A page the user looks at blinks only if it came to the front without being
\* activated: by his tap, of which Browser does not hear, or because the page in
\* front of it was removed.
BlinksInFrontOnlyUnasked ==
  current # NoTab /\ pages[current].blinking => how \in {"clicked", "neighbour"}

\* Whatever page the user looks at stays in front until he taps another, another is
\* activated, or it is removed: no new, moved or blinking tab takes its place.
FrontStays ==
  [][current # NoTab /\ current' # current =>
       pages'[current].life # "live" \/ how' \in {"asked", "clicked"}]_<<tabVars, loader>>

\* GetCharacteristics reads the size of a page on the server thread, without a
\* lock (gui.cpp 389-396).  The page it reads may be gone by then, but only by a
\* kill nobody waits for: a request never takes it away.
MeasuredUnlessSwept == looking # NoTab => pages[looking].life \in {"live", "swept"}
=============================================================================
