------------------------------ MODULE TabLayout ------------------------------
(***************************************************************************)
(* Where the GUI thread puts the tabs (Browser.cpp).  A page has a logical *)
(* position, the slot of MAX_TABS it answers GetTabMap with; the bar shows *)
(* the pages in the order of their positions, labelled with them.  A page  *)
(* may ask for any slot, for one slot, for the extra zone or for a third   *)
(* of the bar, where the pages that asked for that third are kept in the   *)
(* order of their URLs: a new one, or a new URL, may move the others.      *)
(*                                                                         *)
(* TabLifecycle says when pages come and go; this module is the same four  *)
(* slots seen from inside, one request at a time, as the GUI thread is.    *)
(***************************************************************************)
EXTENDS Integers, Sequences, FiniteSets, SequencesExt

CONSTANTS
  Uuids,      \* ids of tabs: numbers, for they are compared
  Urls,       \* the same for URLs
  MaxTabs,    \* MAX_TABS
  Prefs,      \* the values of preferredPos clients send
  Garbage     \* what an int read past the end of a vector may hold

ASSUME LayoutAssumption ==
  /\ Uuids \subseteq Int /\ Urls \subseteq Int /\ Prefs \subseteq Int
  /\ Garbage \subseteq Int /\ Garbage # {} /\ MaxTabs \in Nat

POS_ANY       == -1
POS_BEGINNING == -2
POS_MIDDLE    == -3
POS_END       == -4
POS_EXTRA     == -10
ZonePrefs     == {POS_BEGINNING, POS_MIDDLE, POS_END}
Slots         == 0..(MaxTabs - 1)

VARIABLES
  pages,    \* Browser::list: uuid -> url, preferredPos, logicalPos, label of its tab
  bar,      \* the tabs of the QTabWidget, from left to right
  overrun,  \* candidatePositions has been read outside its bounds
  last      \* the request handled last, and its answer

vars == <<pages, bar, overrun, last>>

Places == Slots \cup {POS_EXTRA} \cup Garbage

Page == [url : Urls, pref : Prefs, pos : Places, label : Int]

TypeOK ==
  /\ DOMAIN pages \subseteq Uuids /\ pages \in [DOMAIN pages -> Page]
  /\ bar \in Seq(Uuids)
  /\ overrun \in BOOLEAN
  /\ last \in [op : {"none", "NewWebTab", "KillTab", "NavigateTo"}, id : Int, pref : Int,
               ret : {"OK", "EXEC_ERROR", "TAB_NOT_FOUND"}]

Init ==
  /\ pages = [t \in {} |-> 0] /\ bar = <<>> /\ overrun = FALSE
  /\ last = [op |-> "none", id |-> 0, pref |-> 0, ret |-> "OK"]

Answer(op, t, pref, ret) == last' = [op |-> op, id |-> t, pref |-> pref, ret |-> ret]

-----------------------------------------------------------------------------
(* Positions.  The operators take the map of pages they work on as ps. *)

Normal(ps)   == {t \in DOMAIN ps : ps[t].pref # POS_EXTRA}
HasExtra(ps) == \E t \in DOMAIN ps : ps[t].pref = POS_EXTRA

\* zoneStart .. zoneEnd
Zone(pref) ==
  LET third == MaxTabs \div 3
  IN IF pref = POS_BEGINNING THEN 0..(third - 1)
     ELSE IF pref = POS_MIDDLE THEN third..(2 * third - 1)
     ELSE (2 * third)..(MaxTabs - 1)

\* pageUrlLess
UrlLess(ps, t, u) ==
  ps[t].url < ps[u].url \/ (ps[t].url = ps[u].url /\ t < u)

Occupied(ps) == {ps[t].pos : t \in DOMAIN ps}

\* Mutated form of Free: the first slot is never looked at.
FreeButFirst(ps, range) == (range \ {0}) \ Occupied(ps)

\* freePositionsInRange
Free(ps, range) == range \ Occupied(ps)

\* front() of a sorted vector, if there is one.
First(S) == {x \in S : \A y \in S : x <= y}

At(page, pos) == [url |-> page.url, pref |-> page.pref, pos |-> pos, label |-> page.label]

\* ps with the positions of f.
Moved(ps, f) == [t \in DOMAIN ps |-> IF t \in DOMAIN f THEN At(ps[t], f[t]) ELSE ps[t]]

\* Mutated form of Mates: whatever stands in the third is rearranged.
MatesOfAnyPref(ps, t) == {u \in DOMAIN ps : ps[u].pos \in Zone(ps[t].pref)} \cup {t}

\* The pages allocateZonePosition orders, t among them.
Mates(ps, t) ==
  {u \in DOMAIN ps : ps[u].pref = ps[t].pref /\ ps[u].pos \in Zone(ps[t].pref)} \cup {t}

\* The slots it may give them: those they have and those that are free.
Candidates(ps, t) ==
  LET zone == Zone(ps[t].pref)
  IN Free(ps, zone) \cup {ps[u].pos : u \in {v \in Mates(ps, t) : ps[v].pos \in zone}}

\* The first of the candidates, or the last for POS_END, as many as there are mates.
Chosen(ps, t) ==
  LET cands == Candidates(ps, t)
      Better(c, d) == IF ps[t].pref = POS_END THEN d > c ELSE d < c
  IN {c \in cands : Cardinality({d \in cands : Better(c, d)}) < Cardinality(Mates(ps, t))}

\* The ways to give the pages of group slots in the order of their URLs.
InOrder(ps, group, slots) ==
  {f \in [group -> slots] : \A t, u \in group : UrlLess(ps, t, u) => f[t] < f[u]}

\* There are more mates than candidates: the vector is read past its end, or from
\* before its beginning for POS_END, whose slice is sorted once more.
Outside(ps, t) == Cardinality(Mates(ps, t)) > Cardinality(Candidates(ps, t))

ReadOutside(ps, t, stray) ==
  LET mates == SetToSortSeq(Mates(ps, t), LAMBDA u, v : UrlLess(ps, u, v))
      cands == SetToSortSeq(Candidates(ps, t), <)
      slots == IF ps[t].pref = POS_END THEN SortSeq(<<stray>> \o cands, <)
                                       ELSE Append(cands, stray)
  IN [u \in Mates(ps, t) |-> slots[CHOOSE i \in DOMAIN mates : mates[i] = u]]

\* allocateZonePosition: the new positions it may give, none when it returns false.
AllocateZone(ps, t) ==
  IF Candidates(ps, t) = {} THEN {}
  ELSE IF Outside(ps, t) THEN {ReadOutside(ps, t, stray) : stray \in Garbage}
  ELSE InOrder(ps, Mates(ps, t), Chosen(ps, t))

\* Mutated form of AllocateAbsolute: the slot may be taken.
AllocateAbsoluteTaken(ps, t) ==
  IF ps[t].pref \in Slots THEN {[u \in {t} |-> ps[t].pref]} ELSE {}

\* allocateAbsolutePosition
AllocateAbsolute(ps, t) ==
  IF ps[t].pref \in Slots /\ \A u \in DOMAIN ps \ {t} : ps[u].pos # ps[t].pref
  THEN {[u \in {t} |-> ps[t].pref]} ELSE {}

\* allocateLogicalPosition
Allocate(ps, t) ==
  IF ps[t].pref = POS_ANY
  THEN {[u \in {t} |-> pos] : pos \in First(Free(ps, Slots))}
  ELSE IF ps[t].pref \in ZonePrefs THEN AllocateZone(ps, t)
  ELSE IF ps[t].pref = POS_EXTRA THEN {[u \in {t} |-> POS_EXTRA]}
  ELSE AllocateAbsolute(ps, t)

Overruns(ps, t) ==
  ps[t].pref \in ZonePrefs /\ Candidates(ps, t) # {} /\ Outside(ps, t)

-----------------------------------------------------------------------------
(* The bar. *)

\* pagesInDisplayOrder
DisplayOrder(ps) ==
  CHOOSE order \in SetToSeqs(Normal(ps)) :
    \A i, j \in DOMAIN order :
      i < j => \/ ps[order[i]].pos < ps[order[j]].pos
               \/ ps[order[i]].pos = ps[order[j]].pos /\ order[i] < order[j]

\* QTabWidget::indexOf, from 1, and 0 for a tab the bar does not have.
TabIndex(b, t) == IF t \in ToSet(b) THEN CHOOSE i \in DOMAIN b : b[i] = t ELSE 0

\* QTabWidget::removeTab
RemoveTab(b, t) == IF TabIndex(b, t) > 0 THEN RemoveAt(b, TabIndex(b, t)) ELSE b

\* QTabBar::moveTab
MoveTab(b, from, to) == InsertAt(RemoveAt(b, from), to, b[from])

\* A turn of syncTabOrder's first loop: the page is moved to its index.
Put(b, order, i) ==
  LET current == TabIndex(b, order[i])
  IN IF current > 0 /\ current # i THEN MoveTab(b, current, i) ELSE b

\* The first loop of syncTabOrder, page by page.
Synced(b, ps) ==
  LET order == DisplayOrder(ps)
      bars[i \in 0..Len(order)] == IF i = 0 THEN b ELSE Put(bars[i - 1], order, i)
  IN bars[Len(order)]

WithLabel(page) ==
  [url |-> page.url, pref |-> page.pref, pos |-> page.pos, label |-> page.pos + 1]

\* Mutated form of Labelled: only the page that asked gets its label.
LabelledOne(ps, t) == [u \in DOMAIN ps |-> IF u = t THEN WithLabel(ps[u]) ELSE ps[u]]

\* Its second loop, with applyPageLabel.
Labelled(ps, t) ==
  [u \in DOMAIN ps |-> IF ps[u].pref = POS_EXTRA THEN ps[u] ELSE WithLabel(ps[u])]

-----------------------------------------------------------------------------
(* The requests.  Once a vector has been read outside its bounds the code has *)
(* no defined behaviour, and the model stops.                                 *)

HasRoom(pref) ==
  IF pref = POS_EXTRA THEN ~HasExtra(pages) ELSE Cardinality(Normal(pages)) < MaxTabs

\* The page as onNewWebTab enters it in list, before it has a position.
Entered(t, url, pref) ==
  [u \in DOMAIN pages \cup {t} |->
     IF u = t THEN [url |-> url, pref |-> pref, pos |-> -1, label |-> 0] ELSE pages[u]]

NewWebTab(t, url, pref) ==
  /\ ~overrun /\ t \notin DOMAIN pages
  /\ LET entered == Entered(t, url, pref)
     IN \/ /\ ~HasRoom(pref) \/ Allocate(entered, t) = {}
           /\ Answer("NewWebTab", t, pref, "EXEC_ERROR")
           /\ UNCHANGED <<pages, bar, overrun>>
        \/ /\ HasRoom(pref)
           /\ \E f \in Allocate(entered, t) :
                LET placed == Moved(entered, f)
                IN IF pref = POS_EXTRA THEN pages' = placed /\ UNCHANGED bar
                   ELSE pages' = Labelled(placed, t) /\ bar' = Synced(Append(bar, t), placed)
           /\ overrun' = Overruns(entered, t)
           /\ Answer("NewWebTab", t, pref, "OK")

\* onKillTab of a page that is destroyed.
KillTab(t) ==
  /\ ~overrun
  /\ \/ /\ t \notin DOMAIN pages
        /\ Answer("KillTab", t, 0, "TAB_NOT_FOUND") /\ UNCHANGED <<pages, bar>>
     \/ /\ t \in DOMAIN pages
        /\ LET left == [u \in DOMAIN pages \ {t} |-> pages[u]]
           IN IF pages[t].pref = POS_EXTRA THEN pages' = left /\ UNCHANGED bar
              ELSE pages' = Labelled(left, t) /\ bar' = Synced(RemoveTab(bar, t), left)
        /\ Answer("KillTab", t, pages[t].pref, "OK")
  /\ UNCHANGED overrun

\* The pages once t shows url.
Navigated(t, url) ==
  [u \in DOMAIN pages |-> IF u = t
     THEN [url |-> url, pref |-> pages[t].pref, pos |-> pages[t].pos, label |-> pages[t].label]
     ELSE pages[u]]

\* Mutated form of NavigateTo: the page keeps its place.
NavigateToInPlace(t, url) ==
  /\ ~overrun
  /\ IF t \in DOMAIN pages
     THEN pages' = Navigated(t, url) /\ Answer("NavigateTo", t, pages[t].pref, "OK")
     ELSE Answer("NavigateTo", t, 0, "TAB_NOT_FOUND") /\ UNCHANGED pages
  /\ UNCHANGED <<bar, overrun>>

\* onNavigateTo
NavigateTo(t, url) ==
  /\ ~overrun
  /\ \/ /\ t \notin DOMAIN pages
        /\ Answer("NavigateTo", t, 0, "TAB_NOT_FOUND") /\ UNCHANGED <<pages, bar, overrun>>
     \/ /\ t \in DOMAIN pages
        /\ LET named == Navigated(t, url)
           IN IF pages[t].pref \in ZonePrefs /\ Candidates(named, t) # {}
              THEN /\ \E f \in AllocateZone(named, t) :
                        LET placed == Moved(named, f)
                        IN pages' = Labelled(placed, t) /\ bar' = Synced(bar, placed)
                   /\ overrun' = Overruns(named, t)
              ELSE pages' = named /\ UNCHANGED <<bar, overrun>>
        /\ Answer("NavigateTo", t, pages[t].pref, "OK")

Next ==
  \E t \in Uuids : \/ \E url \in Urls, pref \in Prefs : NewWebTab(t, url, pref)
                   \/ KillTab(t)
                   \/ \E url \in Urls : NavigateTo(t, url)

Spec == Init /\ [][Next]_vars

-----------------------------------------------------------------------------
(* Properties.  All but the last hold until a vector is read outside its bounds. *)

\* Every tab has a slot of its own, inside the third or at the place it asked
\* for, however often the zones have been rearranged since.
PositionsSound ==
  ~overrun =>
    /\ \A t \in Normal(pages) :
         /\ pages[t].pos \in Slots
         /\ pages[t].pref \in ZonePrefs => pages[t].pos \in Zone(pages[t].pref)
         /\ pages[t].pref >= 0 => pages[t].pos = pages[t].pref
    /\ \A t, u \in Normal(pages) : t # u => pages[t].pos # pages[u].pos

\* The tabs that asked for the same third stand in the order of their URLs after
\* every arrival, departure and navigation.
ZonesInUrlOrder ==
  ~overrun =>
    \A t, u \in Normal(pages) :
      pages[t].pref \in ZonePrefs /\ pages[u].pref = pages[t].pref /\ UrlLess(pages, t, u)
        => pages[t].pos < pages[u].pos

\* The bar has exactly the normal pages, in the order of their positions, and each
\* label is the position of its page: moving tabs one by one sorts the bar, and
\* no tab a neighbour has pushed aside keeps its old number.
BarShowsPositions ==
  ~overrun =>
    /\ ToSet(bar) = Normal(pages) /\ Len(bar) = Cardinality(Normal(pages))
    /\ \A i, j \in DOMAIN bar : i < j => pages[bar[i]].pos < pages[bar[j]].pos
    /\ \A t \in Normal(pages) : pages[t].label = pages[t].pos + 1

\* A tab is refused only for want of a slot it could have: any free slot does for
\* POS_ANY, and a third is full only of tabs that did not ask for it.
RefusedForWantOfSlots ==
  last.op = "NewWebTab" /\ last.ret = "EXEC_ERROR" =>
    \/ last.pref # POS_EXTRA /\ Cardinality(Normal(pages)) = MaxTabs
    \/ last.pref = POS_EXTRA /\ HasExtra(pages)
    \/ /\ last.pref \in ZonePrefs
       /\ Zone(last.pref) \subseteq {pages[t].pos : t \in {u \in Normal(pages) : pages[u].pref # last.pref}}
    \/ last.pref \in Slots /\ last.pref \in Occupied(pages)
    \/ last.pref \notin Slots \cup ZonePrefs \cup {POS_ANY, POS_EXTRA}

\* A request moves no tab but those that asked for the same third.
OthersStay ==
  [][\A t \in DOMAIN pages \cap DOMAIN pages' :
       pages'[t].pos # pages[t].pos =>
         pages[t].pref \in ZonePrefs /\ pages[t].pref = last'.pref]_vars

\* A tab the client is told of has a slot of its own: without one it is refused
\* ("No free MADT slot").
AcceptedTabHasSlot ==
  last.op = "NewWebTab" /\ last.ret = "OK" /\ last.pref # POS_EXTRA =>
    /\ pages[last.id].pos \in Slots
    /\ \A t \in DOMAIN pages \ {last.id} : pages[t].pos # pages[last.id].pos
=============================================================================
