---------------------------- MODULE ShortcutPanel ----------------------------
(***************************************************************************)
(* The shortcuts of the GUI thread (Browser.cpp): the map, the position    *)
(* each has in it, the launcher that counts them, and the popup, whose     *)
(* buttons are thrown away and made again whenever something changes.      *)
(*                                                                         *)
(* Leases, limits and who may kill what are in TabLifecycle.               *)
(***************************************************************************)
EXTENDS Integers, Sequences, FiniteSets, SequencesExt, IconLoader

CONSTANTS
  Shortcuts,        \* ids: each is used once
  MaxShortcutCount, \* maxShortcutCount()
  ShortcutPrefs,    \* the values of preferredPos clients send
  AutoClose,        \* shortcutAutoClose
  LauncherVisible   \* shortcutLauncherVisible and shortcutsEnabled

ASSUME PanelAssumption ==
  /\ MaxShortcutCount \in Nat \ {0} /\ ShortcutPrefs \subseteq Int
  /\ AutoClose \in BOOLEAN /\ LauncherVisible \in BOOLEAN

VARIABLES
  shortcuts,  \* Browser::shortcuts
  popup,      \* the buttons of the grid, in the order they were added
  launcher,   \* the count on the launcher; it is enabled when there is one
  open        \* the popup is shown

panelVars == <<shortcuts, popup, launcher, open>>

Places == 0..(MaxShortcutCount - 1)

Shortcut == [life : {"unborn", "live", "dead"}, pref : Int, pos : Places \cup {-1},
             iconUrl : IconUrls \cup {NoUrl}, icon : Icons]

\* What a button was made from.
Button(x, shortcut) == [id |-> x, pos |-> shortcut.pos, icon |-> shortcut.icon]

PanelTypeOK ==
  /\ shortcuts \in [Shortcuts -> Shortcut]
  /\ popup \in Seq([id : Shortcuts, pos : Places, icon : Icons])
  /\ launcher \in Nat /\ open \in BOOLEAN

Alive(ss) == {x \in Shortcuts : ss[x].life = "live"}

AShortcut(life, pref, pos, url, icon) ==
  [life |-> life, pref |-> pref, pos |-> pos, iconUrl |-> url, icon |-> icon]

PanelInit ==
  /\ shortcuts = [x \in Shortcuts |-> AShortcut("unborn", -1, -1, NoUrl, NoIcon)]
  /\ popup = <<>> /\ launcher = 0 /\ open = FALSE

-----------------------------------------------------------------------------
(* Helpers *)

\* freeShortcutPositions
FreePlaces == Places \ {shortcuts[x].pos : x \in Alive(shortcuts)}

\* Faulty: the place asked for is given, taken or not.
AllocatedTaken(pref) ==
  IF pref \in Places THEN {pref} ELSE {p \in FreePlaces : \A q \in FreePlaces : p <= q}

\* allocateShortcutPosition: the place given, if there is one.  A preferredPos that
\* is no place, too large as well as negative, asks for the first that is free.
Allocated(pref) ==
  IF pref \in Places THEN {pref} \cap FreePlaces
  ELSE {p \in FreePlaces : \A q \in FreePlaces : p <= q}

\* shortcutsInDisplayOrder
DisplayOrder(ss) ==
  CHOOSE order \in SetToSeqs(Alive(ss)) :
    \A i, j \in DOMAIN order : i < j => ss[order[i]].pos <= ss[order[j]].pos

\* rebuildShortcutPopup: the buttons of the grid, row by row.
Rebuilt(ss) ==
  LET order == DisplayOrder(ss)
  IN [i \in DOMAIN order |-> Button(order[i], ss[order[i]])]

\* updateShortcutLauncherState
Relaunch(ss) ==
  /\ launcher' = Cardinality(Alive(ss))
  /\ open' = (open /\ Alive(ss) # {})

-----------------------------------------------------------------------------
(* The slots of the GUI thread *)

\* onNewShortcut, for one that finds a place; one that does not changes nothing.
OnNewShortcut(x, pref, url) ==
  /\ shortcuts[x].life = "unborn"
  /\ Cardinality(Alive(shortcuts)) < MaxShortcutCount
  /\ \E pos \in Allocated(pref) :
       LET more == [shortcuts EXCEPT ![x] = AShortcut("live", pref, pos, url, IconAtOnce(url))]
       IN shortcuts' = more /\ popup' = Rebuilt(more) /\ Relaunch(more)
  /\ LoadIcon(url, x)

\* onKillShortcut
OnKillShortcut(x) ==
  LET less == [shortcuts EXCEPT ![x] = AShortcut("dead", -1, -1, NoUrl, NoIcon)]
  IN /\ shortcuts[x].life = "live"
     /\ shortcuts' = less /\ popup' = Rebuilt(less) /\ Relaunch(less)
     /\ UNCHANGED loader

\* Faulty: the buttons keep the icons they were made with.
ShortcutIconsKept(url, icon) ==
  LET waiting == pending[url] \cap Alive(shortcuts)
  IN /\ shortcuts' = [x \in Shortcuts |->
          IF x \in waiting THEN [shortcuts[x] EXCEPT !.icon = icon] ELSE shortcuts[x]]
     /\ UNCHANGED popup

\* The callbacks of the shortcuts that waited for an icon, each of which makes the
\* buttons anew; those that are gone are not in the map.
ShortcutIcons(url, icon) ==
  LET waiting == pending[url] \cap Alive(shortcuts)
      dressed == [x \in Shortcuts |->
        IF x \in waiting
          THEN AShortcut("live", shortcuts[x].pref, shortcuts[x].pos, shortcuts[x].iconUrl, icon)
          ELSE shortcuts[x]]
  IN /\ shortcuts' = dressed
     /\ popup' = IF waiting = {} THEN popup ELSE Rebuilt(dressed)

-----------------------------------------------------------------------------
(* The user *)

\* toggleShortcutPopup
Toggle ==
  /\ Alive(shortcuts) # {} /\ LauncherVisible
  /\ open' = ~open
  /\ popup' = IF open THEN popup ELSE Rebuilt(shortcuts)
  /\ UNCHANGED <<shortcuts, launcher, loader>>

\* A tap beside the popup, which is a Qt::Popup.
Dismiss ==
  /\ open /\ open' = FALSE
  /\ UNCHANGED <<shortcuts, popup, launcher, loader>>

\* activateShortcut: the URL is opened elsewhere.
Activate(i) ==
  /\ open /\ i \in DOMAIN popup
  /\ open' = ~(AutoClose /\ popup[i].id \in Alive(shortcuts))
  /\ UNCHANGED <<shortcuts, popup, launcher, loader>>

PanelNext ==
  \/ \E x \in Shortcuts :
       \/ \E pref \in ShortcutPrefs, url \in IconUrls \cup {NoUrl} : OnNewShortcut(x, pref, url)
       \/ OnKillShortcut(x)
  \/ Toggle \/ Dismiss
  \/ \E i \in 1..MaxShortcutCount : Activate(i)

-----------------------------------------------------------------------------
(* Properties *)

\* Every shortcut has a place of its own on the panel, the one it asked for if that
\* is a place, after any number of arrivals and departures.
PlacesSound ==
  \A x \in Alive(shortcuts) :
    /\ shortcuts[x].pos \in Places
    /\ shortcuts[x].pref \in Places => shortcuts[x].pos = shortcuts[x].pref
    /\ \A y \in Alive(shortcuts) \ {x} : shortcuts[y].pos # shortcuts[x].pos

\* What the user can tap is what there is: the buttons are those of the live
\* shortcuts, in the order of their places and with the icons they have, the
\* launcher counts them, and a popup with nothing in it does not stay open.
PopupTrue ==
  /\ Len(popup) = Cardinality(Alive(shortcuts)) /\ launcher = Len(popup)
  /\ \A x \in Alive(shortcuts) : \E i \in DOMAIN popup : popup[i] = Button(x, shortcuts[x])
  /\ \A i, j \in DOMAIN popup : i < j => popup[i].pos < popup[j].pos
  /\ open => popup # <<>>
=============================================================================
