------------------------------- MODULE Screen -------------------------------
(***************************************************************************)
(* The GUI thread's screen: the tab bar and the shortcut panel over the    *)
(* icon loader they share.  A tab and a shortcut may wait for the same     *)
(* reply, whose callbacks then reach both in one step.                     *)
(***************************************************************************)
EXTENDS TabBar, ShortcutPanel

vars == <<tabVars, panelVars, loader>>

ASSUME OwnersAssumption == Tabs \cap Shortcuts = {}

TypeOK == TabTypeOK /\ PanelTypeOK /\ LoaderTypeOK(Tabs \cup Shortcuts)

Init == TabInit /\ PanelInit /\ LoaderInit

\* A reply has arrived, with an icon or with none.
IconReply(url, icon) ==
  /\ Finished(url, icon)
  /\ TabIcons(url, icon) /\ UNCHANGED <<bar, current, how, overlay, threads>>
  /\ ShortcutIcons(url, icon) /\ UNCHANGED <<launcher, open>>

Next ==
  \/ TabNext /\ UNCHANGED panelVars
  \/ PanelNext /\ UNCHANGED tabVars
  \/ \E url \in IconUrls, icon \in Icons : IconReply(url, icon)

Spec == Init /\ [][Next]_vars

-----------------------------------------------------------------------------
(* Properties *)

\* What a tab or a shortcut should wear, by what the loader knows.
Settled(owner, url, icon) ==
  IF MustWait(url) THEN owner \in pending[url] /\ icon = NoIcon ELSE icon = IconAtOnce(url)

\* Nobody who asked for an icon is forgotten: he has what the loader has, or waits
\* for a reply that is under way.  A URL is asked for once, and what it brought,
\* even nothing, stays (IconLoader.cpp).
IconsSettled ==
  /\ \A t \in Live : Settled(t, pages[t].iconUrl, pages[t].icon)
  /\ \A x \in Alive(shortcuts) : Settled(x, shortcuts[x].iconUrl, shortcuts[x].icon)
  /\ \A url \in IconUrls : pending[url] # {} => cache[url] = NotLoaded
=============================================================================
