------------------------------ MODULE Terminal ------------------------------
(***************************************************************************)
(* What a MADT terminal promises its clients, with no threads and no       *)
(* queue: every request takes effect in one step, in which its answer is   *)
(* decided from the tabs and shortcuts alive at that moment.  A tab goes   *)
(* when a client kills it, when its lease has run out or when the          *)
(* connection it belongs to is gone, and for no other reason.              *)
(*                                                                         *)
(* TabLifecycle, with the server and the GUI as two threads, implements    *)
(* this specification.                                                     *)
(***************************************************************************)
EXTENDS Naturals, FiniteSets

CONSTANTS Conns, Tabs, Shortcuts, Nobody, NoId, Forever,
          MaxTabs, MaxShortcuts, MaxTTL, ByConnection, ShortcutsEnabled

VARIABLES
  conns,     \* the connected clients
  up,        \* the screen is there
  tabs,      \* id of a live tab -> ticks left of its lease, or Forever
  cuts,      \* the same for shortcuts
  owned,     \* connection -> the tabs that go with it
  extra,     \* the tab in the extra zone, or NoId
  answer     \* the last answer given

vars == <<conns, up, tabs, cuts, owned, extra, answer>>

Add(f, k, v) == [x \in DOMAIN f \cup {k} |-> IF x = k THEN v ELSE f[x]]
Remove(f, k) == [x \in DOMAIN f \ {k} |-> f[x]]

Answer(c, ret, body) == answer' = [client |-> c, ret |-> ret, body |-> body]

\* An answer that changes nothing.
Say(c, ret, body) ==
  c \in conns /\ Answer(c, ret, body) /\ UNCHANGED <<conns, up, tabs, cuts, owned, extra>>

Init ==
  /\ conns = {} /\ up = FALSE
  /\ tabs = [x \in {} |-> NoId] /\ cuts = [x \in {} |-> NoId]
  /\ owned = [c \in Conns |-> {}] /\ extra = NoId
  /\ answer = [client |-> Nobody, ret |-> "OK", body |-> {}]

-----------------------------------------------------------------------------
(* A new connection starts with nothing, whoever used its pointer before. *)
Connect(c) ==
  /\ c \notin conns /\ owned[c] = {}
  /\ conns' = conns \cup {c}
  /\ UNCHANGED <<up, tabs, cuts, owned, extra, answer>>

Disconnect(c) ==
  /\ c \in conns
  /\ conns' = conns \ {c}
  /\ UNCHANGED <<up, tabs, cuts, owned, extra, answer>>

SwitchOn == ~up /\ up' = TRUE /\ UNCHANGED <<conns, tabs, cuts, owned, extra, answer>>

(* Before that, and for a request that makes no sense. *)
Refuse(c) == \/ ~up /\ Say(c, "EXEC_ERROR", {})
             \/ Say(c, "BAD_REQUEST", {})

-----------------------------------------------------------------------------
(* Tabs. *)

Normal == DOMAIN tabs \ {extra}

CreateTab(c, t, inExtra) ==
  /\ up /\ c \in conns /\ t \notin DOMAIN tabs
  /\ IF inExtra THEN extra = NoId ELSE Cardinality(Normal) < MaxTabs
  /\ tabs' = Add(tabs, t, Forever)
  /\ owned' = IF ByConnection THEN [owned EXCEPT ![c] = @ \cup {t}] ELSE owned
  /\ extra' = IF inExtra THEN t ELSE extra
  /\ Answer(c, "OK", {t})
  /\ UNCHANGED <<conns, up, cuts>>

\* how is "any", "placed" or "extra": "any" is refused only by a full terminal.
RefuseTab(c, how) ==
  /\ up
  /\ CASE how = "extra"  -> extra # NoId
       [] how = "any"    -> Cardinality(Normal) >= MaxTabs
       [] how = "placed" -> TRUE
  /\ Say(c, "EXEC_ERROR", {})

TakeAway(t) ==
  /\ tabs' = Remove(tabs, t)
  /\ owned' = [c \in Conns |-> owned[c] \ {t}]
  /\ extra' = IF extra = t THEN NoId ELSE extra
  /\ UNCHANGED <<conns, up, cuts>>

Kill(c, t) == /\ up /\ c \in conns /\ t \in DOMAIN tabs
              /\ TakeAway(t) /\ Answer(c, "OK", {})

\* Killing the extra tab only hides it; showing, blinking and navigating leave
\* every tab where it is.
Use(c, t) == up /\ t \in DOMAIN tabs /\ Say(c, "OK", {})

NoSuchTab(c, t) == t \notin DOMAIN tabs /\ Say(c, "INVALID_TAB", {})

Renew(c, t, ttl) ==
  /\ c \in conns /\ t \in DOMAIN tabs
  /\ tabs' = Add(tabs, t, ttl)
  /\ Answer(c, "OK", {})
  /\ UNCHANGED <<conns, up, cuts, owned, extra>>

TabMap(c) == up /\ Say(c, "OK", Normal)

\* A tab is taken away only after its lease or its connection.
Drop(t) ==
  /\ t \in DOMAIN tabs
  /\ tabs[t] = 0 \/ \E c \in Conns \ conns : t \in owned[c]
  /\ TakeAway(t) /\ UNCHANGED answer

-----------------------------------------------------------------------------
(* Shortcuts. *)

CreateShortcut(c, s) ==
  /\ up /\ c \in conns /\ s \notin DOMAIN cuts
  /\ ShortcutsEnabled /\ Cardinality(DOMAIN cuts) < MaxShortcuts
  /\ cuts' = Add(cuts, s, Forever)
  /\ Answer(c, "OK", {s})
  /\ UNCHANGED <<conns, up, tabs, owned, extra>>

RefuseShortcut(c, how) ==
  /\ up
  /\ how = "any" => ~ShortcutsEnabled \/ Cardinality(DOMAIN cuts) >= MaxShortcuts
  /\ Say(c, "EXEC_ERROR", {})

KillCut(c, s) ==
  /\ up /\ c \in conns /\ s \in DOMAIN cuts
  /\ cuts' = Remove(cuts, s)
  /\ Answer(c, "OK", {})
  /\ UNCHANGED <<conns, up, tabs, owned, extra>>

NoSuchShortcut(c, s) == s \notin DOMAIN cuts /\ Say(c, "INVALID_TAB", {})

RenewCut(c, s, ttl) ==
  /\ c \in conns /\ s \in DOMAIN cuts
  /\ cuts' = Add(cuts, s, ttl)
  /\ Answer(c, "OK", {})
  /\ UNCHANGED <<conns, up, tabs, owned, extra>>

ShortcutList(c) == up /\ Say(c, "OK", DOMAIN cuts)

DropCut(s) ==
  /\ s \in DOMAIN cuts /\ cuts[s] = 0
  /\ cuts' = Remove(cuts, s)
  /\ UNCHANGED <<conns, up, tabs, owned, extra, answer>>

-----------------------------------------------------------------------------
Elapse(lease) == IF lease \in {0, Forever} THEN lease ELSE lease - 1

Tick ==
  /\ tabs' = [t \in DOMAIN tabs |-> Elapse(tabs[t])]
  /\ cuts' = [s \in DOMAIN cuts |-> Elapse(cuts[s])]
  /\ UNCHANGED <<conns, up, owned, extra, answer>>

Serve(c) ==
  \/ Refuse(c) \/ TabMap(c) \/ ShortcutList(c)
  \/ \E how \in {"any", "placed", "extra"} : RefuseTab(c, how) \/ RefuseShortcut(c, how)
  \/ \E t \in Tabs : \/ CreateTab(c, t, TRUE) \/ CreateTab(c, t, FALSE)
                     \/ Kill(c, t) \/ Use(c, t) \/ NoSuchTab(c, t)
                     \/ \E ttl \in 1..MaxTTL : Renew(c, t, ttl)
  \/ \E s \in Shortcuts : \/ CreateShortcut(c, s) \/ KillCut(c, s) \/ NoSuchShortcut(c, s)
                          \/ \E ttl \in 1..MaxTTL : RenewCut(c, s, ttl)

Next ==
  \/ \E c \in Conns : Connect(c) \/ Disconnect(c) \/ Serve(c)
  \/ \E t \in Tabs : Drop(t)
  \/ \E s \in Shortcuts : DropCut(s)
  \/ SwitchOn \/ Tick

Spec == Init /\ [][Next]_vars

\* A tab whose time is over is taken away unless a client renews it first.
Live == /\ \A t \in Tabs : WF_vars(Drop(t))
        /\ \A s \in Shortcuts : WF_vars(DropCut(s))
        /\ WF_vars(SwitchOn)

FairSpec == Spec /\ Live
=============================================================================
