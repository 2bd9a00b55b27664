---------------------------- MODULE TabLifecycle ----------------------------
(***************************************************************************)
(* The life of web tabs and shortcuts in the MADT terminal: the libevent   *)
(* server thread (madt-server.cpp), the Qt GUI thread (Browser.cpp) and    *)
(* the two channels between them.                                          *)
(*                                                                         *)
(* A request handler that needs the screen posts a queued Qt signal with a *)
(* pointer to a CmdResponse on its own stack and blocks on its condition   *)
(* variable; the lease sweep and the end of a connection post the same     *)
(* signals with a null pointer and go on at once.  Qt delivers the signals *)
(* in the order they were posted.  The server keeps its own books (leases, *)
(* owners, the id of the extra tab) and never reads the GUI's list: the    *)
(* question of this module is whether the books and the screen can part.   *)
(***************************************************************************)
EXTENDS Naturals, Sequences, FiniteSets

CONSTANTS
  Conns,            \* bufferevent pointers: a closed one may be allocated again
  Tabs,             \* uuids a tab may get; one is reused once nothing mentions it
  Shortcuts,        \* uuids a shortcut may get
  Nobody,           \* the null CmdResponse pointer, and no connection at all
  NoId,             \* the empty id
  Forever,          \* std::nullopt as a lease: the tab has never been renewed
  MaxTabs,          \* MAX_TABS (runtime-config.h)
  MaxShortcuts,     \* shortcutMaxCount, at least 1 (Browser::maxShortcutCount)
  MaxTTL,           \* bound on the TTL of an IAmAlive, in ticks
  ByConnection,     \* tabLifetimeByConnection
  ShortcutsEnabled  \* shortcutsEnabled

ASSUME IdsAssumption ==
  /\ Nobody \notin Conns
  /\ NoId \notin Tabs \cup Shortcuts
  /\ Tabs \cap Shortcuts = {}

ASSUME LimitsAssumption ==
  /\ MaxTabs \in Nat /\ MaxShortcuts \in Nat \ {0} /\ MaxTTL \in Nat
  /\ Forever \notin Nat
  /\ ByConnection \in BOOLEAN /\ ShortcutsEnabled \in BOOLEAN

VARIABLES
  \* The server thread's books (madt-server.h).
  conns,           \* the live bufferevents
  tabLeases,       \* id -> ticks left, or Forever; its domain is hasTab
  shortcutLeases,  \* the same for shortcuts
  connectionTabs,  \* connection -> the tabs that die with it
  extraTabId,      \* the tab of the extra zone, or NoId
  \* Where the server thread is.
  call,            \* the command it waits for, or NoCall
  doomed,          \* ids the sweep in progress has still to kill
  closing,         \* the connection whose eventcb is running, or Nobody
  answer,          \* the last answer written to a client
  \* The GUI thread (Browser.h).
  browserUp,       \* the Browser exists: Gui::browser is not null
  pages,           \* Browser::list: id -> "normal" or "extra"
  shortcuts,       \* Browser::shortcuts
  overlay,         \* extraFrame is shown
  \* Between the threads.
  posted,          \* the queued signals, oldest first
  resp             \* the waiting handler's CmdResponse once it is ready

books    == <<tabLeases, shortcutLeases, connectionTabs, extraTabId>>
thread   == <<call, doomed, closing>>
screen   == <<pages, shortcuts, overlay>>
channels == <<posted, resp>>
vars     == <<conns, books, thread, answer, browserUp, screen, channels>>

-----------------------------------------------------------------------------
(* Values. *)

TabOps      == {"ActivateTab", "BlinkTab", "NavigateTo"}
\* preferredPos: POS_EXTRA, POS_ANY, or a place that may be taken.
Places      == {"any", "placed", "extra"}
\* KillTab's forceDestroy.
Forces      == {"force", "hide"}
Ids         == Tabs \cup Shortcuts
Leases      == 0..MaxTTL \cup {Forever}
Results     == {"OK", "EXEC_ERROR", "INVALID_TAB", "BAD_REQUEST"}

\* A queued signal; client is the handler that waits for it, or Nobody.
Signal(clients, ops, ids, hows) ==
  [client : clients, op : ops, id : ids, how : hows]
Commands ==
  UNION {Signal(Conns, {"NewWebTab"}, Tabs, Places),
         Signal(Conns \cup {Nobody}, {"KillTab"}, Tabs, Forces),
         Signal(Conns, TabOps, Tabs, {"-"}),
         Signal(Conns, {"NewShortcut"}, Shortcuts, Places),
         Signal(Conns \cup {Nobody}, {"KillShortcut"}, Shortcuts, {"-"}),
         Signal(Conns, {"GetTabMap", "GetShortcuts"}, {NoId}, {"-"})}

NoCall == [client |-> Nobody, op |-> "none", id |-> NoId, how |-> "-"]
NoResp == [ret |-> "none", body |-> {}]

Command(c, op, x, how) == [client |-> c, op |-> op, id |-> x, how |-> how]

\* std::map as a function on the keys it holds.
IsMap(f, K, V) == DOMAIN f \subseteq K /\ f \in [DOMAIN f -> V]
EmptyMap       == [x \in {} |-> NoId]
With(f, k, v)  == [x \in DOMAIN f \cup {k} |-> IF x = k THEN v ELSE f[x]]
Without(f, k)  == [x \in DOMAIN f \ {k} |-> f[x]]

Mentioned == {posted[i].id : i \in 1..Len(posted)} \cup {call.id}

\* generate_uuid: an id that is in nobody's memory.
FreshTabs      == Tabs \ (DOMAIN tabLeases \cup DOMAIN pages \cup Mentioned)
FreshShortcuts == Shortcuts \ (DOMAIN shortcutLeases \cup shortcuts \cup Mentioned)

TypeOK ==
  /\ conns \subseteq Conns
  /\ IsMap(tabLeases, Tabs, Leases)
  /\ IsMap(shortcutLeases, Shortcuts, Leases)
  /\ connectionTabs \in [Conns -> SUBSET Tabs]
  /\ extraTabId \in Tabs \cup {NoId}
  /\ call \in Commands \cup {NoCall}
  /\ doomed \subseteq Ids
  /\ closing \in Conns \cup {Nobody}
  /\ answer \in [client : Conns \cup {Nobody}, ret : Results, body : SUBSET Ids]
  /\ browserUp \in BOOLEAN
  /\ IsMap(pages, Tabs, {"normal", "extra"})
  /\ shortcuts \subseteq Shortcuts
  /\ overlay \in BOOLEAN
  /\ posted \in Seq(Commands)
  /\ resp \in [ret : Results, body : SUBSET Ids] \cup {NoResp}

Init ==
  /\ conns = {}
  /\ tabLeases = EmptyMap /\ shortcutLeases = EmptyMap
  /\ connectionTabs = [c \in Conns |-> {}]
  /\ extraTabId = NoId
  /\ call = NoCall /\ doomed = {} /\ closing = Nobody
  /\ answer = [client |-> Nobody, ret |-> "OK", body |-> {}]
  /\ browserUp = FALSE
  /\ pages = EmptyMap /\ shortcuts = {} /\ overlay = FALSE
  /\ posted = <<>> /\ resp = NoResp

-----------------------------------------------------------------------------
(* The server thread: helpers. *)

\* Between two libevent callbacks.
Idle == call = NoCall /\ doomed = {} /\ closing = Nobody

\* sendResponse.
Answer(c, ret, body) == answer' = [client |-> c, ret |-> ret, body |-> body]

\* Mutated form of Post: the newest signal is delivered first.
PostFirst(cmd) == posted' = <<cmd>> \o posted

\* An emit on the server thread: Qt queues the signal for the GUI thread.
Post(cmd) == posted' = Append(posted, cmd)

\* A handler that calls Gui::X and then waits on its CmdResponse; without a
\* Browser the call returns false and the client is told EXEC_ERROR.
\* (All but NewWebTab look at browser twice; a Browser born in between is left
\* to the module Shutdown.)
Ask(cmd) ==
  /\ Idle /\ cmd.client \in conns
  /\ IF browserUp
     THEN Post(cmd) /\ call' = cmd /\ UNCHANGED answer
     ELSE Answer(cmd.client, "EXEC_ERROR", {}) /\ UNCHANGED <<posted, call>>
  /\ UNCHANGED <<conns, books, doomed, closing, browserUp, screen, resp>>

\* A handler that answers from the books alone.
AnswerAtOnce(c, ret) ==
  /\ Idle /\ c \in conns
  /\ Answer(c, ret, {})
  /\ UNCHANGED <<conns, thread, browserUp, screen, channels>>

\* A kill nobody waits for: Gui::KillTab(id, nullptr, true), Gui::KillShortcut.
PostAsync(op, x, how) ==
  IF browserUp THEN Post(Command(Nobody, op, x, how)) ELSE UNCHANGED posted

hasTab(t) == t \in DOMAIN tabLeases

isExtraTab(t) == t = extraTabId

\* rememberOwnedTab, and the line of handleNewWebTab after it.
RememberTab(c, t, how) ==
  /\ tabLeases' = With(tabLeases, t, Forever)
  /\ connectionTabs' = IF ByConnection
                       THEN [connectionTabs EXCEPT ![c] = @ \cup {t}]
                       ELSE connectionTabs
  /\ extraTabId' = IF how = "extra" THEN t ELSE extraTabId
  /\ UNCHANGED shortcutLeases

\* Mutated form of ForgetTab: extraTabId keeps the id.
ForgetTabKeepingExtra(t) ==
  /\ tabLeases' = Without(tabLeases, t)
  /\ connectionTabs' = [c \in Conns |-> connectionTabs[c] \ {t}]
  /\ UNCHANGED <<extraTabId, shortcutLeases>>

\* forgetOwnedTab.
ForgetTab(t) ==
  /\ tabLeases' = Without(tabLeases, t)
  /\ connectionTabs' = [c \in Conns |-> connectionTabs[c] \ {t}]
  /\ extraTabId' = IF extraTabId = t THEN NoId ELSE extraTabId
  /\ UNCHANGED shortcutLeases

-----------------------------------------------------------------------------
(* The server thread: connections. *)

\* accept_conn_cb.
Accept(c) ==
  /\ Idle /\ c \notin conns
  /\ conns' = conns \cup {c}
  /\ UNCHANGED <<books, thread, answer, browserUp, screen, channels>>

\* Mutated form of Close: eraseOwnedTabs is left out.
CloseKeepingTabs(c) ==
  /\ Idle /\ c \in conns
  /\ conns' = conns \ {c}
  /\ closing' = c
  /\ UNCHANGED <<books, call, doomed, answer, browserUp, screen, channels>>

\* eventcb on EOF or error: bufferevent_free, then eraseOwnedTabs copies the
\* set it will go through (SweepTab) ...
Close(c) ==
  /\ Idle /\ c \in conns
  /\ conns' = conns \ {c}
  /\ closing' = c
  /\ doomed' = IF ByConnection THEN connectionTabs[c] ELSE {}
  /\ UNCHANGED <<books, call, answer, browserUp, screen, channels>>

\* ... and eraseConnection ends it.
EraseConnection ==
  /\ closing # Nobody /\ doomed = {}
  /\ connectionTabs' = [connectionTabs EXCEPT ![closing] = {}]
  /\ closing' = Nobody
  /\ UNCHANGED <<conns, tabLeases, shortcutLeases, extraTabId, call, doomed,
                 answer, browserUp, screen, channels>>

-----------------------------------------------------------------------------
(* The server thread: requests. *)

\* Every early return with MTSRC_BAD_REQUEST: no object, unknown req, wrong
\* password, TTL missing or negative, both ids or neither.
BadRequest(c) == AnswerAtOnce(c, "BAD_REQUEST") /\ UNCHANGED books

NewWebTab(c, t, how) == t \in FreshTabs /\ Ask(Command(c, "NewWebTab", t, how))

KillTab(c, t) ==
  Ask(Command(c, "KillTab", t, IF isExtraTab(t) THEN "hide" ELSE "force"))

\* handleActivateTab, handleBlinkTab, handleNavigateTo.
UseTab(c, op, t) == Ask(Command(c, op, t, "-"))

GetTabMap(c) == Ask(Command(c, "GetTabMap", NoId, "-"))

\* handleIAmAlive with a tabId.
IAmAlive(c, t, ttl) ==
  \/ ~hasTab(t) /\ AnswerAtOnce(c, "INVALID_TAB") /\ UNCHANGED books
  \/ hasTab(t) /\ ttl = 0 /\ Ask(Command(c, "KillTab", t, "force"))
  \/ /\ hasTab(t) /\ ttl > 0
     /\ AnswerAtOnce(c, "OK")
     /\ tabLeases' = With(tabLeases, t, ttl)
     /\ UNCHANGED <<shortcutLeases, connectionTabs, extraTabId>>

NewShortcut(c, s, how) ==
  s \in FreshShortcuts /\ Ask(Command(c, "NewShortcut", s, how))

KillShortcut(c, s) == Ask(Command(c, "KillShortcut", s, "-"))

GetShortcuts(c) == Ask(Command(c, "GetShortcuts", NoId, "-"))

\* handleIAmAlive with a shortcutId.
IAmAliveShortcut(c, s, ttl) ==
  \/ /\ s \notin DOMAIN shortcutLeases
     /\ AnswerAtOnce(c, "INVALID_TAB") /\ UNCHANGED books
  \/ s \in DOMAIN shortcutLeases /\ ttl = 0 /\ KillShortcut(c, s)
  \/ /\ s \in DOMAIN shortcutLeases /\ ttl > 0
     /\ AnswerAtOnce(c, "OK")
     /\ shortcutLeases' = With(shortcutLeases, s, ttl)
     /\ UNCHANGED <<tabLeases, connectionTabs, extraTabId>>

-----------------------------------------------------------------------------
(* The server thread: the rest of a handler, once its CmdResponse is ready. *)

Returning(op) == call.op = op /\ resp # NoResp

\* The handler answers what the GUI said and the thread is free again.
Finish(body) ==
  /\ Answer(call.client, resp.ret, body)
  /\ call' = NoCall /\ resp' = NoResp
  /\ UNCHANGED <<conns, doomed, closing, browserUp, screen, posted>>

ReturnNewWebTab ==
  /\ Returning("NewWebTab")
  /\ IF resp.ret = "OK"
     THEN RememberTab(call.client, call.id, call.how) /\ Finish({call.id})
     ELSE UNCHANGED books /\ Finish({})

\* Mutated form of ReturnKillTab: a hidden extra tab is forgotten too.
ReturnKillTabForgetting ==
  /\ Returning("KillTab")
  /\ IF resp.ret = "OK" THEN ForgetTab(call.id) ELSE UNCHANGED books
  /\ Finish({})

\* killTabInternal.
ReturnKillTab ==
  /\ Returning("KillTab")
  /\ IF resp.ret = "OK" /\ call.how = "force" THEN ForgetTab(call.id)
                                              ELSE UNCHANGED books
  /\ Finish({})

ReturnNewShortcut ==
  /\ Returning("NewShortcut")
  /\ IF resp.ret = "OK"
     THEN /\ shortcutLeases' = With(shortcutLeases, call.id, Forever)
          /\ UNCHANGED <<tabLeases, connectionTabs, extraTabId>>
          /\ Finish({call.id})
     ELSE UNCHANGED books /\ Finish({})

ReturnKillShortcut ==
  /\ Returning("KillShortcut")
  /\ shortcutLeases' = IF resp.ret = "OK" THEN Without(shortcutLeases, call.id)
                                          ELSE shortcutLeases
  /\ UNCHANGED <<tabLeases, connectionTabs, extraTabId>>
  /\ Finish({})

\* The handlers that only pass the answer on.
ReturnAnswer ==
  /\ \E op \in TabOps \cup {"GetTabMap", "GetShortcuts"} : Returning(op)
  /\ UNCHANGED books
  /\ Finish(resp.body)

Return == \/ ReturnNewWebTab \/ ReturnKillTab \/ ReturnAnswer
          \/ ReturnNewShortcut \/ ReturnKillShortcut

-----------------------------------------------------------------------------
(* The server thread: leases. *)

\* Mutated form of RunOut: one tick early.
RunOutEarly(f) == {x \in DOMAIN f : f[x] \in {0, 1}}

RunOut(f) == {x \in DOMAIN f : f[x] = 0}

\* Mutated form of Prune: the loop over the shortcuts is missing.
PruneTabsOnly ==
  /\ Idle
  /\ doomed' = RunOut(tabLeases)
  /\ doomed' # {}
  /\ UNCHANGED <<conns, books, call, closing, answer, browserUp, screen, channels>>

\* pruneExpiredTabs reads the clock once and collects what has run out.
Prune ==
  /\ Idle
  /\ doomed' = RunOut(tabLeases) \cup RunOut(shortcutLeases)
  /\ doomed' # {}
  /\ UNCHANGED <<conns, books, call, closing, answer, browserUp, screen, channels>>

\* One turn of the loop of pruneExpiredTabs or of eraseOwnedTabs.
SweepTab(t) ==
  /\ t \in doomed \cap Tabs
  /\ PostAsync("KillTab", t, "force")
  /\ ForgetTab(t)
  /\ doomed' = doomed \ {t}
  /\ UNCHANGED <<conns, call, closing, answer, browserUp, screen, resp>>

\* One turn of its second loop, after every tab.
SweepShortcut(s) ==
  /\ doomed \cap Tabs = {} /\ s \in doomed
  /\ PostAsync("KillShortcut", s, "-")
  /\ shortcutLeases' = Without(shortcutLeases, s)
  /\ doomed' = doomed \ {s}
  /\ UNCHANGED <<conns, tabLeases, connectionTabs, extraTabId, call, closing,
                 answer, browserUp, screen, resp>>

Elapse(lease) == IF lease \in {0, Forever} THEN lease ELSE lease - 1

Ticking(f) == \E x \in DOMAIN f : f[x] \notin {0, Forever}

\* The steady clock, at any moment of either thread.
Tick ==
  /\ Ticking(tabLeases) \/ Ticking(shortcutLeases)
  /\ tabLeases' = [t \in DOMAIN tabLeases |-> Elapse(tabLeases[t])]
  /\ shortcutLeases' = [s \in DOMAIN shortcutLeases |-> Elapse(shortcutLeases[s])]
  /\ UNCHANGED <<conns, connectionTabs, extraTabId, thread, answer, browserUp,
                 screen, channels>>

-----------------------------------------------------------------------------
(* The GUI thread. *)

\* The single shot of Gui::run has built the Browser.
BrowserReady ==
  /\ ~browserUp
  /\ browserUp' = TRUE
  /\ UNCHANGED <<conns, books, thread, answer, screen, channels>>

\* The GUI thread takes the oldest queued signal, one with an op in ops.
Deliver(ops) ==
  /\ posted # <<>> /\ Head(posted).op \in ops
  /\ posted' = Tail(posted)
  /\ UNCHANGED <<conns, books, thread, answer, browserUp>>

\* Fill in the CmdResponse of the handler that waits, if any.
Reply(ret, body) ==
  resp' = IF Head(posted).client = Nobody THEN resp ELSE [ret |-> ret, body |-> body]

NormalPages  == {t \in DOMAIN pages : pages[t] = "normal"}
hasExtraPage == \E t \in DOMAIN pages : pages[t] = "extra"

\* Whether onNewWebTab may find room: only a tab that asks for a certain place
\* can be refused one while there are free positions.
Room(how) ==
  IF how = "extra" THEN {~hasExtraPage}
  ELSE IF Cardinality(NormalPages) >= MaxTabs THEN {FALSE}
  ELSE IF how = "any" THEN {TRUE} ELSE BOOLEAN

OnNewWebTab ==
  /\ Deliver({"NewWebTab"})
  /\ \E room \in Room(Head(posted).how) :
       /\ pages' = IF room
                   THEN With(pages, Head(posted).id,
                             IF Head(posted).how = "extra" THEN "extra" ELSE "normal")
                   ELSE pages
       /\ Reply(IF room THEN "OK" ELSE "EXEC_ERROR", {})
  /\ UNCHANGED <<shortcuts, overlay>>

\* Mutated form of OnKillTab: nothing is done for a null CmdResponse, as in
\* onActivateTab.
OnKillTabIfAwaited ==
  /\ Deliver({"KillTab"})
  /\ LET t == Head(posted).id
         known == t \in DOMAIN pages
         extra == known /\ pages[t] = "extra"
         hide  == extra /\ Head(posted).how = "hide"
         await == Head(posted).client # Nobody
     IN /\ pages' = IF await /\ known /\ ~hide THEN Without(pages, t) ELSE pages
        /\ overlay' = (overlay /\ ~(await /\ hide) /\ (extra => hasExtraPage'))
        /\ Reply(IF known THEN "OK" ELSE "INVALID_TAB", {})
  /\ UNCHANGED shortcuts

OnKillTab ==
  /\ Deliver({"KillTab"})
  /\ LET t == Head(posted).id
         known == t \in DOMAIN pages
         extra == known /\ pages[t] = "extra"
         hide  == extra /\ Head(posted).how = "hide"
     IN /\ pages' = IF known /\ ~hide THEN Without(pages, t) ELSE pages
        \* hideExtraZoneOverlay, or updateExtraZoneVisibility after the erase
        /\ overlay' = (overlay /\ ~hide /\ (extra => hasExtraPage'))
        /\ Reply(IF known THEN "OK" ELSE "INVALID_TAB", {})
  /\ UNCHANGED shortcuts

\* Mutated form of OnUseTab: an unknown tab is answered by silence.
OnUseTabIfKnown ==
  /\ Deliver(TabOps)
  /\ LET t == Head(posted).id
         known == t \in DOMAIN pages
         shows == known /\ pages[t] = "extra" /\ Head(posted).op # "NavigateTo"
     IN /\ overlay' = (overlay \/ shows)
        /\ IF known THEN Reply("OK", {}) ELSE UNCHANGED resp
  /\ UNCHANGED <<pages, shortcuts>>

\* onActivateTab, onBlinkTab, onNavigateTo; the first two show the extra zone.
OnUseTab ==
  /\ Deliver(TabOps)
  /\ LET t == Head(posted).id
         known == t \in DOMAIN pages
         shows == known /\ pages[t] = "extra" /\ Head(posted).op # "NavigateTo"
     IN /\ overlay' = (overlay \/ shows)
        /\ Reply(IF known THEN "OK" ELSE "INVALID_TAB", {})
  /\ UNCHANGED <<pages, shortcuts>>

\* The map has a place for every tab with a logical position; the extra tab's
\* is negative.
OnGetTabMap ==
  /\ Deliver({"GetTabMap"})
  /\ Reply("OK", NormalPages)
  /\ UNCHANGED screen

ShortcutRoom(how) ==
  IF ~ShortcutsEnabled \/ Cardinality(shortcuts) >= MaxShortcuts THEN {FALSE}
  ELSE IF how = "any" THEN {TRUE} ELSE BOOLEAN

OnNewShortcut ==
  /\ Deliver({"NewShortcut"})
  /\ \E room \in ShortcutRoom(Head(posted).how) :
       /\ shortcuts' = IF room THEN shortcuts \cup {Head(posted).id} ELSE shortcuts
       /\ Reply(IF room THEN "OK" ELSE "EXEC_ERROR", {})
  /\ UNCHANGED <<pages, overlay>>

OnKillShortcut ==
  /\ Deliver({"KillShortcut"})
  /\ shortcuts' = shortcuts \ {Head(posted).id}
  /\ Reply(IF Head(posted).id \in shortcuts THEN "OK" ELSE "INVALID_TAB", {})
  /\ UNCHANGED <<pages, overlay>>

OnGetShortcuts ==
  /\ Deliver({"GetShortcuts"})
  /\ Reply("OK", shortcuts)
  /\ UNCHANGED screen

GuiStep == \/ OnNewWebTab \/ OnKillTab \/ OnUseTab \/ OnGetTabMap
           \/ OnNewShortcut \/ OnKillShortcut \/ OnGetShortcuts

-----------------------------------------------------------------------------
Request(c) ==
  \/ BadRequest(c) \/ GetTabMap(c) \/ GetShortcuts(c)
  \/ \E t \in Tabs : \/ \E how \in Places : NewWebTab(c, t, how)
                     \/ \E op \in TabOps : UseTab(c, op, t)
                     \/ \E ttl \in 0..MaxTTL : IAmAlive(c, t, ttl)
                     \/ KillTab(c, t)
  \/ \E s \in Shortcuts : \/ \E how \in {"any", "placed"} : NewShortcut(c, s, how)
                          \/ \E ttl \in 0..MaxTTL : IAmAliveShortcut(c, s, ttl)
                          \/ KillShortcut(c, s)

Sweep == (\E t \in Tabs : SweepTab(t)) \/ (\E s \in Shortcuts : SweepShortcut(s))

Next ==
  \/ \E c \in Conns : Accept(c) \/ Close(c) \/ Request(c)
  \/ EraseConnection \/ Return \/ Prune \/ Sweep \/ Tick
  \/ BrowserReady \/ GuiStep

(***************************************************************************)
(* Both threads run their loops: the GUI thread takes every signal once    *)
(* the Browser is up, the server thread finishes a handler whose answer is *)
(* there and a sweep it has begun.  The 1 s timer needs the server loop to *)
(* come back between two requests, which it does again and again but not   *)
(* for good: libevent runs an expired timer in the next turn of its loop,  *)
(* whatever else is ready, hence the strong fairness.                      *)
(***************************************************************************)
Fairness ==
  /\ WF_vars(GuiStep) /\ WF_vars(Return) /\ WF_vars(Sweep)
  /\ WF_vars(EraseConnection) /\ WF_vars(BrowserReady)
  /\ SF_vars(Prune)

Spec     == Init /\ [][Next]_vars
FairSpec == Spec /\ Fairness

-----------------------------------------------------------------------------
(* Properties. *)

\* The ids of the kills that are queued and that nobody waits for.
AsyncKilled == {posted[i].id : i \in {j \in 1..Len(posted) : posted[j].client = Nobody}}

\* The GUI has made or destroyed x for a handler that has still to enter it.
InFlight(x) ==
  /\ call.id = x /\ resp.ret = "OK"
  /\ \/ call.op \in {"NewWebTab", "NewShortcut", "KillShortcut"}
     \/ call.op = "KillTab" /\ call.how = "force"

\* The server's books and the GUI's lists name the same tabs and shortcuts, but
\* for the kills still queued and the one request whose answer is under way:
\* although lease sweeps and closing connections kill without waiting, no tab
\* stays on screen unknown to the server and none is leased without a page.
BooksMatchScreen ==
  /\ \A t \in Tabs :
       (hasTab(t) <=> t \in DOMAIN pages \ AsyncKilled) \/ InFlight(t)
  /\ \A s \in Shortcuts :
       (s \in DOMAIN shortcutLeases <=> s \in shortcuts \ AsyncKilled) \/ InFlight(s)

\* There is one extra zone: extraTabId, which decides whether KillTab hides or
\* destroys, names the extra page whenever it names a page and never a tab
\* that is gone; a second extra page never appears while the first waits to be
\* swept; the zone is never shown empty.
ExtraZoneSound ==
  /\ \A t \in DOMAIN pages \cap DOMAIN tabLeases :
       t = extraTabId <=> pages[t] = "extra"
  /\ extraTabId # NoId => hasTab(extraTabId)
  /\ \A t, u \in DOMAIN pages : pages[t] = "extra" /\ pages[u] = "extra" => t = u
  /\ overlay => hasExtraPage

\* Every tab has at most one owner and, where tabs live by their connection,
\* exactly one that is open or being closed: a connection that is gone leaves
\* no tab behind, and a new one at the same address inherits none.
OwnersSound ==
  /\ \A c \in Conns : /\ connectionTabs[c] \subseteq DOMAIN tabLeases
                      /\ connectionTabs[c] # {} => c \in conns \/ c = closing
  /\ \A c, d \in Conns : c # d => connectionTabs[c] \cap connectionTabs[d] = {}
  /\ ByConnection => \A t \in DOMAIN tabLeases : \E c \in Conns : t \in connectionTabs[c]

\* The two threads and the queue between them cannot be told from a terminal
\* that serves each request in one step (Terminal): every answer is right at
\* the moment it is written, a tab goes only for a reason, no zone is overbooked.
Atomic == INSTANCE Terminal WITH up <- browserUp, tabs <- tabLeases,
            cuts <- shortcutLeases, owned <- connectionTabs, extra <- extraTabId

ImplementsTerminal     == Atomic!Spec
ImplementsTerminalLive == Atomic!FairSpec

\* No handler waits for ever on its CmdResponse: the GUI answers every command,
\* on each of its error paths too.
EveryCallReturns == call # NoCall ~> call = NoCall

\* A page the server does not know leaves the screen, or is that of a new tab
\* whose handler has still to enter it: the kills nobody waits for are done.
ForgottenPagesGo ==
  \A t \in Tabs : t \in DOMAIN pages /\ ~hasTab(t) ~> t \notin DOMAIN pages \/ hasTab(t)

-----------------------------------------------------------------------------
(***************************************************************************)
(* The inductive invariant behind these properties: what is in the queue   *)
(* and in the mailbox at each place of the server thread.                  *)
(***************************************************************************)

\* A signal somebody waits for is the last one in the queue, and the server
\* thread does nothing else until its mailbox is filled; then the queue is empty.
QueueShape ==
  /\ \A i \in 1..Len(posted) :
       posted[i].client # Nobody => i = Len(posted) /\ posted[i] = call
  /\ call # NoCall /\ resp = NoResp => posted # <<>> /\ posted[Len(posted)] = call
  /\ resp # NoResp => call # NoCall /\ posted = <<>>
  /\ call # NoCall => call.client \in conns /\ doomed = {} /\ closing = Nobody

\* A kill nobody waits for destroys, and what it names has left the books; a
\* sweep goes through what is in the books; only the extra tab is ever hidden.
KillsAreDue ==
  /\ \A i \in 1..Len(posted) : posted[i].client = Nobody =>
       /\ posted[i].id \notin DOMAIN tabLeases \cup DOMAIN shortcutLeases
       /\ posted[i].op = "KillTab" => posted[i].how = "force"
  /\ doomed \subseteq DOMAIN tabLeases \cup DOMAIN shortcutLeases
  /\ call.op = "KillTab" /\ call.how = "hide" => call.id = extraTabId

\* What a mailbox that says OK means for the screen.
MailboxTells ==
  /\ call.op = "NewWebTab" =>
       /\ call.id \notin DOMAIN tabLeases
       /\ call.id \in DOMAIN pages <=> resp.ret = "OK"
       /\ resp.ret = "OK" => (pages[call.id] = "extra" <=> call.how = "extra")
  /\ call.op = "NewShortcut" =>
       /\ call.id \notin DOMAIN shortcutLeases
       /\ call.id \in shortcuts <=> resp.ret = "OK"
  /\ resp.ret = "OK" =>
       /\ call.op = "KillTab" /\ call.how = "force" => call.id \notin DOMAIN pages
       /\ call.op = "KillShortcut" => call.id \notin shortcuts

\* Without a Browser there is nothing to kill, so no kill is lost.
NothingBeforeBrowser ==
  ~browserUp => /\ posted = <<>> /\ call = NoCall /\ doomed = {}
                /\ DOMAIN tabLeases = {} /\ DOMAIN shortcutLeases = {}

\* While a connection is being closed its remaining tabs are those to be swept.
ClosingSweeps ==
  /\ closing # Nobody => /\ closing \notin conns
                         /\ connectionTabs[closing] \subseteq doomed
  /\ ~ByConnection => \A c \in Conns : connectionTabs[c] = {}

IInv ==
  /\ TypeOK /\ QueueShape /\ KillsAreDue /\ MailboxTells /\ NothingBeforeBrowser
  /\ ClosingSweeps /\ BooksMatchScreen /\ ExtraZoneSound /\ OwnersSound

-----------------------------------------------------------------------------
(***************************************************************************)
(* What has to be true besides for each step of the two threads to be a    *)
(* step of Terminal, or none.                                              *)
(***************************************************************************)

\* What a sweep still has to kill has had its time, or its connection is the one
\* that is being closed.
SweepsAreDue ==
  /\ \A t \in doomed \cap Tabs :
       tabLeases[t] = 0 \/ (closing # Nobody /\ t \in connectionTabs[closing])
  /\ \A s \in doomed \cap Shortcuts : shortcutLeases[s] = 0

\* The GUI has only ever been asked for so many.
ScreenIsFinite == IsFiniteSet(DOMAIN pages) /\ IsFiniteSet(shortcuts)

BookedTabs == DOMAIN tabLeases \ {extraTabId}

\* A reply that was right about the screen when the GUI gave it is right about the
\* books when the handler that waits for it reads it.
RepliesTrue ==
  resp # NoResp =>
    /\ call.op = "NewWebTab" =>
         \/ /\ resp.ret = "OK"
            /\ IF call.how = "extra" THEN extraTabId = NoId
                                     ELSE Cardinality(BookedTabs) < MaxTabs
         \/ /\ resp.ret = "EXEC_ERROR"
            /\ call.how = "extra" => extraTabId # NoId
            /\ call.how = "any" => Cardinality(BookedTabs) >= MaxTabs
    /\ call.op \in TabOps \cup {"KillTab"} =>
         resp = [ret |-> IF hasTab(call.id) THEN "OK" ELSE "INVALID_TAB", body |-> {}]
    /\ call.op = "GetTabMap" => resp = [ret |-> "OK", body |-> BookedTabs]
    /\ call.op = "NewShortcut" =>
         \/ /\ resp.ret = "OK" /\ ShortcutsEnabled
            /\ Cardinality(DOMAIN shortcutLeases) < MaxShortcuts
         \/ /\ resp.ret = "EXEC_ERROR"
            /\ call.how = "any" => \/ ~ShortcutsEnabled
                                   \/ Cardinality(DOMAIN shortcutLeases) >= MaxShortcuts
    /\ call.op = "KillShortcut" =>
         resp.ret = IF call.id \in DOMAIN shortcutLeases THEN "OK" ELSE "INVALID_TAB"
    /\ call.op = "GetShortcuts" => resp = [ret |-> "OK", body |-> DOMAIN shortcutLeases]

RefinementInv == IInv /\ SweepsAreDue /\ ScreenIsFinite /\ RepliesTrue
=============================================================================
