# A verification project for open-madt

`open-madt` is the server of a MADT, a Multi-Application Driver Terminal: the
screen in a driver's cabin on which onboard applications show web tabs. Clients
talk JSON over TCP to a libevent server thread; a Qt thread owns the screen.
This directory holds TLA+ modules translated from that code, TLC configurations
that check them on small instances, and TLAPS proofs of what matters most for
every instance.

Paths and line numbers are those of `src/`. `PROJECT.json` maps each definition
to the lines it stands for.

## 1. Inventory

### Components

| Component | Source | State it keeps | Operations |
|---|---|---|---|
| Server thread: tabs and shortcuts | `madt-server.cpp`, `.h` | `tabLeases`, `shortcutLeases`, `connectionTabs`, `extraTabId` | NewWebTab, KillTab, ActivateTab, BlinkTab, NavigateTo, GetTabMap, IAmAlive, the shortcut requests, accept, close, lease sweep |
| Server thread: control | `madt-server.cpp` 354-399, 704-732 | `controlNonces` | GetRandom, Stop, Restart, CaptureScreenshot, pruning |
| Server thread: framing | `madt-server.cpp` 518-571, 1125-1203 | `connectionBuffers` | splitting bytes into JSON objects |
| Server thread: settings | `madt-server.cpp` 918-963, `runtime-config.cpp` 330-454 | `settingsState` | GetSettings, SetSettings |
| GUI bridge | `gui.cpp`, `gui.h` | `browser`, `appInstance`, `requestedExitCode`, the startup state | one wrapper per command; `run`, `stop`, `requestExit` |
| GUI thread: pages | `Browser.cpp` | `list`, the tab bar, blink timers, the extra overlay | `on...` slots, position allocation, `syncTabOrder` |
| GUI thread: shortcut panel | `Browser.cpp` 398-537, 1146-1250 | `shortcuts`, the popup grid | position allocation, popup |
| Icon loader | `IconLoader.cpp` | `cache`, `pending` | load, reply |
| DNS-SD | `AvahiService.cpp` | client, group, name, TXT records | start, stop, setTxt, callbacks on the Avahi thread |
| Process | `process.cpp`, `main.cpp` | the libevent base and its events | setup, run, stop, end, signals |
| Configuration | `runtime-config.cpp` | none after the start | load, validate |
| Logging, watchdog | `loghelper/`, `utils/wdog.cpp` | none | text, stubs |

`dns-sd-advertiser.cpp` is not part of the build. `MADT_USE_AVAHI` is off by
default; without it `AvahiService` keeps the records and announces nothing.

### How they interact

- **Synchronous commands.** A request handler posts a queued Qt signal with a
  pointer to a `CmdResponse` on its own stack and waits on the condition variable
  in it, without a timeout. One server thread serves every client, so at most
  one command is waited for.
- **Asynchronous kills.** The lease sweep and the end of a connection post the
  same signals with a null pointer and update the server's books at once.
- **Two sets of books.** The server never reads the GUI's `list`. It decides from
  `tabLeases`, `connectionTabs` and `extraTabId`.
- **Unlocked globals.** `browser`, `appInstance`, `requestedExitCode` and the
  libevent base are read and written by both threads.
- **Timers.** A 1 s libevent timer prunes leases and nonces; a 2 s Qt timer
  creates the Browser; each page has a blink timer.
- **Callbacks.** The icon loader calls back tabs and shortcuts alike, at once from
  its cache or when a reply arrives. libavahi calls back on a thread of its own,
  while the server thread gives it new records.
- **A pointer across threads.** GetCharacteristics takes the page in front from the
  GUI thread's widgets and reads its size on the server thread.

### What is hard, and what correct means

- *Interleaving.* Books and screen are never equal at every moment; they must
  agree once queued kills and the request under way are accounted for.
- *Time.* A renewal races the sweep; a nonce has two expiry tests, `<` and `<=`.
- *Limits.* Slots, thirds, one extra zone, shortcut count: a refusal must be for
  want of room, and an acceptance must come with a place.
- *Start and end.* Either thread may end first, at any moment of the other.
- *Waiting.* The server must get its answer on every error path of every slot.
- *Faces.* A tab's icon is written by its timer, by replies, by re-sorting and by
  requests; none may leave it dark, or with the icon of another.
- *Outside.* An Avahi daemon comes and goes, changes its host name, refuses, and
  reports collisions; what is announced must be the latest under a free name.

The complete list, each at its line, is `hazards` in `PROJECT.json`.

## 2. Modules

| Module | What it is |
|---|---|
| `TabLifecycle` | both threads and the queue between them, for tabs and shortcuts |
| `Terminal` | the abstract terminal: each request in one step |
| `MCTabLifecycle` | symmetry for TLC |
| `TabLifecycle_proofs` | type correctness; the inductive invariant and the safety theorems; the refinement of `Terminal` |
| `TabLayout` | positions, zones, bar and labels inside the GUI thread |
| `MCTabLayout` | values of its constants for TLC |
| `TabLayout_proofs` | positions, zone order, refusals, who may move, the bar |
| `TabBar` | the page in front, blinking, the faces of the tabs, the overlay |
| `ShortcutPanel` | places of the shortcuts, the launcher, the popup and its buttons |
| `IconLoader` | cache and pending callbacks; the two above extend it |
| `Screen` | `TabBar` and `ShortcutPanel` over the one loader they share |
| `MCScreen` | places and symmetry for TLC |
| `Screen_proofs` | faces, the page in front, the bar, places, buttons, icons |
| `Shutdown` | the two threads from `main` to `join` |
| `Shutdown_proofs` | who can be left behind, and when |
| `ControlAuth` | nonces and the tokens signed with them |
| `ControlAuth_proofs` | once, in time, dependably |
| `Framing` | how a connection's bytes become requests |
| `MCFraming` | objects and junk for TLC |
| `Framing_proofs` | the scanner against the grammar; objects understood, nothing lost, nothing kept waiting |
| `Settings` | SetSettings, its effects, the start of the Browser, pages that load |
| `MCSettings` | values for TLC |
| `Settings_proofs` | what is in force; conversions; loaded pages |
| `Avahi` | the DNS-SD service, libavahi's thread and the daemon |
| `Avahi_proofs` | records, host names, collisions |

### TabLifecycle

State: the four maps of `madt-server.h`, with a lease as the ticks it has left or
`Forever` (`std::nullopt`); the command the server thread waits for (`call`), the
ids its sweep still has to kill (`doomed`), the connection being closed
(`closing`); the GUI's `pages`, `shortcuts` and `overlay`; the queue `posted` and
the mailbox `resp`.

A handler that waits is two actions: the request, up to the wait (`Ask`), and the
return, from the wait to `sendResponse` (`Return...`). Each GUI slot is one
action, `On...`, as it runs to completion on its thread. A sweep is one action to
collect what has run out and one per kill, since the GUI thread runs between two
kills; the clock may tick anywhere. A bufferevent pointer may be reused as soon as
its connection is closed. Where a place is asked for, `Room` leaves open whether
there is one; `TabLayout` says when.

One race is left out here: all wrappers but `Gui::NewWebTab` look at `browser`
twice, and `Ask` looks once. `Shutdown` has the second look.

### Terminal

The same clients, tabs, leases and limits with no threads and no queue: every
request takes effect, and is answered, in one step; a tab goes only because it
was killed, ran out, or lost its connection. `TabLifecycle` instantiates it with
its books as the abstract state (`Atomic`), and `ImplementsTerminal` says every
behaviour of the two threads is one of this machine: an answer is right at the
moment it is written, whatever is still in the queue. `ImplementsTerminalLive`
adds that what must go does go.

### TabLayout

State: for each page its URL, preferred place, logical position and the label on
its tab; the tabs of the bar from left to right. One action per request, as the
GUI thread handles one at a time: `NewWebTab`, `KillTab`, `NavigateTo`, each with
the reallocation of its third and the re-sorting of the bar that the code does in
the same call. `syncTabOrder` is modelled tab move by tab move, `QTabBar::moveTab`
being removal and insertion. URLs and ids are numbers because only their order
is used.

A third that is full of tabs that asked for it makes `allocateZonePosition` index
past its vector. The word read there is any member of `Garbage`; the model then
stops (`overrun`), because the code has no defined behaviour left. That is why
the deadlock check is off in these runs.

### Screen: TabBar, ShortcutPanel, IconLoader

The GUI thread seen by the user. `TabBar` has the pages with icon, blink timer and
the face of their tabs, the bar and its `currentWidget`, the extra overlay, the
kills in the queue that nobody waits for, and the page whose size the server
thread is reading. Each slot is one action, as in `TabLifecycle`, with the
re-sorting and the icons of `syncTabOrder` in it; a new or moved tab may end up in
any order of the bar, which is `TabLayout`'s concern. `QTabWidget::removeTab` brings
the neighbour on the right to the front, or the last tab. A request that is waited
for comes after the kills queued before it (`Awaited`). The user taps tabs, of which
`Browser` does not hear: no signal of the tab widget is connected.

`ShortcutPanel` has the map of shortcuts, their places, the launcher's count and
the popup as the row of buttons it was last rebuilt to. `IconLoader` keeps, for each
URL, what was loaded and who waits. `Screen` composes them: a reply is one step
for all who wait for it, tabs and shortcuts. An icon is named by its URL; a failure
is `NoIcon` and is cached like an icon.

`how` (how the page in front came there) is a history variable.

### Shutdown

State: where each thread is, the queue of the GUI thread (`quit` or a command),
the globals of `gui.cpp`, the libevent base with its break flag and its scheduled
exit, and what is left of the requests that arrived in one read. Each access to a
shared global is an action of its own, but for the last read of `appInstance`: SetSettings,
PlaySound, CaptureScreenshot and `Gui::stop` test it (`TestApp`, `TestAppForQuit`)
and read it again for `invokeMethod` (`PostCommand`, `PostQuit`), and the second read may
come at any moment up to the call, or be left out by a compiler, as nothing orders
it. `SecondLook` has both outcomes: the application, which may be dead when the call
is made, or what the global holds by then, which may be null. On null nothing is
queued, `call.posted` stays false, and the handler waits all the same. Three history variables (`controls`,
`closed`, `early`) remember which controls were handled, whether the user closed
the window, and whether a stop was asked before `exec`. The use of a destroyed
object sets `fault`; the behaviour goes on as if the call had been lost, and the
liveness properties also accept the crash it may be. The process may really stop,
so the deadlock check is off.

What the code relies on in Qt and libevent is modelled from their documented
behaviour and marked external in the map: a `quit` delivered before `exec` does
nothing; `exec` delivers what is queued before it returns; `event_base_loop`
clears the break flag on entry and returns right after the callback that set it.

### ControlAuth

State: `controlNonces` as in the code, plus the history of each nonce: when it was
issued, how often and when it authorised a request. Tokens are signed for one
nonce and one operation, or not signed. Any client may send any token at any
time, any number of times. It assumes a `controlPsk`: with a plain password no
state is kept.

### Framing

State: the bytes kept per bufferevent, the loop of `request()` turn by turn, and
which connections are open. A client writes a sequence of objects, blanks and
junk; TCP delivers its bytes in pieces of any size, and only the model knows where
one ends. Bytes are reduced to the six kinds the scanner tells apart. A freed
bufferevent's address may be used again. History: the texts handed to a handler,
and the last moment (`mark`) at which nothing was kept between two pieces.

What junk does depends on the cuts: it is one request together with all that was
read with it, and a brace in it that arrives on its own begins an object that may
never end. The properties therefore promise objects after junk only from the
first read that begins between two pieces with nothing kept.

### Settings

State: the settings in each place they exist (server, Browser, the document of
each page, mixer, panel, TXT record), the call under way, and whether application
and Browser exist. The GUI carries out a SetSettings in one step, as its scripts
are waited for without an event loop; each effect may fail, with or without having
been felt. Pages navigate, replace their document and finish loading whenever
they like. Three fields stand for the ten. The end of the process is in `Shutdown`
only.

### Avahi

State: the service (`m_txt`, `m_group`, `renameCount` for the current name), where
the server thread is, the client's connection, and outside of it the daemon, its
host name, its signals under way and what it announces. `setTxt` assigns `m_txt`
before it takes the poll lock, so the assignment has two ends (`Assign`, `Assigned`)
and a callback in between may read anything (`Torn`) or crash (`TornRead`). What the
daemon may do (be away, come, register, change its name, refuse, report a collision)
is external. Histories: names found taken, whether the last attempt was refused,
and whether a group was left as it was.

## 3. Runs

| Run | Instance | Question |
|---|---|---|
| `TabsByConnection` | 2 connections, 3 tabs, 2 slots, tabs die with connections | books against screen, extra zone, owners, atomicity |
| `TabsLive` | 1 connection, 2 tabs, 2 shortcuts, limits of 1, tabs outlive connections (the default) | every handler returns, everything due goes, also as the abstract terminal sees it |
| `LayoutPlaces` | 3 tabs, 2 URLs, 7 slots, every kind of place but the middle third | positions, zones, bar, refusals, who may move |
| `LayoutOverrun` | 3 tabs, thirds of 2 | violation: an accepted tab without a slot |
| `ScreenFaces` | 2 tabs, 2 shortcuts, one icon URL, a panel of 2 places; 647,906 states | faces, the page in front, places, popup, icons, the size read across threads |
| `ShutdownBoth` | 3 requests, 2 in a read | who can be left behind, and why; either thread takes the other down |
| `StopAnswer` | 1 request | violation: Stop is not answered |
| `ControlNonces` | 3 nonces, ttl 2, clock to 4 | once, in time, good for its ttl, forgotten |
| `FramingCuts` | 1 address, 2 connections one after the other, 3 pieces each out of 3 objects, 2 kinds of junk and blanks | objects are the requests, nothing lost, nothing kept waiting |
| `SettingsInForce` | 2 volumes, 2 brightnesses, 3 modes, 1 page | what is in force, what loaded pages know |
| `EarlySettings` | the same | violation: settings accepted and undone |
| `AvahiAnnounces` | 2 records, 2 collisions, 2 changes of the host name, 1 failed group under way; 35,318 states | what is announced, why it may not be, that it comes back |

Type invariants are not among the runs' properties where a proof has them as part
of its inductive invariant.

### Why the bounds are enough

- Two connections make an owner and a stranger, and a pointer that is reused.
  Three tabs are one more than the slots, so a tab can be waiting to be swept,
  one on screen and one refused. Leases of 0, 1 and `Forever` separate "run out",
  "may run out" and "never renewed". The queue is not bounded: at most one command
  is waited for, and the number of asynchronous kills is bounded by the tabs.
- Seven slots give the thirds two, two and three, so a third can be half full, full,
  and partly held by strangers, and the last one is larger than the others as it is
  with the real `MAX_TABS` of 20. The middle third and more tabs are left to the
  proofs, which hold for every number.
- In `ScreenFaces` two tabs are one in front and one that blinks; tabs and
  shortcuts share the one URL, so a reply reaches several at once; two shortcuts
  fill the panel and compete for its last place. Each id is used once.
- Two collisions make a name taken again after it was given up, two changes of the
  host name a group that was left behind and one that was not.
- In `Shutdown` two requests in one read are what it takes to have one behind a
  Stop; everything else of the module is finite.
- Three nonces allow one to be used, one to run out and one to be pruned while
  the clock passes every boundary of a ttl of two.
- The three objects of `FramingCuts` hold every construct the scanner reacts to,
  nested and escaped; three pieces put an object before and after junk, and every
  cut of them is tried.
- In `Settings` one value in range and one beyond, and one page, are enough: pages
  do not see each other, and the proof covers any number.

Symmetry is used only in `TabsByConnection` and `ScreenFaces`, safety runs whose ids
and connections are compared for equality alone.

### Fairness

- `TabLifecycle`: weak fairness of the GUI thread, of a handler's return, of a
  sweep and of the creation of the Browser: both threads run, and nothing else
  disables these steps. Strong fairness of `Prune`: between two callbacks libevent
  runs an expired timer, but a busy server is again and again in the middle of
  a request, so the step is enabled repeatedly rather than for good.
- `Shutdown`: weak fairness of each thread and of the startup timer. No client has
  to send anything, no signal has to come, no user has to close the window.
- `ControlAuth`: weak fairness of the clock and of the pruning.
- `Avahi`: a call of `setTxt` goes on to its end, libavahi's thread dispatches what is
  due, and a daemon that registers a host name comes to run. It need not stay, nor
  accept the service.

### What the runs showed

- `LayoutOverrun` (`Browser.cpp` 749, 759): a third full of tabs that asked for it
  accepts one more, with a position read outside a vector.
- `StopAnswer` (`madt-server.cpp` 971-973): Stop and Restart break the loop in the
  callback that buffers their answer, which is therefore never written; the
  repository's conformance test expects it.
- `EarlySettings` (`gui.cpp` 291-297, 482): a SetSettings that is answered OK before
  the Browser exists is undone when it is created, and GetSettings does not say so.
- `ShutdownBoth` names the circumstances of the other ways to be left behind, each
  of which TLC reaches: the screen stays without a server only when a stop came
  before `exec` (`HeadlessOnlyIfEarly`), which a failed bind at startup can cause;
  the server stays without a screen only if the window was closed before the loop
  was entered (`OrphanedOnlyIfClosed`); the join waits for a server that waits for
  the GUI when the window is closed under a request or a request comes behind a
  Stop in the same read (`UnservedOnlyIfWarned`); the application object is used
  after its end when Stop has already asked it to quit and the thread asks again
  after its loop (`AppOutlivesItsUses`); a request that looks at `browser` just
  before and just after the Browser is created waits for ever for a command nobody
  posted, as all wrappers but `NewWebTab` look twice (`gui.cpp` 359-364 and its like,
  `UnpostedIsALaterLook`); so does a SetSettings, PlaySound or CaptureScreenshot that
  tests `appInstance` just before and reads it again just after a GUI that was told to
  quit has forgotten it (`gui.cpp` 318 against 482-487), with the window closed or a
  Stop handled first.
- `SettingsInForce` names two more: after a failed effect the others stay changed
  while GetSettings answers the old values (`gui.cpp` 491-497), until the next
  SetSettings that succeeds.
- `AvahiAnnounces` names when a running service is not announced: the daemon has left
  (the client is made without `AVAHI_CLIENT_NO_FAIL` and never reconnects), has
  refused it or given it up (a failed group is only logged, `AvahiService.cpp` 162-164),
  has no host name yet, or a callback is under way
  (`UnannouncedOnlyIfKnown`). When the daemon runs again under another host name the
  group is left as it was (`AvahiService.cpp` 192-195), and keeps the old one until
  the next `setTxt`. A name that is refused when it is added, as one used on the
  same host is, is not tried under another.

Everything else that is stated holds.

### Seen while modelling

No run is made of these; most are matters no document of the repository speaks of.

- `WDOGREADY` is called whether or not the socket could be bound (`main.cpp` 26-28),
  though the comment there wants readiness to reflect the control socket: in
  `Shutdown`, `Announce` follows either outcome of `Start`.
- A tap on a tab that blinks does not stop its blinking; only ActivateTab does, and
  BlinkTab for a tab that blinks starts its interval anew with the face it has.
- An icon that failed to load is not asked for again while the process runs.
- The page whose size GetCharacteristics reads (`gui.cpp` 389-396) may be deleted
  under it by a lease sweep or a closed connection, but never by a request
  (`MeasuredUnlessSwept`).
- In a build with Avahi, `AvahiService::start` throws without a daemon, and nothing
  catches it on that thread: the process ends.
- Records read by a callback while `setTxt` replaces them are undefined behaviour; if
  the process survives it, the end of that `setTxt` announces the right ones.

## 4. Proofs

All theorems hold for every value of the constants under the modules' named
assumptions, which say only that the constants are of the right kind (ids are
disjoint, limits are naturals, `Nobody` is no connection, the ttl is positive, the
objects of `Framing` are objects of JSON).

**TabLifecycle.** `TypeCorrect` (`Spec => []TypeOK`) is proved alone, one lemma per
group of actions. The safety properties are not inductive: whether a kill in the
queue may remove a page depends on what the queue may contain. `IInv` adds

- `QueueShape`: the awaited command is the last in the queue, the mailbox is filled
  only when the queue is empty, and a handler that waits excludes a sweep;
- `KillsAreDue`: an unawaited kill destroys and names an id that has left the
  books; a sweep goes through ids that are in the books; only the extra tab is
  ever hidden;
- `MailboxTells`: what OK in the mailbox means for the screen;
- `NothingBeforeBrowser`: with no Browser there is nothing to lose;
- `ClosingSweeps`: the tabs of a closing connection are those still to be swept.

`InductiveInvariant` proves it step by step; `BooksAlwaysMatch`,
`ExtraZoneAlwaysSound` and `OwnersAlwaysSound` are its conjuncts. Every step of the
proof is an action of one of the two threads.

`TwoThreadsAreOne` proves the refinement, `Spec => ImplementsTerminal`: a request that
is answered at once, the return of one that waited, a sweep's kill and the tick map
to the step of `Terminal` with the same answer; the GUI thread's slots and what else
the server thread does leave its variables alone. The hard step is the return. The
answer was written by the GUI thread, about its screen; it is read later, when the
books decide. `RefinementInv` adds to `IInv`

- `RepliesTrue`: an answer in the mailbox is the answer `Terminal` would give to that
  request, said of the books; this is where `IInv` is used, since the screen and
  the books differ by what is queued, and nothing but the awaited command is
  queued before it is handled;
- `SweepsAreDue`: what a sweep has still to kill has run out, or belongs to the
  connection being closed, so the kill is a step `Terminal` may take;
- `ScreenIsFinite`: the pages and shortcuts are finitely many, without which
  counting them against the limits says nothing.

TLC checks the refinement, `RefinementInvariant` proves these three for every
behaviour. The refinement of the fair specification is liveness and is only checked.

**TabLayout.** `LayoutInv` is types plus positions plus zone order. A rearranged
third gets distinct slots out of those its tabs held and the free ones, so it
cannot touch a neighbour, and any assignment that is increasing along the URL
order keeps the zone sorted. `PositionsAlwaysSound` and `ZonesAlwaysInOrder` follow,
for every `MAX_TABS`, up to the moment a vector is overrun.

`RefusalsForWantOfSlots` needs the converse, that an order is always found: in a
finite total order the rank of an element, how many come before it, is a bijection
with 0, 1, ... (`RanksWithoutGap`: strictly growing, hence injective, hence onto by
counting), so the pages of a third and as many slots can be laid side by side
(`Sortable`), at either end of the third (`FirstOnes`). And normal pages, which have
distinct slots, are `MAX_TABS` only when every slot is taken (`PagesFit`).
`OthersAlwaysStay` needs no invariant.

`BarAlwaysShowsPositions` is about the loop of `syncTabOrder`. That an order exists is the
ranks again; that the loop has a value at all, and which, is induction over its turns
(`Iterates`, as in `Framing`). After turn i the first i tabs are those of the order and
no tab is lost or doubled (`PutSettles`): the tab that belongs at i cannot stand to the
left of it, so it is moved left and only pushes those after i. The invariant `BarInv` is
the property with that "every page once".

**Screen.** A page is sound by itself (`FaceSound`). To know which page comes to the
front when one is removed, `TabInv` adds the bar: every normal page stands in it
once and one of them is in front (`BarSound`, `FrontSound`); and that a page whose kill
is queued is still there, since no request overtakes it. `PanelInv` says that places
are distinct and in range, `IconInv` that whoever waits for a URL has asked for that
one, so a reply dresses nobody else. From these `TabsWearTheirIcons`,
`AttentionEndsInFront`, `BarHoldsThePages`, `RequestsSpareTheMeasured`, `FrontKept`,
`PlacesOfTheirOwn` and `NobodyForgotten`. `ButtonsAreTheShortcuts` needs the places
too: they make the shortcuts of the popup finitely many with distinct ranks, so that
an order by place exists and is the only one, and the popup, once rebuilt, is the
list of the live ones (`PopupTrue`).

**Shutdown.** Everything rests on where a quit can come from (`QuitsExplained`): the
user, a control, or a server thread that has left its loop for good. A handled
control leaves the loop broken and the server out of its callbacks' reach
(`Places`); a server that has ended, for a GUI it could still reach, has left a quit
behind it (`StopsInTime`); a command that is waited for is queued unless a quit could
overtake it (`CommandsQueued`). A second look at `appInstance` can be null only after the
GUI has left `exec`, since the first saw the application (`Places`), and then a quit has
been delivered, which `QuitsExplained` traces to the user or a control: so
`WaitsArePosted`, the lists of circumstances in `WaitsAreServed`, and `AppUsedInItsLife`.
With `CodesReturned` and the types, which need the
request being handled to be the first of its batch (`BatchHeld`), this is inductive,
and the six safety properties of `ShutdownBoth` follow for any number of requests
and any reads they come in.

**ControlAuth.** `NonceInv` ties the map to the history: an entry still known has
the expiry of its issue and is marked exactly when it was granted; one that is
not known was granted or has run out. `NonceAuthorisesOnce`, `NonceAuthorisesInTime`
and `NonceGoodForItsTtl` follow.

**Settings.** `SettingsInv` follows the settings that are due: those of the call
once it has succeeded, of the books otherwise. They are in force unless an effect
failed or there was no Browser when they were accepted, and before any acceptance
they are the configuration's, with which the Browser begins.
`InForceAlwaysUnlessKnown` and `PagesAlwaysShowLive` follow for every configuration,
any values and any number of pages; `PercentInRange` and `PanelInRange` say that the
conversions stay on their scales, whatever is sent.

**Avahi.** The properties speak of the moments between two calls of `setTxt`. `Inv` adds
what holds within one, that only a connected client announces anything and under
the current name, and that a group that is neither empty nor announced was refused
or has collided, in which case the callback that resets it is still to come.
`LatestAnnounced`, `AnnouncedIfNothingIsWrong` and `TakenNamesGivenUp` follow, for any
number of collisions and host names.

**Framing.** `IsObject` says what an object of JSON is to a scanner: an assignment of the
bytes to strings and escapes that obeys the rule of each quote and backslash, with
braces that balance at the last byte and not before. The proof is in four layers.

- Induction over a text. The library's induction theorems take an operator, so the
  numbers for which a statement holds are made a set, and a set that has 0 and is
  closed under successor has all of them (`NatSet`, from the well-foundedness of
  `<`). With it the recursive function `Scan` is shown to exist and to run byte by byte
  (`ScanRuns`), and `FlattenSeq` to be what it should (`FlattenAppend`, `FlattenConcat`).
- The scanner agrees with the grammar after every byte of an object (`ScanAgrees`),
  hence stops at its end and not before (`EndFound`, `EndNotFound`), whatever follows.
- `Extract` has four ways out (`ExtractCases`). None loses a byte that is no blank
  (`ExtractKeeps`), which with the empty buffers of free addresses (`OwnBuffers`) gives
  `NoByteIsLost`; and one that finds nothing keeps at most one beginning, which gives
  `NothingWholeIsKept`.
- `RequestsAreTheObjects` relates a buffer to the history. `InStep`: it is the last bytes
  that came; and when none of those since the mark are junk's, it begins at a border
  of what the client wrote, with the objects up to there, and no others, handled. A
  turn of the loop moves to the next border (`InStepHandle`), a read appends
  (`InStepRead`), the loop's end keeps it or sets the mark (`InStepKept`, `InStepMarked`).
  At rest the buffer is one beginning, so no whole object lies behind that border.

### Only model-checked

Liveness (`EveryCallReturns`, `ForgottenPagesGo`, `ImplementsTerminalLive`,
`ServerTakesGuiDown`, `GuiTakesServerDown`, `ForgottenAtLast`, `ComesBack`), which the
prover does not reach. Every other property of a passing run is a theorem.

## 5. Not modelled, and why

- The output buffers of the connections, and with them answers still unwritten
  when a client closes its sending side (`madt-server.cpp` 182). What is lost then
  depends on the order in which libevent runs two callbacks of one socket, which
  nothing in `src/` fixes. `Shutdown` has the buffer of answers where the code itself
  cuts it off, behind a Stop.
- Runtime configuration, logging, sound and screenshot files: reading, writing and
  formatting with no state that outlives the call.
- `dns-sd-advertiser.cpp`: not built.
- `waitForStartupReady` (`gui.cpp` 337-342): never called.
- The window systems, Chromium, the network: external.

## 6. Plan

1. Output buffers and half-closed clients, in `Framing`.
2. Proofs: that `Room` of `TabLifecycle` agrees with `Allocate` of `TabLayout`.
