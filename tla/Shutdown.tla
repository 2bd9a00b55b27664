------------------------------ MODULE Shutdown ------------------------------
(***************************************************************************)
(* How the process starts and ends.  main.cpp runs two threads: the GUI    *)
(* thread (Gui::run, then Process::stop, then join) and the server thread  *)
(* (Process::setup, Server::start, Process::run, Gui::stop, Process::end). *)
(* They meet in the globals of gui.cpp and process.cpp, which no lock      *)
(* protects: appInstance, browser, requestedExitCode, the startup state,   *)
(* and the libevent base with its break flag.                              *)
(*                                                                         *)
(* Qt is modelled by what the code relies on: queued calls are delivered   *)
(* in order by the GUI thread's event loop; "quit" delivered before exec   *)
(* has begun does nothing; an exec that was asked to quit delivers what is *)
(* queued and returns; what is queued afterwards is never delivered.       *)
(* libevent likewise: event_base_loop clears event_break on entry and      *)
(* returns, when it is set, right after the callback that is running.      *)
(*                                                                         *)
(* A request is only as detailed as its use of these globals.  "NewTab"    *)
(* tests browser once; "UseTab" (KillTab, BlinkTab, GetTabMap, ...) tests  *)
(* it again for its result; "App" (SetSettings, PlaySound,                 *)
(* CaptureScreenshot) tests appInstance and reads it again for the call;   *)
(* Stop and Restart end the process.  Requests answered without the GUI    *)
(* are left out.                                                           *)
(***************************************************************************)
EXTENDS Naturals, Sequences, SequencesExt

CONSTANTS
  MaxRequests,     \* bound: requests read in a behaviour
  MaxBatch         \* bound: requests that arrive in one read

ASSUME BoundsAssumption == MaxRequests \in Nat /\ MaxBatch \in Nat \ {0}

Control == {"Stop", "Restart"}
Requests == {"NewTab", "UseTab", "App"} \cup Control
Batches == UNION {[1..n -> Requests] : n \in 1..MaxBatch}

VARIABLES
  gui,          \* where the GUI thread is
  srv,          \* where the server thread is
  events,       \* calls queued for the GUI thread: "quit" or "command"
  app,          \* appInstance is set
  browser,      \* browser is set
  startup,      \* startupReady and startupCancelled
  fired,        \* the startup timer has fired
  quitting,     \* exec has been asked to quit
  base,         \* the libevent base: "none", "live" or "freed"
  listening,    \* the control socket is bound
  ready,        \* WDOGREADY was called
  looping,      \* the server thread is inside event_base_loop
  brk,          \* event_break of the libevent base
  term,         \* a loopexit is scheduled in the libevent base
  batch,        \* what is left of the bytes being handled, as requests
  out,          \* answers buffered but not written: "answer", "control"
  call,         \* the running GUI call: was it posted, was it answered
  exitCode,     \* requestedExitCode
  code,         \* what Gui::run returned
  fault,        \* an object was used after its destruction
  budget,       \* requests that may still be read
  controls,     \* history: exit codes the handled controls asked for
  closed,       \* history: the user closed the window
  early         \* history: a stop was asked before exec began

guiVars == <<app, browser, startup, fired, quitting>>
loopVars == <<base, listening, ready, looping, brk, term>>
reqVars == <<batch, out, call, budget>>
srvVars == <<loopVars, reqVars>>
endVars == <<fault, closed, early>>
codeVars == <<exitCode, code, controls>>
vars == <<gui, srv, events, guiVars, srvVars, codeVars, endVars>>

NoCall == [posted |-> FALSE, answered |-> FALSE]

Init ==
  /\ gui = "boot" /\ srv = "setup" /\ events = <<>>
  /\ app = FALSE /\ browser = FALSE /\ startup = "pending"
  /\ fired = FALSE /\ quitting = FALSE
  /\ base = "none" /\ listening = FALSE /\ ready = FALSE
  /\ looping = FALSE /\ brk = FALSE /\ term = FALSE
  /\ batch = <<>> /\ out = {} /\ call = NoCall
  /\ exitCode = 0 /\ code = 0 /\ fault = "none"
  /\ budget = MaxRequests
  /\ controls = {} /\ closed = FALSE /\ early = FALSE

BeforeExec == gui \in {"boot", "born", "reset", "splash", "shown"}
InExec     == gui \in {"exec", "building"}
AppGone    == gui \in {"returned", "breaking", "joining", "exited"}
AfterExec  == gui \in {"left", "forget"} \/ AppGone

----------------------------------------------------------------------------
(* The GUI thread: Gui::run *)

\* QApplication app; appInstance = &app.
Born ==
  /\ gui = "boot"
  /\ gui' = "born" /\ app' = TRUE
  /\ UNCHANGED <<srv, events, browser, startup, fired, quitting, srvVars,
                 codeVars, endVars>>

ResetExitCode ==
  /\ gui = "born"
  /\ gui' = "reset" /\ exitCode' = 0
  /\ UNCHANGED <<srv, events, guiVars, srvVars, code, controls, endVars>>

\* setStartupState(false, false), whatever the server thread stored before.
ResetStartup ==
  /\ gui = "reset"
  /\ gui' = "splash" /\ startup' = "pending"
  /\ UNCHANGED <<srv, events, app, browser, fired, quitting, srvVars, codeVars,
                 endVars>>

\* Faulty: the calls queued before exec are discarded.
SplashDropping ==
  /\ gui \in {"splash", "shown"}
  /\ gui' = IF gui = "splash" THEN "shown" ELSE "exec"
  /\ events' = <<>>
  /\ UNCHANGED <<srv, guiVars, srvVars, codeVars, endVars>>

\* One of the two processEvents calls before exec: commands are carried out,
\* a quit finds no event loop to leave.
Splash ==
  /\ gui \in {"splash", "shown"}
  /\ gui' = IF gui = "splash" THEN "shown" ELSE "exec"
  /\ events' = <<>>
  /\ call' = [call EXCEPT !.answered = @ \/ Contains(events, "command")]
  /\ UNCHANGED <<srv, guiVars, loopVars, batch, out, budget, codeVars, endVars>>

\* exec, or a processEvents nested in the startup timer, delivers the next call.
Deliver ==
  /\ InExec /\ events # <<>>
  /\ events' = Tail(events)
  /\ \/ /\ Head(events) = "quit"
        /\ quitting' = TRUE /\ UNCHANGED call
     \/ /\ Head(events) = "command"
        /\ call' = [call EXCEPT !.answered = TRUE] /\ UNCHANGED quitting
  /\ UNCHANGED <<gui, srv, app, browser, startup, fired, loopVars, batch, out,
                 budget, codeVars, endVars>>

\* The startup timer: browser is created unless startup was cancelled.
TimerFires ==
  /\ gui = "exec" /\ ~fired
  /\ fired' = TRUE
  /\ IF startup = "cancelled"
       THEN UNCHANGED <<gui, browser>>
       ELSE gui' = "building" /\ browser' = TRUE
  /\ UNCHANGED <<srv, events, app, startup, quitting, srvVars, codeVars,
                 endVars>>

\* Faulty: Qt takes the end of the splash for the last window's.
BuiltQuitting ==
  /\ gui = "building"
  /\ gui' = "exec" /\ startup' = "ready" /\ quitting' = TRUE
  /\ UNCHANGED <<srv, events, app, browser, fired, srvVars, codeVars, endVars>>

\* Its end: setStartupState(true, false), whatever was stored in between.
Built ==
  /\ gui = "building"
  /\ gui' = "exec" /\ startup' = "ready"
  /\ UNCHANGED <<srv, events, app, browser, fired, quitting, srvVars, codeVars,
                 endVars>>

\* The user closes the only window: Qt queues a quit.
CloseWindow ==
  /\ InExec /\ ~closed
  /\ closed' = TRUE /\ events' = Append(events, "quit")
  /\ UNCHANGED <<gui, srv, guiVars, srvVars, codeVars, fault, early>>

\* exec returns once the queue it was asked to quit with is drained.
LeaveExec ==
  /\ gui = "exec" /\ quitting /\ events = <<>>
  /\ gui' = "left" /\ startup' = "cancelled"
  /\ UNCHANGED <<srv, events, app, browser, fired, quitting, srvVars, codeVars,
                 endVars>>

ForgetApp ==
  /\ gui = "left"
  /\ gui' = "forget" /\ app' = FALSE
  /\ UNCHANGED <<srv, events, browser, startup, fired, quitting, srvVars,
                 codeVars, endVars>>

\* Faulty: Gui::run returns 0 whatever was requested.
ReturnZero ==
  /\ gui = "forget"
  /\ gui' = "returned" /\ browser' = FALSE /\ code' = 0
  /\ UNCHANGED <<srv, events, app, startup, fired, quitting, srvVars, exitCode,
                 controls, endVars>>

\* browser = nullptr; return requestedExitCode, and the QApplication dies.
Return ==
  /\ gui = "forget"
  /\ gui' = "returned" /\ browser' = FALSE /\ code' = exitCode
  /\ UNCHANGED <<srv, events, app, startup, fired, quitting, srvVars, exitCode,
                 controls, endVars>>

\* Faulty: the GUI thread joins without Process::stop.
JoinOnly ==
  /\ gui = "returned"
  /\ gui' = "joining"
  /\ UNCHANGED <<srv, events, guiVars, srvVars, codeVars, endVars>>

\* Process::stop on the GUI thread: test the base, then break its loop.
TestBase ==
  /\ gui = "returned"
  /\ gui' = IF base = "live" THEN "breaking" ELSE "joining"
  /\ UNCHANGED <<srv, events, guiVars, srvVars, codeVars, endVars>>

BreakLoop ==
  /\ gui = "breaking"
  /\ gui' = "joining"
  /\ IF base = "live"
       THEN brk' = TRUE /\ UNCHANGED fault
       ELSE UNCHANGED brk /\ fault' = "base"
  /\ UNCHANGED <<srv, events, guiVars, base, listening, ready, looping, term,
                 reqVars, codeVars, closed, early>>

Join ==
  /\ gui = "joining" /\ srv = "ended"
  /\ gui' = "exited"
  /\ UNCHANGED <<srv, events, guiVars, srvVars, codeVars, endVars>>

----------------------------------------------------------------------------
(* The server thread: setup, start and the libevent loop *)

Setup ==
  /\ srv = "setup"
  /\ srv' = "start" /\ base' = "live"
  /\ UNCHANGED <<gui, events, guiVars, listening, ready, looping, brk, term,
                 reqVars, codeVars, endVars>>

\* Server::start: the socket is bound, or the loop is told to exit.
Start ==
  /\ srv = "start"
  /\ srv' = "announce"
  /\ \/ listening' = TRUE /\ UNCHANGED term
     \/ term' = TRUE /\ UNCHANGED listening
  /\ UNCHANGED <<gui, events, guiVars, base, ready, looping, brk, reqVars,
                 codeVars, endVars>>

\* WDOGREADY, whatever Server::start did.
Announce ==
  /\ srv = "announce"
  /\ srv' = "enter" /\ ready' = TRUE
  /\ UNCHANGED <<gui, events, guiVars, base, listening, looping, brk, term,
                 reqVars, codeVars, endVars>>

\* event_base_loop forgets a break that came before it.
EnterLoop ==
  /\ srv = "enter"
  /\ srv' = "loop" /\ looping' = TRUE /\ brk' = FALSE
  /\ UNCHANGED <<gui, events, guiVars, base, listening, ready, term, reqVars,
                 codeVars, endVars>>

\* readcb: some requests of one client, complete, arrive together.
Read ==
  /\ srv = "loop" /\ listening /\ ~brk
  /\ \E b \in Batches :
       /\ Len(b) <= budget
       /\ batch' = b /\ budget' = budget - Len(b)
  /\ srv' = "handle"
  /\ UNCHANGED <<gui, events, guiVars, loopVars, out, call, codeVars, endVars>>

\* The write callback of a bufferevent.
Flush ==
  /\ srv = "loop" /\ ~brk /\ out # {}
  /\ out' = {}
  /\ UNCHANGED <<gui, srv, events, guiVars, loopVars, batch, call, budget,
                 codeVars, endVars>>

\* Faulty: the signal handler asks the GUI to quit as well.
SignalQuitting ==
  /\ srv = "loop" /\ ~brk
  /\ brk' = TRUE /\ events' = Append(events, "quit")
  /\ UNCHANGED <<gui, srv, guiVars, base, listening, ready, looping, term,
                 reqVars, codeVars, endVars>>

\* SIGTERM or SIGHUP: stopProcess breaks the loop.
Signal ==
  /\ srv = "loop" /\ ~brk
  /\ brk' = TRUE
  /\ UNCHANGED <<gui, srv, events, guiVars, base, listening, ready, looping,
                 term, reqVars, codeVars, endVars>>

\* SIGQUIT or an error on the listener: a loopexit is scheduled.
ScheduleExit ==
  /\ srv = "loop" /\ ~brk /\ ~term
  /\ term' = TRUE
  /\ UNCHANGED <<gui, srv, events, guiVars, base, listening, ready, looping,
                 brk, reqVars, codeVars, endVars>>

\* Faulty: the thread ends without Gui::stop.
LeaveLoopQuietly ==
  /\ srv = "loop" /\ (brk \/ term)
  /\ srv' = "end" /\ looping' = FALSE
  /\ UNCHANGED <<gui, events, guiVars, base, listening, ready, brk, term,
                 reqVars, codeVars, endVars>>

LeaveLoop ==
  /\ srv = "loop" /\ (brk \/ term)
  /\ srv' = "cancel" /\ looping' = FALSE
  /\ UNCHANGED <<gui, events, guiVars, base, listening, ready, brk, term,
                 reqVars, codeVars, endVars>>

----------------------------------------------------------------------------
(* The server thread: one request of the batch *)

\* sendResponse, and on to the next request of the batch.
Reply(kind) ==
  /\ out' = out \cup {kind}
  /\ batch' = Tail(batch)

Handling(kinds) == srv = "handle" /\ batch # <<>> /\ Head(batch) \in kinds

BatchDone ==
  /\ srv = "handle" /\ batch = <<>>
  /\ srv' = "loop"
  /\ UNCHANGED <<gui, events, guiVars, srvVars, codeVars, endVars>>

CodeOf(request) == IF request = "Stop" THEN 0 ELSE 1

\* handleStop, handleRestart: answer, Process::stop, requestedExitCode.
HandleControl ==
  /\ Handling(Control)
  /\ exitCode' = CodeOf(Head(batch)) /\ controls' = controls \cup {CodeOf(Head(batch))}
  /\ Reply("control")
  /\ brk' = TRUE
  /\ early' = (early \/ BeforeExec)
  /\ srv' = "cancel"
  /\ UNCHANGED <<gui, events, guiVars, base, listening, ready, looping, term,
                 call, budget, code, fault, closed>>

\* Gui::NewWebTab ... : the first look at browser, which posts the command.
AskBrowser ==
  /\ Handling({"NewTab", "UseTab"})
  /\ call' = [posted |-> browser, answered |-> FALSE]
  /\ events' = IF browser THEN Append(events, "command") ELSE events
  /\ srv' = "asked"
  /\ UNCHANGED <<gui, guiVars, loopVars, batch, out, budget, codeVars, endVars>>

\* Faulty: every call looks at browser again.
AskedAgain ==
  /\ srv = "asked"
  /\ IF browser
       THEN srv' = "waiting" /\ UNCHANGED <<batch, out>>
       ELSE srv' = "handle" /\ Reply("answer")
  /\ UNCHANGED <<gui, events, guiVars, loopVars, call, budget, codeVars,
                 endVars>>

\* Their result: NewWebTab remembers the first look, the others look again.
Asked ==
  /\ srv = "asked"
  /\ IF (Head(batch) = "NewTab" /\ call.posted) \/ (Head(batch) = "UseTab" /\ browser)
       THEN srv' = "waiting" /\ UNCHANGED <<batch, out>>
       ELSE srv' = "handle" /\ Reply("answer")
  /\ UNCHANGED <<gui, events, guiVars, loopVars, call, budget, codeVars,
                 endVars>>

\* Gui::ApplySettings, PlaySound, CaptureScreenshot: test appInstance ...
TestApp ==
  /\ Handling({"App"})
  /\ IF app
       THEN srv' = "posting" /\ UNCHANGED <<batch, out>>
       ELSE srv' = "handle" /\ Reply("answer")
  /\ UNCHANGED <<gui, events, guiVars, loopVars, call, budget, codeVars,
                 endVars>>

\* What the read of appInstance that follows its test may give: the application,
\* if it came before ForgetApp or the compiler kept the first, or what it is now.
SecondLook == {TRUE, app}

\* invokeMethod: a null pointer and a dead application get nothing.
QueueOnApp(pointer, event) ==
  /\ events' = IF pointer /\ ~AppGone THEN Append(events, event) ELSE events
  /\ fault' = IF pointer /\ AppGone THEN "app" ELSE fault

\* ... and read it again for the call; true is returned whatever came of it.
PostCommand ==
  /\ srv = "posting"
  /\ \E pointer \in SecondLook :
       /\ QueueOnApp(pointer, "command")
       /\ call' = [posted |-> pointer, answered |-> FALSE]
  /\ srv' = "waiting"
  /\ UNCHANGED <<gui, guiVars, loopVars, batch, out, budget, codeVars, closed,
                 early>>

\* The condition variable of the call's CmdResponse.
Waited ==
  /\ srv = "waiting" /\ call.answered
  /\ srv' = "handle" /\ call' = NoCall
  /\ Reply("answer")
  /\ UNCHANGED <<gui, events, guiVars, loopVars, budget, codeVars, endVars>>

----------------------------------------------------------------------------
(* The server thread: Gui::stop, from a request or after the loop *)

\* setStartupState(false, true).
CancelStartup ==
  /\ srv = "cancel"
  /\ srv' = "look" /\ startup' = "cancelled"
  /\ early' = (early \/ BeforeExec)
  /\ UNCHANGED <<gui, events, app, browser, fired, quitting, srvVars, codeVars,
                 fault, closed>>

\* A request goes on with its batch, the end of the thread with Process::end.
StopDone == IF looping THEN "handle" ELSE "end"

\* Faulty: only a GUI whose browser is up is asked to quit.
TestBrowserForQuit ==
  /\ srv = "look"
  /\ srv' = IF browser THEN "quit" ELSE StopDone
  /\ early' = (early \/ BeforeExec)
  /\ UNCHANGED <<gui, events, guiVars, srvVars, codeVars, fault, closed>>

\* if (appInstance != nullptr) ...
TestAppForQuit ==
  /\ srv = "look"
  /\ srv' = IF app THEN "quit" ELSE StopDone
  /\ early' = (early \/ BeforeExec)
  /\ UNCHANGED <<gui, events, guiVars, srvVars, codeVars, fault, closed>>

\* ... and its second look.
PostQuit ==
  /\ srv = "quit"
  /\ srv' = StopDone
  /\ \E pointer \in SecondLook : QueueOnApp(pointer, "quit")
  /\ early' = (early \/ BeforeExec)
  /\ UNCHANGED <<gui, guiVars, srvVars, codeVars, closed>>

\* Process::end: the base is freed.
End ==
  /\ srv = "end"
  /\ srv' = "ended" /\ base' = "freed"
  /\ UNCHANGED <<gui, events, guiVars, listening, ready, looping, brk, term,
                 reqVars, codeVars, endVars>>

----------------------------------------------------------------------------
GuiStep ==
  \/ Born \/ ResetExitCode \/ ResetStartup \/ Splash
  \/ Deliver \/ Built \/ LeaveExec
  \/ ForgetApp \/ Return \/ TestBase \/ BreakLoop \/ Join

ServerStep ==
  \/ Setup \/ Start \/ Announce \/ EnterLoop \/ Flush \/ LeaveLoop
  \/ BatchDone \/ HandleControl \/ AskBrowser \/ Asked
  \/ TestApp \/ PostCommand \/ Waited
  \/ CancelStartup \/ TestAppForQuit \/ PostQuit \/ End

Environment == Read \/ Signal \/ ScheduleExit \/ CloseWindow

Next == GuiStep \/ TimerFires \/ ServerStep \/ Environment

Spec == Init /\ [][Next]_vars

\* Both threads run whenever they can and the startup timer fires; nobody has
\* to send a request, a signal or to close the window.
Fairness == WF_vars(GuiStep) /\ WF_vars(TimerFires) /\ WF_vars(ServerStep)
FairSpec == Spec /\ Fairness

----------------------------------------------------------------------------
(* Properties *)

\* Every variable has the type of the C++ object it stands for.
TypeOK ==
  /\ gui \in {"boot", "born", "reset", "splash", "shown", "exec", "building",
              "left", "forget", "returned", "breaking", "joining", "exited"}
  /\ srv \in {"setup", "start", "announce", "enter", "loop", "handle", "asked",
              "posting", "waiting", "cancel", "look", "quit", "end", "ended"}
  /\ events \in Seq({"quit", "command"})
  /\ app \in BOOLEAN /\ browser \in BOOLEAN /\ fired \in BOOLEAN
  /\ quitting \in BOOLEAN /\ listening \in BOOLEAN /\ ready \in BOOLEAN
  /\ looping \in BOOLEAN /\ brk \in BOOLEAN /\ term \in BOOLEAN
  /\ closed \in BOOLEAN /\ early \in BOOLEAN
  /\ startup \in {"pending", "ready", "cancelled"}
  /\ base \in {"none", "live", "freed"}
  /\ batch \in Seq(Requests) /\ out \subseteq {"answer", "control"}
  /\ call \in [posted : BOOLEAN, answered : BOOLEAN]
  /\ exitCode \in {0, 1} /\ code \in {0, 1} /\ controls \subseteq {0, 1}
  /\ fault \in {"none", "app", "base"}
  /\ budget \in 0..MaxRequests

Pending(event) == Contains(events, event)

\* The server thread waits for an answer that no queued command can bring.
Unserved ==
  /\ srv = "waiting" /\ ~call.answered
  /\ AfterExec \/ ~Pending("command")

\* The server is gone, the screen stays, and no quit is on its way.
Headless == srv = "ended" /\ InExec /\ ~quitting /\ ~Pending("quit")

\* The GUI is gone and the server serves on: the break came before the loop.
Orphaned == gui = "joining" /\ srv = "loop" /\ ~brk /\ ~term

Over == gui = "exited" \/ fault # "none"

\* The server thread never waits for a command nobody will carry out (gui.cpp,
\* madt-server.cpp cv.wait without a timeout), except in three cases: it looked
\* at browser once before and once after the startup timer created it; the user
\* closed the window under it; or the request was sent behind a Stop or Restart.
UnservedOnlyIfWarned ==
  Unserved => \/ ~call.posted /\ Head(batch) = "UseTab"
              \/ closed
              \/ controls # {}

\* A call that was not posted is waited for only after a second look that saw
\* something else than the first: by KillTab and its like once the startup timer
\* has created the Browser; by SetSettings and its like when the GUI has left exec
\* and forgotten the application, told to by the user or a control; and never by
\* NewWebTab, which keeps its first look (gui.cpp 350-356, 361-363, 482-487).
UnpostedIsALaterLook ==
  srv = "waiting" /\ ~call.posted =>
    \/ Head(batch) = "UseTab" /\ fired
    \/ Head(batch) = "App" /\ AfterExec /\ ~app /\ (closed \/ controls # {})

\* The GUI outlives the server for good only when a stop was asked before exec
\* had begun: such a quit is lost in processEvents or never sent (gui.cpp, stop).
HeadlessOnlyIfEarly == Headless => early

\* The server outlives the GUI only if the user closed the window before the
\* server thread had reached its loop (process.cpp, stop).
OrphanedOnlyIfClosed == Orphaned => closed

\* The application is used after its end only by a server that did not start
\* the shutdown alone: the window was closed, or a Stop had been handled before
\* the Gui::stop that follows the loop (gui.cpp, stop and PlaySound).
AppOutlivesItsUses == fault = "app" => closed \/ controls # {}

\* When one kind of control was handled, in time and with the window left alone,
\* the process exits with its code: 0 for Stop, 1 for Restart.
ExitCodeIsTheOneAsked ==
  gui = "exited" /\ controls # {} /\ ~early /\ ~closed => code \in controls

\* Once exec has begun, a server thread that calls Gui::stop takes the GUI down
\* with it: Stop, Restart, a signal or a listener error ends the process, unless
\* the server is left waiting behind the Stop.
ServerTakesGuiDown == (srv = "cancel" /\ InExec) ~> (Over \/ Unserved)

\* A GUI that leaves its loop takes a server that has reached its own down with
\* it: the process ends, unless the server waits for this GUI's answer.
GuiTakesServerDown == (gui = "left" /\ looping) ~> (Over \/ Unserved)

\* An answer to Stop or Restart is written before its connection is given up
\* (scripts/madt_conformance.py expects one).
StopIsAnswered == srv = "ended" => "control" \notin out

============================================================================
