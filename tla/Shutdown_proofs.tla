--------------------------- MODULE Shutdown_proofs ---------------------------
(***************************************************************************)
(* The safety properties of Shutdown, for any number of requests and any   *)
(* reads they come in.                                                     *)
(*                                                                         *)
(* All of them rest on where a quit can come from (QuitsExplained): the    *)
(* user, a control, or a server thread that has left its loop for good.    *)
(* Hence a server that still serves, for a window left alone and with no   *)
(* control handled, has a GUI in front of exec or in it; and a control     *)
(* leaves the loop broken, which nothing undoes.                           *)
(***************************************************************************)
EXTENDS Shutdown, TLAPS

\* The steps of each thread, with what the environment does to it.
GuiSide == GuiStep \/ TimerFires \/ CloseWindow
ServerSide == ServerStep \/ Read \/ Signal \/ ScheduleExit

Ending == srv \in {"end", "ended"}

\* What the globals tell of the places of the threads.
Places ==
  /\ browser => fired
  /\ gui \in {"born", "reset", "splash", "shown", "exec", "building", "left"} => app
  /\ AfterExec => quitting
  /\ srv \in {"loop", "handle", "asked", "posting", "waiting"} => looping
  /\ srv \in {"cancel", "look", "quit"} /\ looping => controls # {}
  /\ srv = "asked" => Head(batch) \in {"NewTab", "UseTab"}
  /\ app => gui # "boot"
  /\ srv = "posting" => Head(batch) = "App" /\ gui # "boot"
  /\ controls # {} => brk /\ srv \notin {"setup", "start", "announce", "enter"}

\* The request being handled is the first of the batch until it is answered.
BatchHeld == srv \in {"asked", "posting", "waiting"} => batch # <<>>

QuitsExplained == quitting \/ Pending("quit") => closed \/ controls # {} \/ Ending

CommandsQueued ==
  srv \in {"asked", "waiting"} /\ call.posted /\ ~call.answered =>
    Pending("command") \/ closed \/ controls # {}

StopsInTime ==
  /\ srv \in {"look", "quit"} => early \/ ~BeforeExec
  /\ Ending => early \/ AfterExec \/ (InExec /\ (quitting \/ Pending("quit")))
  /\ controls # {} => early \/ (~BeforeExec /\ exitCode \in controls)

CodesReturned ==
  AppGone /\ ~early /\ ~closed => code \in controls \/ (controls = {} /\ Ending)

Explained ==
  /\ BatchHeld /\ Places
  /\ QuitsExplained /\ CommandsQueued /\ UnpostedIsALaterLook
  /\ StopsInTime /\ CodesReturned /\ AppOutlivesItsUses

Inv == TypeOK /\ Explained

-----------------------------------------------------------------------------
(* The queue *)

Events == {"quit", "command"}

LEMMA Appended ==
  ASSUME NEW q \in Seq(Events), NEW e \in Events, NEW x
  PROVE  /\ Append(q, e) \in Seq(Events)
         /\ Contains(Append(q, e), x) <=> Contains(q, x) \/ x = e
  BY DEF Contains

LEMMA Taken ==
  ASSUME NEW q \in Seq(Events), q # <<>>, NEW x
  PROVE  /\ Tail(q) \in Seq(Events) /\ Head(q) \in Events
         /\ Contains(q, x) <=> Contains(Tail(q), x) \/ x = Head(q)
  <1>1. Contains(q, x) => Contains(Tail(q), x) \/ x = Head(q)
    <2> SUFFICES ASSUME NEW i \in 1..Len(q), q[i] = x, x # Head(q)
                 PROVE  Contains(Tail(q), x)
      BY DEF Contains
    <2>1. i - 1 \in 1..Len(Tail(q)) /\ Tail(q)[i - 1] = x
      OBVIOUS
    <2> QED BY <2>1 DEF Contains
  <1>2. Contains(Tail(q), x) => Contains(q, x)
    <2> SUFFICES ASSUME NEW i \in 1..Len(Tail(q)), Tail(q)[i] = x
                 PROVE  Contains(q, x)
      BY DEF Contains
    <2>1. i + 1 \in 1..Len(q) /\ q[i + 1] = x
      OBVIOUS
    <2> QED BY <2>1 DEF Contains
  <1>3. Contains(q, Head(q))
    <2>1. 1 \in 1..Len(q) /\ q[1] = Head(q)
      OBVIOUS
    <2> QED BY <2>1 DEF Contains
  <1> QED BY <1>1, <1>2, <1>3

LEMMA NonePending == \A x : ~Contains(<<>>, x)
  BY DEF Contains

-----------------------------------------------------------------------------
(* Types *)

USE DEF guiVars, loopVars, reqVars, srvVars, endVars, codeVars

LEMMA InitTyped == Init => TypeOK
  <1> SUFFICES ASSUME Init PROVE TypeOK
    OBVIOUS
  <1>1. events \in Seq({"quit", "command"}) /\ batch \in Seq(Requests)
    BY DEF Init
  <1>2. call \in [posted : BOOLEAN, answered : BOOLEAN]
    BY DEF Init, NoCall
  <1>3. budget \in 0..MaxRequests
    BY BoundsAssumption DEF Init
  <1> QED BY <1>1, <1>2, <1>3 DEF Init, TypeOK

LEMMA GuiTyped ==
  ASSUME TypeOK,
         GuiSide
  PROVE  TypeOK'
  <1>1. CASE Born
    BY <1>1 DEF Born, TypeOK
  <1>2. CASE ResetExitCode
    BY <1>2 DEF ResetExitCode, TypeOK
  <1>3. CASE ResetStartup
    BY <1>3 DEF ResetStartup, TypeOK
  <1>4. CASE Splash
    <2>1. call' \in [posted : BOOLEAN, answered : BOOLEAN] /\ events' \in Seq({"quit", "command"})
      <3>1. Contains(events, "command") \in BOOLEAN
        BY DEF Contains
      <3> QED BY <1>4, <3>1 DEF Splash, TypeOK
    <2> QED BY <1>4, <2>1 DEF Splash, TypeOK
  <1>5. CASE Deliver
    <2>1. events' \in Seq({"quit", "command"})
      BY <1>5, Taken DEF Deliver, TypeOK, Events
    <2>2. quitting' \in BOOLEAN /\ call' \in [posted : BOOLEAN, answered : BOOLEAN]
      BY <1>5 DEF Deliver, TypeOK
    <2> QED BY <1>5, <2>1, <2>2 DEF Deliver, TypeOK
  <1>6. CASE TimerFires
    <2>1. fired' \in BOOLEAN /\ browser' \in BOOLEAN
      BY <1>6 DEF TimerFires, TypeOK
    <2> QED BY <1>6, <2>1 DEF TimerFires, TypeOK
  <1>7. CASE Built
    BY <1>7 DEF Built, TypeOK
  <1>8. CASE CloseWindow
    BY <1>8, Appended DEF CloseWindow, TypeOK, Events
  <1>9. CASE LeaveExec
    BY <1>9 DEF LeaveExec, TypeOK
  <1>10. CASE ForgetApp
    <2>1. app' \in BOOLEAN
      BY <1>10 DEF ForgetApp, TypeOK
    <2> QED BY <1>10, <2>1 DEF ForgetApp, TypeOK
  <1>11. CASE Return
    <2>1. browser' \in BOOLEAN
      BY <1>11 DEF Return, TypeOK
    <2> QED BY <1>11, <2>1 DEF Return, TypeOK
  <1>12. CASE TestBase
    BY <1>12 DEF TestBase, TypeOK
  <1>13. CASE BreakLoop
    <2>1. brk' \in BOOLEAN
      BY <1>13 DEF BreakLoop, TypeOK
    <2> QED BY <1>13, <2>1 DEF BreakLoop, TypeOK
  <1>14. CASE Join
    BY <1>14 DEF Join, TypeOK
  <1> QED BY <1>1, <1>2, <1>3, <1>4, <1>5, <1>6, <1>7, <1>8, <1>9, <1>10, <1>11, <1>12, <1>13, <1>14
     DEF GuiSide, GuiStep

LEMMA ServerTyped ==
  ASSUME TypeOK, BatchHeld,
         ServerSide
  PROVE  TypeOK'
  <1>1. CASE Setup
    BY <1>1 DEF Setup, TypeOK
  <1>2. CASE Start
    <2>1. listening' \in BOOLEAN /\ term' \in BOOLEAN
      BY <1>2 DEF Start, TypeOK
    <2> QED BY <1>2, <2>1 DEF Start, TypeOK
  <1>3. CASE Announce
    BY <1>3 DEF Announce, TypeOK
  <1>4. CASE EnterLoop
    <2>1. looping' \in BOOLEAN /\ brk' \in BOOLEAN
      BY <1>4 DEF EnterLoop, TypeOK
    <2> QED BY <1>4, <2>1 DEF EnterLoop, TypeOK
  <1>5. CASE Read
    <2>1. PICK b \in Batches : Len(b) <= budget /\ batch' = b /\ budget' = budget - Len(b)
      BY <1>5 DEF Read
    <2>2. PICK n \in 1..MaxBatch : b \in [1..n -> Requests]
      BY <2>1 DEF Batches
    <2>3. n \in Nat /\ b \in Seq(Requests) /\ Len(b) \in Nat
      BY <2>2, BoundsAssumption
    <2>4. batch' \in Seq(Requests) /\ budget' \in 0..MaxRequests
      BY <2>1, <2>3, BoundsAssumption DEF TypeOK
    <2> QED BY <1>5, <2>4 DEF Read, TypeOK
  <1>6. CASE Flush
    BY <1>6 DEF Flush, TypeOK
  <1>7. CASE Signal
    BY <1>7 DEF Signal, TypeOK
  <1>8. CASE ScheduleExit
    BY <1>8 DEF ScheduleExit, TypeOK
  <1>9. CASE LeaveLoop
    <2>1. looping' \in BOOLEAN
      BY <1>9 DEF LeaveLoop, TypeOK
    <2> QED BY <1>9, <2>1 DEF LeaveLoop, TypeOK
  <1>10. CASE BatchDone
    BY <1>10 DEF BatchDone, TypeOK
  <1>11. CASE HandleControl
    <2>1. batch' \in Seq(Requests) /\ out' \subseteq {"answer", "control"}
      BY <1>11 DEF HandleControl, Handling, Reply, TypeOK
    <2>2. exitCode' \in {0, 1} /\ controls' \subseteq {0, 1}
      <3>1. CodeOf(Head(batch)) \in {0, 1}
        BY DEF CodeOf
      <3> QED BY <1>11, <3>1 DEF HandleControl, TypeOK
    <2>3. early' \in BOOLEAN
      BY <1>11 DEF HandleControl, TypeOK, BeforeExec
    <2> QED BY <1>11, <2>1, <2>2, <2>3 DEF HandleControl, TypeOK
  <1>12. CASE AskBrowser
    BY <1>12, Appended DEF AskBrowser, TypeOK, Events, Handling
  <1>13. CASE Asked
    <2>1. /\ batch # <<>> /\ batch \in Seq(Requests)
          /\ \/ batch' = batch /\ out' = out
             \/ batch' = Tail(batch) /\ out' = out \cup {"answer"}
      BY <1>13 DEF Asked, Reply, TypeOK, BatchHeld
    <2>2. Tail(batch) \in Seq(Requests)
      BY <2>1
    <2>3. out' \subseteq {"answer", "control"}
      BY <2>1 DEF TypeOK
    <2>4. batch' \in {batch, Tail(batch)}
      BY <2>1
    <2>5. batch' \in Seq(Requests) /\ out' \subseteq {"answer", "control"}
      BY <2>1, <2>2, <2>3, <2>4
    <2>6. srv' \in {"waiting", "handle"}
      BY <1>13 DEF Asked
    <2> QED BY <1>13, <2>5, <2>6 DEF Asked, TypeOK
  <1>14. CASE TestApp
    <2>1. /\ batch # <<>> /\ batch \in Seq(Requests)
          /\ \/ batch' = batch /\ out' = out
             \/ batch' = Tail(batch) /\ out' = out \cup {"answer"}
      BY <1>14 DEF TestApp, Reply, TypeOK, Handling
    <2>2. Tail(batch) \in Seq(Requests)
      BY <2>1
    <2>3. out' \subseteq {"answer", "control"}
      BY <2>1 DEF TypeOK
    <2>4. batch' \in {batch, Tail(batch)}
      BY <2>1
    <2>5. batch' \in Seq(Requests) /\ out' \subseteq {"answer", "control"}
      BY <2>1, <2>2, <2>3, <2>4
    <2>6. srv' \in {"posting", "handle"}
      BY <1>14 DEF TestApp
    <2> QED BY <1>14, <2>5, <2>6 DEF TestApp, TypeOK
  <1>15. CASE PostCommand
    <2>1. PICK pointer \in SecondLook :
            QueueOnApp(pointer, "command") /\ call' = [posted |-> pointer, answered |-> FALSE]
      BY <1>15 DEF PostCommand
    <2>2. pointer \in BOOLEAN
      BY <2>1 DEF SecondLook, TypeOK
    <2>3. events' \in Seq({"quit", "command"}) /\ fault' \in {"none", "app", "base"}
      BY <2>1, Appended DEF QueueOnApp, TypeOK, Events
    <2>4. call' \in [posted : BOOLEAN, answered : BOOLEAN]
      BY <2>1, <2>2
    <2> QED BY <1>15, <2>3, <2>4 DEF PostCommand, TypeOK
  <1>16. CASE Waited
    <2>1. batch' \in Seq(Requests) /\ out' \subseteq {"answer", "control"}
      BY <1>16 DEF BatchHeld, Waited, Reply, TypeOK
    <2>2. call' \in [posted : BOOLEAN, answered : BOOLEAN]
      BY <1>16 DEF Waited, NoCall
    <2> QED BY <1>16, <2>1, <2>2 DEF Waited, TypeOK
  <1>17. CASE CancelStartup
    BY <1>17 DEF CancelStartup, TypeOK, BeforeExec
  <1>18. CASE TestAppForQuit
    BY <1>18 DEF TestAppForQuit, TypeOK, StopDone, BeforeExec
  <1>19. CASE PostQuit
    <2>1. PICK pointer \in SecondLook : QueueOnApp(pointer, "quit")
      BY <1>19 DEF PostQuit
    <2>2. events' \in Seq({"quit", "command"}) /\ fault' \in {"none", "app", "base"}
      BY <2>1, Appended DEF QueueOnApp, TypeOK, Events
    <2>3. srv' \in {"handle", "end"} /\ early' \in BOOLEAN
      BY <1>19 DEF PostQuit, StopDone, BeforeExec, TypeOK
    <2> QED BY <1>19, <2>2, <2>3 DEF PostQuit, TypeOK
  <1>20. CASE End
    BY <1>20 DEF End, TypeOK
  <1> QED BY <1>1, <1>2, <1>3, <1>4, <1>5, <1>6, <1>7, <1>8, <1>9, <1>10, <1>11, <1>12, <1>13, <1>14, <1>15, <1>16, <1>17, <1>18, <1>19, <1>20
     DEF ServerSide, ServerStep

-----------------------------------------------------------------------------
(* The steps *)

USE DEF BeforeExec, InExec, AppGone, AfterExec, Ending, Pending, Explained, BatchHeld, Places,
        QuitsExplained, CommandsQueued, UnpostedIsALaterLook, StopsInTime, CodesReturned,
        AppOutlivesItsUses

LEMMA InitExplained == Init => Explained
  BY NonePending DEF Init, NoCall

LEMMA GuiExplained ==
  ASSUME Inv,
         GuiSide
  PROVE  Explained'
  <1>0. TypeOK /\ Explained /\ events \in Seq(Events)
    BY DEF Inv, TypeOK, Events
  <1>1. CASE Born
    BY <1>0, <1>1 DEF Born
  <1>2. CASE ResetExitCode
    BY <1>0, <1>2 DEF ResetExitCode
  <1>3. CASE ResetStartup
    BY <1>0, <1>3 DEF ResetStartup
  <1>4. CASE Splash
    <2>1. ~Pending("quit")' /\ ~Pending("command")'
      BY <1>4, NonePending DEF Splash
    <2>2. /\ call'.posted = call.posted
          /\ call'.answered = (call.answered \/ Pending("command"))
      BY <1>0, <1>4 DEF Splash, TypeOK
    <2>3. BatchHeld'
      BY <1>0, <1>4, <2>1, <2>2 DEF Splash
    <2>4. Places'
      BY <1>0, <1>4, <2>1, <2>2 DEF Splash
    <2>5. QuitsExplained'
      BY <1>0, <1>4, <2>1, <2>2 DEF Splash
    <2>6. CommandsQueued'
      BY <1>0, <1>4, <2>1, <2>2 DEF Splash
    <2>7. UnpostedIsALaterLook'
      BY <1>0, <1>4, <2>1, <2>2 DEF Splash
    <2>8. StopsInTime'
      BY <1>0, <1>4, <2>1, <2>2 DEF Splash
    <2>9. CodesReturned'
      BY <1>0, <1>4, <2>1, <2>2 DEF Splash
    <2>10. AppOutlivesItsUses'
      BY <1>0, <1>4, <2>1, <2>2 DEF Splash
    <2> QED BY <2>3, <2>4, <2>5, <2>6, <2>7, <2>8, <2>9, <2>10
  <1>5. CASE Deliver
    <2>1. \A x : Contains(events, x) <=> Contains(events', x) \/ x = Head(events)
      BY <1>0, <1>5, Taken DEF Deliver
    <2>2. /\ call'.posted = call.posted
          /\ call'.answered = (call.answered \/ Head(events) = "command")
      BY <1>0, <1>5 DEF Deliver, TypeOK
    <2>3. /\ Pending("quit") <=> Pending("quit")' \/ Head(events) = "quit"
          /\ Pending("command") <=> Pending("command")' \/ Head(events) = "command"
      BY <2>1
    <2>4. quitting' = (quitting \/ Head(events) = "quit")
      BY <1>0, <1>5 DEF Deliver, TypeOK
    <2>5. BatchHeld'
      BY <1>0, <1>5, <2>2, <2>3, <2>4 DEF Deliver
    <2>6. Places'
      BY <1>0, <1>5, <2>2, <2>3, <2>4 DEF Deliver
    <2>7. QuitsExplained'
      BY <1>0, <1>5, <2>2, <2>3, <2>4 DEF Deliver
    <2>8. CommandsQueued'
      BY <1>0, <1>5, <2>2, <2>3, <2>4 DEF Deliver
    <2>9. UnpostedIsALaterLook'
      BY <1>0, <1>5, <2>2, <2>3, <2>4 DEF Deliver
    <2>10. StopsInTime'
      BY <1>0, <1>5, <2>2, <2>3, <2>4 DEF Deliver
    <2>11. CodesReturned'
      BY <1>0, <1>5, <2>2, <2>3, <2>4 DEF Deliver
    <2>12. AppOutlivesItsUses'
      BY <1>0, <1>5, <2>2, <2>3, <2>4 DEF Deliver
    <2> QED BY <2>5, <2>6, <2>7, <2>8, <2>9, <2>10, <2>11, <2>12
  <1>6. CASE TimerFires
    BY <1>0, <1>6 DEF TimerFires
  <1>7. CASE Built
    BY <1>0, <1>7 DEF Built
  <1>8. CASE CloseWindow
    BY <1>0, <1>8, Appended DEF CloseWindow, Events
  <1>9. CASE LeaveExec
    BY <1>0, <1>9 DEF LeaveExec
  <1>10. CASE ForgetApp
    BY <1>0, <1>10 DEF ForgetApp
  <1>11. CASE Return
    BY <1>0, <1>11 DEF Return
  <1>12. CASE TestBase
    BY <1>0, <1>12 DEF TestBase
  <1>13. CASE BreakLoop
    BY <1>0, <1>13 DEF BreakLoop
  <1>14. CASE Join
    BY <1>0, <1>14 DEF Join
  <1> QED BY <1>1, <1>2, <1>3, <1>4, <1>5, <1>6, <1>7, <1>8, <1>9, <1>10, <1>11, <1>12, <1>13, <1>14
     DEF GuiSide, GuiStep

LEMMA ServerExplained ==
  ASSUME Inv,
         ServerSide
  PROVE  Explained'
  <1>0. TypeOK /\ Explained /\ events \in Seq(Events)
    BY DEF Inv, TypeOK, Events
  <1>1. CASE Setup
    BY <1>0, <1>1 DEF Setup
  <1>2. CASE Start
    BY <1>0, <1>2 DEF Start
  <1>3. CASE Announce
    BY <1>0, <1>3 DEF Announce
  <1>4. CASE EnterLoop
    BY <1>0, <1>4 DEF EnterLoop
  <1>5. CASE Read
    <2>1. UNCHANGED <<gui, events, guiVars, loopVars, out, call, codeVars, endVars>> /\ srv' = "handle"
      BY <1>5 DEF Read
    <2>2. looping /\ (srv = "loop") /\ ~brk
      BY <1>0, <1>5 DEF Read
    <2>3. BatchHeld'
      BY <1>0, <2>1, <2>2 DEF TypeOK
    <2>4. Places'
      BY <1>0, <2>1, <2>2 DEF TypeOK
    <2>5. QuitsExplained'
      BY <1>0, <2>1, <2>2 DEF TypeOK
    <2>6. CommandsQueued'
      BY <1>0, <2>1, <2>2 DEF TypeOK
    <2>7. UnpostedIsALaterLook'
      BY <1>0, <2>1, <2>2 DEF TypeOK
    <2>8. StopsInTime'
      BY <1>0, <2>1, <2>2 DEF TypeOK
    <2>9. CodesReturned'
      BY <1>0, <2>1, <2>2 DEF TypeOK
    <2>10. AppOutlivesItsUses'
      BY <1>0, <2>1, <2>2 DEF TypeOK
    <2> QED BY <2>3, <2>4, <2>5, <2>6, <2>7, <2>8, <2>9, <2>10
  <1>6. CASE Flush
    BY <1>0, <1>6 DEF Flush
  <1>7. CASE Signal
    BY <1>0, <1>7 DEF Signal
  <1>8. CASE ScheduleExit
    BY <1>0, <1>8 DEF ScheduleExit
  <1>9. CASE LeaveLoop
    BY <1>0, <1>9 DEF LeaveLoop
  <1>10. CASE BatchDone
    BY <1>0, <1>10 DEF BatchDone
  <1>11. CASE HandleControl
    BY <1>0, <1>11 DEF HandleControl, Handling, CodeOf, Control, Reply
  <1>12. CASE AskBrowser
    BY <1>0, <1>12, Appended DEF AskBrowser, Handling, Events
  <1>13. CASE Asked
    BY <1>0, <1>13 DEF Asked, Reply
  <1>14. CASE TestApp
    <2>1. /\ srv = "handle" /\ looping /\ Head(batch) = "App" /\ batch # <<>>
          /\ srv' = IF app THEN "posting" ELSE "handle"
          /\ app => UNCHANGED batch
          /\ UNCHANGED <<gui, events, guiVars, loopVars, call, budget, codeVars, endVars>>
      BY <1>0, <1>14 DEF TestApp, Handling
    <2>2. app => gui # "boot"
      BY <1>0
    <2>3. BatchHeld'
      BY <1>0, <2>1, <2>2 DEF TypeOK
    <2>4. Places'
      BY <1>0, <2>1, <2>2 DEF TypeOK
    <2>5. QuitsExplained'
      BY <1>0, <2>1, <2>2 DEF TypeOK
    <2>6. CommandsQueued'
      BY <1>0, <2>1, <2>2 DEF TypeOK
    <2>7. UnpostedIsALaterLook'
      BY <1>0, <2>1, <2>2 DEF TypeOK
    <2>8. StopsInTime'
      BY <1>0, <2>1, <2>2 DEF TypeOK
    <2>9. CodesReturned'
      BY <1>0, <2>1, <2>2 DEF TypeOK
    <2>10. AppOutlivesItsUses'
      BY <1>0, <2>1, <2>2 DEF TypeOK
    <2> QED BY <2>3, <2>4, <2>5, <2>6, <2>7, <2>8, <2>9, <2>10
  <1>15. CASE PostCommand
    <2>1. PICK pointer \in SecondLook :
            /\ QueueOnApp(pointer, "command")
            /\ call' = [posted |-> pointer, answered |-> FALSE]
      BY <1>15 DEF PostCommand
    <2>2. /\ srv = "posting" /\ srv' = "waiting"
          /\ UNCHANGED <<gui, guiVars, loopVars, batch, out, budget, codeVars, closed, early>>
      BY <1>15 DEF PostCommand
    <2>3. call'.posted = pointer
      BY <2>1
    <2>4. /\ Pending("quit")' <=> Pending("quit")
          /\ ~AppGone /\ pointer => Pending("command")'
      BY <1>0, <2>1, Appended DEF QueueOnApp, Events
    <2>5. AfterExec => closed \/ controls # {}
      BY <1>0, <2>2
    <2>6. AppGone \/ UNCHANGED fault
      BY <2>1 DEF QueueOnApp
    <2>7. ~pointer => ~app /\ AfterExec
      BY <1>0, <2>1, <2>2 DEF SecondLook, TypeOK
    <2>8. BatchHeld'
      BY <1>0, <2>2, <2>3, <2>4, <2>5, <2>6, <2>7
    <2>9. Places'
      BY <1>0, <2>2, <2>3, <2>4, <2>5, <2>6, <2>7
    <2>10. QuitsExplained'
      BY <1>0, <2>2, <2>3, <2>4, <2>5, <2>6, <2>7
    <2>11. CommandsQueued'
      BY <1>0, <2>2, <2>3, <2>4, <2>5, <2>6, <2>7
    <2>12. UnpostedIsALaterLook'
      BY <1>0, <2>2, <2>3, <2>4, <2>5, <2>6, <2>7
    <2>13. StopsInTime'
      BY <1>0, <2>2, <2>3, <2>4, <2>5, <2>6, <2>7
    <2>14. CodesReturned'
      BY <1>0, <2>2, <2>3, <2>4, <2>5, <2>6, <2>7
    <2>15. AppOutlivesItsUses'
      BY <1>0, <2>2, <2>3, <2>4, <2>5, <2>6, <2>7
    <2> QED BY <2>8, <2>9, <2>10, <2>11, <2>12, <2>13, <2>14, <2>15
  <1>16. CASE Waited
    BY <1>0, <1>16 DEF Waited, Reply, NoCall
  <1>17. CASE CancelStartup
    BY <1>0, <1>17 DEF CancelStartup
  <1>18. CASE TestAppForQuit
    <2>1. /\ srv = "look" /\ early' = (early \/ BeforeExec)
          /\ srv' = IF app THEN "quit" ELSE IF looping THEN "handle" ELSE "end"
          /\ UNCHANGED <<gui, events, guiVars, srvVars, codeVars, fault, closed>>
      BY <1>18 DEF TestAppForQuit, StopDone
    <2>2. InExec => app
      BY <1>0
    <2>3. BatchHeld'
      BY <1>0, <2>1, <2>2 DEF TypeOK
    <2>4. Places'
      BY <1>0, <2>1, <2>2 DEF TypeOK
    <2>5. QuitsExplained'
      BY <1>0, <2>1, <2>2 DEF TypeOK
    <2>6. CommandsQueued'
      BY <1>0, <2>1, <2>2 DEF TypeOK
    <2>7. UnpostedIsALaterLook'
      BY <1>0, <2>1, <2>2 DEF TypeOK
    <2>8. StopsInTime'
      BY <1>0, <2>1, <2>2 DEF TypeOK
    <2>9. CodesReturned'
      BY <1>0, <2>1, <2>2 DEF TypeOK
    <2>10. AppOutlivesItsUses'
      BY <1>0, <2>1, <2>2 DEF TypeOK
    <2> QED BY <2>3, <2>4, <2>5, <2>6, <2>7, <2>8, <2>9, <2>10
  <1>19. CASE PostQuit
    <2>1. /\ srv = "quit" /\ early' = (early \/ BeforeExec)
          /\ srv' = IF looping THEN "handle" ELSE "end"
          /\ UNCHANGED <<gui, guiVars, srvVars, codeVars, closed>>
      BY <1>19 DEF PostQuit, StopDone
    <2>2. PICK pointer \in SecondLook : QueueOnApp(pointer, "quit")
      BY <1>19 DEF PostQuit
    <2>3. /\ AppGone \/ UNCHANGED fault
          /\ Pending("command")' <=> Pending("command")
          /\ Pending("quit")' <=> Pending("quit") \/ (pointer /\ ~AppGone)
      BY <1>0, <2>2, Appended DEF QueueOnApp, Events
    <2>4. ~BeforeExec /\ ~AfterExec => pointer /\ ~AppGone
      BY <1>0, <2>2 DEF SecondLook, TypeOK
    <2>5. BatchHeld'
      BY <1>0, <2>1, <2>2, <2>3, <2>4 DEF TypeOK
    <2>6. Places'
      BY <1>0, <2>1, <2>2, <2>3, <2>4 DEF TypeOK
    <2>7. QuitsExplained'
      BY <1>0, <2>1, <2>2, <2>3, <2>4 DEF TypeOK
    <2>8. CommandsQueued'
      BY <1>0, <2>1, <2>2, <2>3, <2>4 DEF TypeOK
    <2>9. UnpostedIsALaterLook'
      BY <1>0, <2>1, <2>2, <2>3, <2>4 DEF TypeOK
    <2>10. StopsInTime'
      BY <1>0, <2>1, <2>2, <2>3, <2>4 DEF TypeOK
    <2>11. CodesReturned'
      BY <1>0, <2>1, <2>2, <2>3, <2>4 DEF TypeOK
    <2>12. AppOutlivesItsUses'
      BY <1>0, <2>1, <2>2, <2>3, <2>4 DEF TypeOK
    <2> QED BY <2>5, <2>6, <2>7, <2>8, <2>9, <2>10, <2>11, <2>12
  <1>20. CASE End
    BY <1>0, <1>20 DEF End
  <1> QED BY <1>1, <1>2, <1>3, <1>4, <1>5, <1>6, <1>7, <1>8, <1>9, <1>10, <1>11, <1>12, <1>13, <1>14, <1>15, <1>16, <1>17, <1>18, <1>19, <1>20
     DEF ServerSide, ServerStep

-----------------------------------------------------------------------------
(* The theorems *)

LEMMA Stutters ==
  ASSUME Inv, UNCHANGED vars
  PROVE  Inv'
  <1>1. TypeOK'
    BY DEF Inv, vars, TypeOK
  <1>2. Explained'
    BY DEF Inv, vars
  <1> QED BY <1>1, <1>2 DEF Inv

LEMMA Always == Spec => []Inv
  <1>1. Init => Inv
    BY InitTyped, InitExplained DEF Inv
  <1>2. Inv /\ [Next]_vars => Inv'
    <2> SUFFICES ASSUME Inv, [Next]_vars PROVE Inv'
      OBVIOUS
    <2>1. CASE GuiSide
      BY <2>1, GuiTyped, GuiExplained DEF Inv
    <2>2. CASE ServerSide
      BY <2>2, ServerTyped, ServerExplained DEF Inv
    <2>3. CASE UNCHANGED vars
      BY <2>3, Stutters
    <2> QED BY <2>1, <2>2, <2>3 DEF Next, GuiSide, ServerSide, Environment
  <1> QED BY <1>1, <1>2, PTL DEF Spec

\* Every variable keeps the type of the C++ object it stands for, in both threads.
THEOREM ThreadsKeepTheirTypes == Spec => []TypeOK
  BY Always, PTL DEF Inv

\* A command the server waits for without a timeout is on its way to a live GUI,
\* except behind a stop, under a closing window, or in a race for browser (gui.cpp).
THEOREM WaitsAreServed == Spec => []UnservedOnlyIfWarned
  <1>1. Inv => UnservedOnlyIfWarned
    BY DEF Inv, UnservedOnlyIfWarned, Unserved
  <1> QED BY <1>1, Always, PTL

\* A wait for a command nobody posted comes from a second look that saw something
\* else than the first: at browser, when the startup timer has fired, or at
\* appInstance, when a GUI that the user or a control had asked to quit has forgotten
\* it (gui.cpp, KillTab and ApplySettings).
THEOREM WaitsArePosted == Spec => []UnpostedIsALaterLook
  BY Always, PTL DEF Inv

\* A screen without its server was told to stop before exec could hear it (gui.cpp, stop).
THEOREM ScreensHaveServers == Spec => []HeadlessOnlyIfEarly
  <1>1. Inv => HeadlessOnlyIfEarly
    BY DEF Inv, HeadlessOnlyIfEarly, Headless
  <1> QED BY <1>1, Always, PTL

\* A server without its screen lost the break of a GUI the user had closed (process.cpp, stop).
THEOREM ServersHaveScreens == Spec => []OrphanedOnlyIfClosed
  <1>1. Inv => OrphanedOnlyIfClosed
    BY DEF Inv, OrphanedOnlyIfClosed, Orphaned
  <1> QED BY <1>1, Always, PTL

\* The server uses the application after its end only if the user or a control
\* had begun the shutdown (gui.cpp, stop, PlaySound).
THEOREM AppUsedInItsLife == Spec => []AppOutlivesItsUses
  BY Always, PTL DEF Inv

\* The launcher reads the exit code of the control that was handled (gui.cpp, requestedExitCode).
THEOREM ExitsAsAsked == Spec => []ExitCodeIsTheOneAsked
  <1>1. Inv => ExitCodeIsTheOneAsked
    BY DEF Inv, ExitCodeIsTheOneAsked
  <1> QED BY <1>1, Always, PTL

=============================================================================
