-------------------------------- MODULE Avahi --------------------------------
(***************************************************************************)
(* The DNS-SD advertisement in a build with MADT_USE_AVAHI                 *)
(* (AvahiService.cpp).  The server thread creates the service, starts it,  *)
(* gives it new TXT records after every SetSettings and stops it; a thread *)
(* of libavahi runs the callbacks.  The poll lock keeps the two apart, but *)
(* setTxt assigns m_txt before it takes the lock.                          *)
(*                                                                         *)
(* Outside is the Avahi daemon.  It may be away, lose the client for good  *)
(* (which has no AVAHI_CLIENT_NO_FAIL), change its host name, refuse an    *)
(* entry or a commit, fail a group it had accepted, and find that another  *)
(* host has the name of a service.  Its signals reach the callbacks in     *)
(* order, some time later.                                                 *)
(***************************************************************************)
EXTENDS Naturals, Sequences

CONSTANTS
  Txts,           \* the TXT records setTxt is given
  Torn,           \* what is read of them while they are being replaced
  MaxCollisions,  \* bound: names found on another host
  MaxHosts        \* bound: changes of the host name

ASSUME AvahiAssumption ==
  /\ Torn \notin Txts
  /\ MaxCollisions \in Nat /\ MaxHosts \in Nat

VARIABLES
  \* AvahiService
  server,       \* where the server thread is
  m_txt,
  m_group,      \* the entry group: none, or what the daemon has of it
  renameCount,  \* m_renameCount: m_currentName is m_baseName, then ...-1, ...-2
  \* the daemon
  daemon,
  link,         \* the connection of the client to it
  host,         \* its host name
  signals,      \* those under way to the client
  published,    \* what it announces for the service
  \* histories
  taken,        \* names found on another host
  collisions,   \* how many times
  refused,      \* the last attempt to publish failed, at once or later
  kept          \* the group was left as it was when the daemon ran again

service == <<server, m_txt>>
entry   == <<m_group, published, refused, kept>>
outside == <<daemon, link, host, signals, taken, collisions>>
vars    == <<service, entry, renameCount, outside>>

Signals == {"running", "collision", "failure"}

Nothing == [name |-> 0, txt |-> Torn, host |-> 0, on |-> FALSE]

TypeOK ==
  /\ server \in {"created", "serving", "assigning", "assigned", "ended", "aborted"}
  /\ m_txt \in Txts \cup {Torn}
  /\ m_group \in {"none", "empty", "filled"}
  /\ renameCount \in Nat
  /\ daemon \in {"absent", "registering", "running"}
  /\ link \in {"none", "up", "lost"}
  /\ host \in Nat
  /\ signals \in Seq(Signals)
  /\ published \in [name : Nat, txt : Txts \cup {Torn}, host : Nat, on : BOOLEAN]
  /\ taken \subseteq Nat /\ collisions \in Nat
  /\ refused \in BOOLEAN /\ kept \in BOOLEAN

\* Server::start has constructed the service and given it its first records.
Init ==
  /\ server = "created" /\ m_txt \in Txts
  /\ m_group = "none" /\ published = Nothing /\ refused = FALSE /\ kept = FALSE
  /\ renameCount = 0
  /\ daemon \in {"absent", "registering", "running"}
  /\ link = "none" /\ host = 0 /\ signals = <<>>
  /\ taken = {} /\ collisions = 0

-----------------------------------------------------------------------------
(* Publishing *)

\* avahi_entry_group_add_service_strlst and commit, either of which may fail: a
\* name another client of this daemon has is refused at once.
Publish(name) ==
  \/ /\ m_group' = "filled" /\ refused' = FALSE /\ kept' = FALSE
     /\ published' = [name |-> name, txt |-> m_txt, host |-> host, on |-> TRUE]
  \/ /\ m_group' \in {"empty", "filled"} /\ refused' = TRUE /\ kept' = FALSE
     /\ published' = Nothing

\* createOrUpdateService, the group being left alone when it is not empty.
CreateOrUpdate ==
  IF m_group = "filled"
  THEN kept' = TRUE /\ UNCHANGED <<m_group, published, refused>>
  ELSE Publish(renameCount)

\* resetGroup, then createOrUpdateService, which finds the group empty.  A client
\* that has lost its daemon can do neither.
Republish(name) ==
  IF link = "up" THEN Publish(name) ELSE UNCHANGED entry

Serving == server \in {"serving", "assigning", "assigned"}

-----------------------------------------------------------------------------
(* The server thread *)

\* What start() throws nobody catches: the thread ends the process.
Abort ==
  /\ server' = "aborted" /\ m_group' = "none" /\ published' = Nothing
  /\ link' = "none" /\ signals' = <<>>
  /\ UNCHANGED <<m_txt, renameCount, refused, kept, daemon, host, taken, collisions>>

\* start, without a daemon or a thread.
StartFails == server = "created" /\ Abort

\* start: avahi_client_new calls the callback itself, before there is a thread.
Start ==
  /\ server = "created" /\ daemon # "absent"
  /\ server' = "serving" /\ link' = "up"
  /\ IF daemon = "running" THEN CreateOrUpdate ELSE UNCHANGED entry
  /\ UNCHANGED <<m_txt, renameCount, daemon, host, signals, taken, collisions>>

\* setTxt: the assignment of m_txt, without the lock ...
Assign ==
  /\ server = "serving"
  /\ server' = "assigning" /\ m_txt' = Torn
  /\ UNCHANGED <<entry, renameCount, outside>>

Assigned(txt) ==
  /\ server = "assigning"
  /\ server' = "assigned" /\ m_txt' = txt
  /\ UNCHANGED <<entry, renameCount, outside>>

\* Faulty: the group is not reset.
UpdateInPlace ==
  /\ server = "assigned" /\ server' = "serving"
  /\ IF link = "up" THEN CreateOrUpdate ELSE UNCHANGED entry
  /\ UNCHANGED <<m_txt, renameCount, outside>>

\* ... and the rest, with it.
Update ==
  /\ server = "assigned" /\ server' = "serving"
  /\ Republish(renameCount)
  /\ UNCHANGED <<m_txt, renameCount, outside>>

\* stop, of a service that runs.
Stop ==
  /\ server = "serving" /\ server' = "ended"
  /\ m_group' = "none" /\ published' = Nothing
  /\ link' = "none" /\ signals' = <<>>
  /\ UNCHANGED <<m_txt, renameCount, refused, kept, daemon, host, taken, collisions>>

-----------------------------------------------------------------------------
(* The thread of libavahi *)

Due(signal) == Serving /\ link = "up" /\ signals # <<>> /\ Head(signals) = signal

UnderWay(signal) == \E i \in DOMAIN signals : signals[i] = signal

Signalled(signal) == Due(signal) /\ signals' = Tail(signals)

\* Faulty: that the daemon runs is only logged, too.
ClientRunningLogged ==
  /\ Signalled("running")
  /\ UNCHANGED <<service, entry, renameCount, daemon, link, host, taken, collisions>>

\* handleClientState: the other states are only logged.
ClientRunning ==
  /\ Signalled("running")
  /\ CreateOrUpdate
  /\ UNCHANGED <<service, renameCount, daemon, link, host, taken, collisions>>

\* Faulty: the group that collided is not reset.
GroupCollisionUnreset ==
  /\ Signalled("collision")
  /\ renameCount' = renameCount + 1
  /\ CreateOrUpdate
  /\ UNCHANGED <<service, daemon, link, host, taken, collisions>>

\* Faulty: the name stays.
GroupCollisionUnnamed ==
  /\ Signalled("collision")
  /\ Republish(renameCount)
  /\ UNCHANGED <<service, renameCount, daemon, link, host, taken, collisions>>

\* handleGroupState, for a collision ...
GroupCollision ==
  /\ Signalled("collision")
  /\ renameCount' = renameCount + 1
  /\ Republish(renameCount + 1)
  /\ UNCHANGED <<service, daemon, link, host, taken, collisions>>

\* ... and for a failure, which is only logged, as the other states are.
GroupFailure ==
  /\ Signalled("failure")
  /\ UNCHANGED <<service, entry, renameCount, daemon, link, host, taken, collisions>>

\* Reading m_txt while it is replaced has no defined outcome: records that were
\* never given, or the end of the process.
TornRead ==
  /\ server = "assigning"
  /\ (Due("running") /\ m_group # "filled") \/ Due("collision")
  /\ Abort

-----------------------------------------------------------------------------
(* The daemon *)

DaemonRuns ==
  /\ daemon = "registering" /\ daemon' = "running"
  /\ signals' = IF link = "up" THEN Append(signals, "running") ELSE signals
  /\ UNCHANGED <<service, entry, renameCount, link, host, taken, collisions>>

\* What is announced keeps the host name it was added with.
HostChanges ==
  /\ daemon = "running" /\ daemon' = "registering"
  /\ host < MaxHosts /\ host' = host + 1
  /\ UNCHANGED <<service, entry, renameCount, link, signals, taken, collisions>>

\* AVAHI_CLIENT_FAILURE, which is only logged.
DaemonLeaves ==
  /\ daemon # "absent" /\ daemon' = "absent"
  /\ link' = (IF link = "up" THEN "lost" ELSE link)
  /\ published' = Nothing /\ signals' = <<>>
  /\ UNCHANGED <<service, m_group, refused, kept, renameCount, host, taken, collisions>>

DaemonComes ==
  /\ daemon = "absent" /\ daemon' = "registering"
  /\ UNCHANGED <<service, entry, renameCount, link, host, signals, taken, collisions>>

\* Another host has the name: the daemon stops announcing it, and says so.
NameTaken ==
  /\ published.on /\ collisions < MaxCollisions
  /\ collisions' = collisions + 1 /\ taken' = taken \cup {published.name}
  /\ published' = Nothing /\ signals' = Append(signals, "collision")
  /\ UNCHANGED <<service, m_group, refused, kept, renameCount, daemon, link, host>>

\* The daemon gives up a group it had accepted.  Bound: one failure under way.
GroupFails ==
  /\ published.on /\ ~UnderWay("failure")
  /\ published' = Nothing /\ refused' = TRUE
  /\ signals' = Append(signals, "failure")
  /\ UNCHANGED <<service, m_group, kept, renameCount, daemon, link, host, taken, collisions>>

ServerNext == StartFails \/ Start \/ Assign \/ (\E txt \in Txts : Assigned(txt)) \/ Update \/ Stop
ThreadNext == ClientRunning \/ GroupCollision \/ GroupFailure \/ TornRead
DaemonNext == DaemonRuns \/ HostChanges \/ DaemonLeaves \/ DaemonComes \/ NameTaken \/ GroupFails

Next == ServerNext \/ ThreadNext \/ DaemonNext

\* A call of setTxt goes on to its end, callbacks are dispatched, and a daemon that
\* registers its host name comes to run.
Fairness ==
  /\ WF_vars(\E txt \in Txts : Assigned(txt)) /\ WF_vars(Update)
  /\ WF_vars(ThreadNext) /\ WF_vars(DaemonRuns)

Spec     == Init /\ [][Next]_vars
FairSpec == Spec /\ Fairness

-----------------------------------------------------------------------------
(* Properties *)

\* What is announced between two calls of setTxt are the records given last,
\* whatever a callback has read while they were replaced; and the host is the one
\* the daemon has, unless the daemon is about to run under another name, the
\* callback has yet to hear that it does, or it did and the group was left as it
\* was (AvahiService.cpp 192-195).
AnnouncesTheLatest ==
  server = "serving" /\ published.on =>
    /\ published.txt = m_txt
    /\ published.host = host \/ kept \/ UnderWay("running") \/ daemon = "registering"

\* A service that runs is announced, but for four circumstances: the daemon has
\* left, it has refused the entry or given it up, it has not got its own name yet,
\* or a callback that will publish is under way (AvahiService.cpp 125-169).
UnannouncedOnlyIfKnown ==
  server = "serving" /\ ~published.on =>
    \/ link = "lost" \/ refused \/ daemon = "registering"
    \/ UnderWay("running") \/ UnderWay("collision")

\* A name another host has is given up: it may be announced again by a setTxt, but
\* only as long as the collision is on its way to the callback.
GivesUpTakenNames ==
  published.on /\ published.name \in taken => UnderWay("collision")

\* A service that is not announced comes back by itself, if the daemon neither
\* leaves nor refuses it and it is not stopped.
ComesBack ==
  Serving /\ ~published.on
    ~> published.on \/ refused \/ link # "up" \/ ~Serving
=============================================================================
