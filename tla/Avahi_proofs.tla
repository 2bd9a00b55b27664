----------------------------- MODULE Avahi_proofs -----------------------------
(***************************************************************************)
(* Avahi for any records, any number of collisions and of host names.      *)
(*                                                                         *)
(* The properties speak of the moments between two calls of setTxt; Inv    *)
(* adds what holds in between: what is announced bears the current name,   *)
(* only a client that is connected announces anything, and a group that is *)
(* not empty and not announced was refused or has collided, in which case  *)
(* the callback that will reset it is still to come.                       *)
(***************************************************************************)
EXTENDS Avahi, TLAPS

Early == server = "created" =>
  m_group = "none" /\ ~published.on /\ link = "none" /\ taken = {} /\ signals = <<>>

Linked ==
  /\ published.on => link = "up" /\ published.name = renameCount
  /\ link = "up" => Serving
  /\ Serving => link # "none"
  /\ link = "up" => daemon # "absent"

RecordsSound == published.on /\ server # "assigning" =>
  server = "assigned" \/ published.txt = m_txt

HostSound == published.on =>
  published.host = host \/ kept \/ UnderWay("running") \/ daemon = "registering"

GroupSound ==
  /\ Serving /\ ~published.on =>
       \/ link = "lost" \/ refused \/ daemon = "registering"
       \/ UnderWay("running") \/ UnderWay("collision")
  /\ link = "up" /\ ~published.on /\ m_group = "filled" => refused \/ UnderWay("collision")

NamesSound ==
  /\ \A n \in taken : n <= renameCount
  /\ link = "up" /\ renameCount \in taken => UnderWay("collision")

Inv == TypeOK /\ Early /\ Linked /\ RecordsSound /\ HostSound /\ GroupSound /\ NamesSound

USE DEF Serving

LEMMA SameSignals ==
  ASSUME UNCHANGED signals
  PROVE  /\ UnderWay("running")' <=> UnderWay("running")
         /\ UnderWay("collision")' <=> UnderWay("collision")
  BY DEF UnderWay

\* A signal that is not the first stays under way.
LEMMA TailKeepsSignal ==
  ASSUME signals \in Seq(Signals), signals # <<>>, signals' = Tail(signals)
  PROVE  /\ signals' \in Seq(Signals)
         /\ \A t : UnderWay(t) /\ t # Head(signals) => UnderWay(t)'
  <1> SUFFICES ASSUME NEW t, UnderWay(t), t # Head(signals)
               PROVE  UnderWay(t)'
    OBVIOUS
  <1>1. PICK i \in DOMAIN signals : signals[i] = t
    BY DEF UnderWay
  <1>2. i \in 2..Len(signals)
    BY <1>1
  <1>3. i - 1 \in DOMAIN Tail(signals) /\ Tail(signals)[i - 1] = t
    BY <1>1, <1>2
  <1> QED BY <1>3 DEF UnderWay

\* Nor does another that joins them take it away.
LEMMA AppendKeepsSignal ==
  ASSUME signals \in Seq(Signals), NEW s \in Signals, signals' = Append(signals, s)
  PROVE  /\ signals' \in Seq(Signals)
         /\ \A t : UnderWay(t) => UnderWay(t)'
         /\ UnderWay(s)'
  <1>1. Len(signals') = Len(signals) + 1 /\ signals'[Len(signals) + 1] = s
    OBVIOUS
  <1>2. \A i \in DOMAIN signals : i \in DOMAIN signals' /\ signals'[i] = signals[i]
    OBVIOUS
  <1> QED BY <1>1, <1>2 DEF UnderWay

LEMMA InitInv == Init => Inv
  <1> SUFFICES ASSUME Init PROVE Inv
    OBVIOUS
  <1>1. TypeOK
    <2>1. /\ signals \in Seq(Signals)
          /\ published \in [name : Nat, txt : Txts \cup {Torn}, host : Nat, on : BOOLEAN]
      BY DEF Init, Nothing
    <2> QED BY <2>1 DEF Init, TypeOK
  <1>2. ~published.on
    BY DEF Init, Nothing
  <1> QED BY <1>1, <1>2 DEF Init, Inv, Early, Linked, RecordsSound, HostSound, GroupSound, NamesSound

\* What an attempt to publish under a name leaves behind.
LEMMA PublishSound ==
  ASSUME TypeOK, NEW name \in Nat, Publish(name)
  PROVE  /\ m_group' \in {"none", "empty", "filled"} /\ refused' \in BOOLEAN /\ kept' \in BOOLEAN
         /\ published' \in [name : Nat, txt : Txts \cup {Torn}, host : Nat, on : BOOLEAN]
         /\ published'.on => /\ published'.name = name /\ published'.txt = m_txt
                             /\ published'.host = host
         /\ ~published'.on => refused'
  <1>1. CASE published' = [name |-> name, txt |-> m_txt, host |-> host, on |-> TRUE] /\ ~refused' /\ ~kept'
    BY <1>1 DEF Publish, TypeOK, Nothing
  <1>2. CASE published' = Nothing /\ refused' = TRUE
    BY <1>2 DEF Publish, TypeOK, Nothing
  <1> QED BY <1>1, <1>2 DEF Publish

USE DEF service, entry, outside

LEMMA NextInv == Inv /\ [Next]_vars => Inv'
  <1> SUFFICES ASSUME Inv, [Next]_vars PROVE Inv'
    OBVIOUS
  <1> USE DEF Inv
  <1>types. TypeOK
    OBVIOUS
  <1>1. ASSUME StartFails \/ TornRead PROVE Inv'
    <2>1. Abort BY <1>1 DEF StartFails, TornRead
    <2> QED BY <2>1 DEF Abort, TypeOK, Early, Linked, RecordsSound, HostSound, GroupSound,
                     NamesSound, Nothing
  <1>2. CASE Start
    <2>1. server' = "serving" /\ link' = "up" /\ taken' = {} /\ signals' = <<>>
      BY <1>2 DEF Start, Early
    <2>2. CASE daemon = "running"
      <3>1. Publish(renameCount)
        BY <1>2, <2>2 DEF Start, CreateOrUpdate, Early
      <3> QED BY <1>2, <2>1, <2>2, <3>1, PublishSound
            DEF Start, TypeOK, Early, Linked, RecordsSound, HostSound, GroupSound, NamesSound
    <2>3. CASE daemon # "running"
      <3>1. daemon' = "registering"
        BY <1>2, <2>3 DEF Start, TypeOK
      <3> QED BY <1>2, <2>1, <2>3, <3>1
            DEF Start, TypeOK, Early, Linked, RecordsSound, HostSound, GroupSound, NamesSound
    <2> QED BY <2>2, <2>3
  <1>3. CASE Assign
    BY <1>3, SameSignals DEF Assign, TypeOK, Early, Linked, RecordsSound, HostSound, GroupSound, NamesSound
  <1>4. ASSUME NEW txt \in Txts, Assigned(txt) PROVE Inv'
    BY <1>4, SameSignals DEF Assigned, TypeOK, Early, Linked, RecordsSound, HostSound, GroupSound, NamesSound
  <1>5. CASE Update
    <2>1. CASE link = "up"
      <3>1. Publish(renameCount) BY <1>5, <2>1 DEF Update, Republish
      <3> QED BY <1>5, <2>1, <3>1, PublishSound, SameSignals
            DEF Update, TypeOK, Early, Linked, RecordsSound, HostSound, GroupSound, NamesSound
    <2>2. CASE link # "up"
      BY <1>5, <2>2 DEF Update, Republish, TypeOK, Early, Linked, RecordsSound, HostSound,
                        GroupSound, NamesSound
    <2> QED BY <2>1, <2>2
  <1>6. CASE Stop
    BY <1>6 DEF Stop, TypeOK, Early, Linked, RecordsSound, HostSound, GroupSound, NamesSound, Nothing
  <1>7. CASE ClientRunning
    <2>1. /\ signals # <<>> /\ Head(signals) = "running" /\ signals' = Tail(signals)
          /\ link = "up" /\ Serving
      BY <1>7 DEF ClientRunning, Signalled, Due
    <2>2. signals' \in Seq(Signals)
      BY <2>1, TailKeepsSignal DEF TypeOK
    <2>3. UnderWay("collision") => UnderWay("collision")'
      BY <2>1, TailKeepsSignal DEF TypeOK
    <2>4. CASE m_group = "filled"
      BY <1>7, <2>1, <2>2, <2>3, <2>4
        DEF ClientRunning, CreateOrUpdate, TypeOK, Early, Linked, RecordsSound, HostSound,
            GroupSound, NamesSound
    <2>5. CASE m_group # "filled"
      <3>1. Publish(renameCount) BY <1>7, <2>5 DEF ClientRunning, CreateOrUpdate
      <3> QED BY <1>7, <2>1, <2>2, <2>3, <3>1, PublishSound
            DEF ClientRunning, TypeOK, Early, Linked, RecordsSound, HostSound, GroupSound, NamesSound
    <2> QED BY <2>4, <2>5
  <1>8. CASE GroupCollision
    <2>1. /\ signals # <<>> /\ Head(signals) = "collision" /\ signals' = Tail(signals)
          /\ link = "up" /\ Serving
      BY <1>8 DEF GroupCollision, Signalled, Due
    <2>2. signals' \in Seq(Signals) /\ (UnderWay("running") => UnderWay("running")')
      BY <2>1, TailKeepsSignal DEF TypeOK
    <2>3. Publish(renameCount + 1) /\ renameCount' = renameCount + 1
      BY <1>8, <2>1 DEF GroupCollision, Republish
    <2>4. renameCount' \notin taken'
      BY <1>8, <2>3 DEF GroupCollision, NamesSound, TypeOK
    <2>5. renameCount + 1 \in Nat BY DEF TypeOK
    <2> QED BY <1>8, <2>1, <2>2, <2>3, <2>4, <2>5, PublishSound
          DEF GroupCollision, TypeOK, Early, Linked, RecordsSound, HostSound, GroupSound, NamesSound
  <1>9. CASE DaemonRuns
    <2>1. CASE link = "up"
      <3>1. signals' = Append(signals, "running") BY <1>9, <2>1 DEF DaemonRuns
      <3>2. /\ signals' \in Seq(Signals) /\ UnderWay("running")'
            /\ UnderWay("collision") => UnderWay("collision")'
        BY <3>1, AppendKeepsSignal DEF TypeOK, Signals
      <3> QED BY <1>9, <2>1, <3>2
            DEF DaemonRuns, TypeOK, Early, Linked, RecordsSound, HostSound, GroupSound, NamesSound
    <2>2. CASE link # "up"
      BY <1>9, <2>2 DEF DaemonRuns, TypeOK, Early, Linked, RecordsSound, HostSound, GroupSound, NamesSound
    <2> QED BY <2>1, <2>2
  <1>10. CASE HostChanges
    BY <1>10, AvahiAssumption, SameSignals
      DEF HostChanges, TypeOK, Early, Linked, RecordsSound, HostSound, GroupSound, NamesSound
  <1>11. CASE DaemonLeaves
    BY <1>11 DEF DaemonLeaves, TypeOK, Early, Linked, RecordsSound, HostSound, GroupSound,
                 NamesSound, Nothing
  <1>12. CASE DaemonComes
    BY <1>12 DEF DaemonComes, TypeOK, Early, Linked, RecordsSound, HostSound, GroupSound, NamesSound
  <1>13. CASE NameTaken
    <2>1. signals' = Append(signals, "collision") /\ ~published'.on
      BY <1>13 DEF NameTaken, Nothing
    <2>2. /\ taken' = taken \cup {published.name} /\ published.name = renameCount
          /\ published' = Nothing
      BY <1>13 DEF NameTaken, Linked
    <2>3. /\ signals' \in Seq(Signals) /\ UnderWay("collision")'
          /\ UnderWay("running") => UnderWay("running")'
      BY <2>1, AppendKeepsSignal DEF TypeOK, Signals
    <2> QED BY <1>13, <2>1, <2>2, <2>3
          DEF NameTaken, TypeOK, Early, Linked, RecordsSound, HostSound, GroupSound, NamesSound, Nothing
  <1>14. CASE GroupFailure
    <2>1. /\ signals # <<>> /\ Head(signals) = "failure" /\ signals' = Tail(signals)
          /\ link = "up" /\ Serving
      BY <1>14 DEF GroupFailure, Signalled, Due
    <2>2. /\ signals' \in Seq(Signals)
          /\ UnderWay("running") => UnderWay("running")'
          /\ UnderWay("collision") => UnderWay("collision")'
      BY <2>1, TailKeepsSignal DEF TypeOK
    <2> QED BY <1>14, <2>1, <2>2
          DEF GroupFailure, TypeOK, Early, Linked, RecordsSound, HostSound, GroupSound, NamesSound
  <1>15. CASE GroupFails
    <2>1. signals' = Append(signals, "failure") /\ ~published'.on /\ link = "up"
      BY <1>15 DEF GroupFails, Nothing, Linked
    <2>2. /\ signals' \in Seq(Signals)
          /\ UnderWay("running") => UnderWay("running")'
          /\ UnderWay("collision") => UnderWay("collision")'
      BY <2>1, AppendKeepsSignal DEF TypeOK, Signals
    <2> QED BY <1>15, <2>1, <2>2
          DEF GroupFails, TypeOK, Early, Linked, RecordsSound, HostSound, GroupSound, NamesSound, Nothing
  <1>16. CASE UNCHANGED vars
    BY <1>16, SameSignals DEF vars, TypeOK, Early, Linked, RecordsSound, HostSound, GroupSound, NamesSound
  <1> QED BY <1>1, <1>2, <1>3, <1>4, <1>5, <1>6, <1>7, <1>8, <1>9, <1>10, <1>11, <1>12, <1>13, <1>14,
            <1>15, <1>16
        DEF Next, ServerNext, ThreadNext, DaemonNext

LEMMA Invariance == Spec => []Inv
  BY InitInv, NextInv, PTL DEF Spec

\* Between two calls of setTxt the records given last are announced, whatever was
\* read while they were replaced (AvahiService.cpp, setTxt), under the host name of
\* the daemon but in the circumstances AnnouncesTheLatest names.
THEOREM LatestAnnounced == Spec => []AnnouncesTheLatest
  <1>1. Inv => AnnouncesTheLatest
    BY DEF Inv, RecordsSound, HostSound, AnnouncesTheLatest
  <1> QED BY <1>1, Invariance, PTL

\* A service that runs is announced but in the circumstances that
\* UnannouncedOnlyIfKnown names.
THEOREM AnnouncedIfNothingIsWrong == Spec => []UnannouncedOnlyIfKnown
  <1>1. Inv => UnannouncedOnlyIfKnown
    BY DEF Inv, GroupSound, UnannouncedOnlyIfKnown
  <1> QED BY <1>1, Invariance, PTL

\* A name that collided is announced at most until the callback hears of it,
\* however often setTxt and the daemon intervene (handleGroupState).
THEOREM TakenNamesGivenUp == Spec => []GivesUpTakenNames
  <1>1. Inv => GivesUpTakenNames
    BY DEF Inv, Linked, NamesSound, GivesUpTakenNames
  <1> QED BY <1>1, Invariance, PTL
=============================================================================
