------------------------ MODULE TabLifecycle_proofs -------------------------
(***************************************************************************)
(* Theorems about TabLifecycle, for every value of its constants: its      *)
(* types, the inductive invariant IInv and the safety invariants it        *)
(* implies, and that TabLifecycle implements Terminal.                     *)
(*                                                                         *)
(* A step of the server thread that answers at once, or reads a reply, is  *)
(* Terminal's step; every other one stutters.  A reply is read long after  *)
(* the GUI thread wrote it, and other clients have been served meanwhile:  *)
(* that it is still what the books say needs RefinementInv (RepliesTrue,   *)
(* and with it that a sweep is due as long as what it removes is booked).  *)
(***************************************************************************)
EXTENDS TabLifecycle, FiniteSetTheorems, TLAPS

-----------------------------------------------------------------------------
(* Maps. *)

\* Entering a key and a value of the right sets keeps a map a map.
LEMMA WithType ==
  ASSUME NEW K, NEW V, NEW f, IsMap(f, K, V), NEW k \in K, NEW v \in V
  PROVE  IsMap(With(f, k, v), K, V)
  BY DEF With, IsMap

\* So does erasing a key.
LEMMA WithoutType ==
  ASSUME NEW K, NEW V, NEW f, IsMap(f, K, V), NEW k
  PROVE  IsMap(Without(f, k), K, V)
  BY DEF Without, IsMap

\* The keys after either, and the values.
LEMMA MapFields ==
  ASSUME NEW f, NEW k, NEW v
  PROVE  /\ DOMAIN With(f, k, v) = DOMAIN f \cup {k}
         /\ DOMAIN Without(f, k) = DOMAIN f \ {k}
         /\ With(f, k, v)[k] = v
         /\ \A x \in DOMAIN f : x # k => With(f, k, v)[x] = f[x] /\ Without(f, k)[x] = f[x]
  BY DEF With, Without

\* What a signal with a given op carries.
LEMMA CommandFields ==
  ASSUME NEW cmd \in Commands
  PROVE  /\ cmd.client \in Conns \cup {Nobody}
         /\ cmd.op \in {"NewWebTab", "KillTab"} \cup TabOps => cmd.id \in Tabs
         /\ cmd.op = "NewWebTab" => cmd.client \in Conns /\ cmd.how \in Places
         /\ cmd.op = "KillTab" => cmd.how \in Forces
         /\ cmd.op \in {"NewShortcut", "KillShortcut"} => cmd.id \in Shortcuts
         /\ cmd.client = Nobody => cmd.op \in {"KillTab", "KillShortcut"}
         /\ cmd.op # "none"
  BY IdsAssumption DEF Commands, Signal, TabOps

-----------------------------------------------------------------------------
(* Types. *)

\* What Ask leaves and sets, whatever the command.
LEMMA AskType ==
  ASSUME TypeOK, NEW cmd \in Commands, Ask(cmd)
  PROVE  TypeOK'
<1>1. CASE browserUp
  <2>1. call' = cmd /\ posted' = Append(posted, cmd)
    BY <1>1 DEF Ask, Post
  <2>2. posted' \in Seq(Commands)
    BY <2>1 DEF TypeOK
  <2>3. QED
    BY <1>1, <2>1, <2>2 DEF Ask, TypeOK, books, screen
<1>2. CASE ~browserUp
  <2>1. answer' \in [client : Conns \cup {Nobody}, ret : Results, body : SUBSET Ids]
    BY <1>2, CommandFields DEF Ask, Answer, Results
  <2>2. QED
    BY <1>2, <2>1 DEF Ask, TypeOK, books, screen
<1>3. QED
  BY <1>1, <1>2

\* The handlers that answer without asking the GUI.
LEMMA AnswerAtOnceType ==
  ASSUME TypeOK, NEW c \in Conns, NEW ret \in Results, AnswerAtOnce(c, ret)
  PROVE  /\ answer' \in [client : Conns \cup {Nobody}, ret : Results, body : SUBSET Ids]
         /\ UNCHANGED <<conns, call, doomed, closing, browserUp, pages, shortcuts,
                        overlay, posted, resp>>
  BY DEF AnswerAtOnce, Answer, thread, screen, channels, TypeOK

\* A request keeps every type.
LEMMA RequestType ==
  ASSUME TypeOK, NEW c \in Conns, Request(c)
  PROVE  TypeOK'
<1> USE DEF Command, Signal
<1>1. CASE BadRequest(c)
  BY <1>1, AnswerAtOnceType DEF BadRequest, books, TypeOK, Results
<1>2. CASE GetTabMap(c)
  <2>1. Command(c, "GetTabMap", NoId, "-") \in Commands
    BY DEF Commands
  <2>2. QED
    BY <1>2, <2>1, AskType DEF GetTabMap
<1>3. CASE GetShortcuts(c)
  <2>1. Command(c, "GetShortcuts", NoId, "-") \in Commands
    BY DEF Commands
  <2>2. QED
    BY <1>3, <2>1, AskType DEF GetShortcuts
<1>4. ASSUME NEW t \in Tabs, NEW how \in Places, NewWebTab(c, t, how)
      PROVE  TypeOK'
  <2>1. Command(c, "NewWebTab", t, how) \in Commands
    BY DEF Commands
  <2>2. QED
    BY <1>4, <2>1, AskType DEF NewWebTab
<1>5. ASSUME NEW t \in Tabs, NEW op \in TabOps, UseTab(c, op, t)
      PROVE  TypeOK'
  <2>1. Command(c, op, t, "-") \in Commands
    BY DEF Commands
  <2>2. QED
    BY <1>5, <2>1, AskType DEF UseTab
<1>6. ASSUME NEW t \in Tabs, NEW how \in Forces
      PROVE  Command(c, "KillTab", t, how) \in Commands
  BY DEF Commands
<1>7. ASSUME NEW t \in Tabs, KillTab(c, t)
      PROVE  TypeOK'
  BY <1>6, <1>7, AskType DEF KillTab, Forces
<1>8. ASSUME NEW t \in Tabs, NEW ttl \in 0..MaxTTL, IAmAlive(c, t, ttl)
      PROVE  TypeOK'
  <2>1. CASE AnswerAtOnce(c, "INVALID_TAB") /\ UNCHANGED books
    BY <2>1, AnswerAtOnceType DEF books, TypeOK, Results
  <2>2. CASE Ask(Command(c, "KillTab", t, "force"))
    BY <2>2, <1>6, AskType DEF Forces
  <2>3. CASE /\ AnswerAtOnce(c, "OK")
             /\ tabLeases' = With(tabLeases, t, ttl)
             /\ UNCHANGED <<shortcutLeases, connectionTabs, extraTabId>>
    <3>1. ttl \in Leases
      BY DEF Leases
    <3>2. IsMap(tabLeases', Tabs, Leases)
      BY <2>3, <3>1, WithType DEF TypeOK
    <3>3. "OK" \in Results
      BY DEF Results
    <3>4. /\ answer' \in [client : Conns \cup {Nobody}, ret : Results, body : SUBSET Ids]
          /\ UNCHANGED <<conns, call, doomed, closing, browserUp, pages, shortcuts,
                         overlay, posted, resp>>
      BY <2>3, <3>3, AnswerAtOnceType
    <3>5. QED
      BY <2>3, <3>2, <3>4 DEF TypeOK
  <2>4. QED
    BY <1>8, <2>1, <2>2, <2>3 DEF IAmAlive
<1>9. ASSUME NEW s \in Shortcuts, NEW how \in Places, NewShortcut(c, s, how)
      PROVE  TypeOK'
  <2>1. Command(c, "NewShortcut", s, how) \in Commands
    BY DEF Commands
  <2>2. QED
    BY <1>9, <2>1, AskType DEF NewShortcut
<1>10. ASSUME NEW s \in Shortcuts, KillShortcut(c, s)
       PROVE  TypeOK'
  <2>1. Command(c, "KillShortcut", s, "-") \in Commands
    BY DEF Commands
  <2>2. QED
    BY <1>10, <2>1, AskType DEF KillShortcut
<1>11. ASSUME NEW s \in Shortcuts, NEW ttl \in 0..MaxTTL, IAmAliveShortcut(c, s, ttl)
       PROVE  TypeOK'
  <2>1. CASE AnswerAtOnce(c, "INVALID_TAB") /\ UNCHANGED books
    BY <2>1, AnswerAtOnceType DEF books, TypeOK, Results
  <2>2. CASE KillShortcut(c, s)
    BY <2>2, <1>10
  <2>3. CASE /\ AnswerAtOnce(c, "OK")
             /\ shortcutLeases' = With(shortcutLeases, s, ttl)
             /\ UNCHANGED <<tabLeases, connectionTabs, extraTabId>>
    <3>1. ttl \in Leases
      BY DEF Leases
    <3>2. IsMap(shortcutLeases', Shortcuts, Leases)
      BY <2>3, <3>1, WithType DEF TypeOK
    <3>3. "OK" \in Results
      BY DEF Results
    <3>4. /\ answer' \in [client : Conns \cup {Nobody}, ret : Results, body : SUBSET Ids]
          /\ UNCHANGED <<conns, call, doomed, closing, browserUp, pages, shortcuts,
                         overlay, posted, resp>>
      BY <2>3, <3>3, AnswerAtOnceType
    <3>5. QED
      BY <2>3, <3>2, <3>4 DEF TypeOK
  <2>4. QED
    BY <1>11, <2>1, <2>2, <2>3 DEF IAmAliveShortcut
<1>12. QED
  BY <1>1, <1>2, <1>3, <1>4, <1>5, <1>7, <1>8, <1>9, <1>10, <1>11 DEF Request, Places

\* rememberOwnedTab and forgetOwnedTab keep the types of the books.
LEMMA RememberTabType ==
  ASSUME TypeOK, NEW c \in Conns, NEW t \in Tabs, NEW how, RememberTab(c, t, how)
  PROVE  /\ IsMap(tabLeases', Tabs, Leases)
         /\ shortcutLeases' = shortcutLeases
         /\ connectionTabs' \in [Conns -> SUBSET Tabs]
         /\ extraTabId' \in Tabs \cup {NoId}
<1>1. Forever \in Leases
  BY DEF Leases
<1>2. QED
  BY <1>1, WithType DEF RememberTab, TypeOK

LEMMA ForgetTabType ==
  ASSUME TypeOK, NEW t, ForgetTab(t)
  PROVE  /\ IsMap(tabLeases', Tabs, Leases)
         /\ shortcutLeases' = shortcutLeases
         /\ connectionTabs' \in [Conns -> SUBSET Tabs]
         /\ extraTabId' \in Tabs \cup {NoId}
  BY WithoutType DEF ForgetTab, TypeOK

\* The end of a handler keeps the types of everything but the books.
LEMMA FinishType ==
  ASSUME TypeOK, resp # NoResp, NEW body \in SUBSET Ids, Finish(body)
  PROVE  /\ answer' \in [client : Conns \cup {Nobody}, ret : Results, body : SUBSET Ids]
         /\ call' = NoCall /\ resp' = NoResp
         /\ UNCHANGED <<conns, doomed, closing, browserUp, pages, shortcuts, overlay, posted>>
<1>1. resp.ret \in Results
  BY DEF TypeOK
<1>2. call.client \in Conns \cup {Nobody}
  BY CommandFields DEF TypeOK, NoCall
<1>3. QED
  BY <1>1, <1>2 DEF Finish, Answer, screen

\* A handler that comes back keeps every type.
LEMMA ReturnType ==
  ASSUME TypeOK, Return
  PROVE  TypeOK'
<1> DEFINE BooksOK == /\ IsMap(tabLeases', Tabs, Leases)
                      /\ IsMap(shortcutLeases', Shortcuts, Leases)
                      /\ connectionTabs' \in [Conns -> SUBSET Tabs]
                      /\ extraTabId' \in Tabs \cup {NoId}
<1>1. ASSUME NEW body \in SUBSET Ids, resp # NoResp, Finish(body), BooksOK
      PROVE  TypeOK'
  BY <1>1, FinishType DEF TypeOK
<1>2. ASSUME UNCHANGED books
      PROVE  BooksOK
  BY <1>2 DEF books, TypeOK
<1>3. ASSUME NEW op, Returning(op), op # "none"
      PROVE  call \in Commands /\ call.op = op /\ resp # NoResp
  BY <1>3 DEF Returning, TypeOK, NoCall
<1>4. {} \in SUBSET Ids
  OBVIOUS
<1>5. CASE ReturnNewWebTab
  <2>1. call.id \in Tabs /\ call.client \in Conns /\ resp # NoResp
    BY <1>3, <1>5, CommandFields DEF ReturnNewWebTab
  <2>2. CASE RememberTab(call.client, call.id, call.how) /\ Finish({call.id})
    <3>1. BooksOK
      BY <2>1, <2>2, RememberTabType DEF TypeOK
    <3>2. QED
      BY <1>1, <2>1, <2>2, <3>1 DEF Ids
  <2>3. CASE UNCHANGED books /\ Finish({})
    BY <1>1, <1>2, <1>4, <2>1, <2>3
  <2>4. QED
    BY <1>5, <2>2, <2>3 DEF ReturnNewWebTab
<1>6. CASE ReturnKillTab
  <2>1. resp # NoResp /\ Finish({})
    BY <1>6 DEF ReturnKillTab, Returning
  <2>2. CASE ForgetTab(call.id)
    <3>1. BooksOK
      BY <2>2, ForgetTabType DEF TypeOK
    <3>2. QED
      BY <1>1, <1>4, <2>1, <3>1
  <2>3. CASE UNCHANGED books
    BY <1>1, <1>2, <1>4, <2>1, <2>3
  <2>4. QED
    BY <1>6, <2>2, <2>3 DEF ReturnKillTab
<1>7. CASE ReturnNewShortcut
  <2>1. call.id \in Shortcuts /\ resp # NoResp
    BY <1>3, <1>7, CommandFields DEF ReturnNewShortcut
  <2>2. CASE /\ shortcutLeases' = With(shortcutLeases, call.id, Forever)
             /\ UNCHANGED <<tabLeases, connectionTabs, extraTabId>>
             /\ Finish({call.id})
    <3>1. Forever \in Leases
      BY DEF Leases
    <3>2. IsMap(shortcutLeases', Shortcuts, Leases)
      BY <2>1, <2>2, <3>1, WithType DEF TypeOK
    <3>3. BooksOK
      BY <2>2, <3>2 DEF TypeOK
    <3>4. QED
      BY <1>1, <2>1, <2>2, <3>3 DEF Ids
  <2>3. CASE UNCHANGED books /\ Finish({})
    BY <1>1, <1>2, <1>4, <2>1, <2>3
  <2>4. QED
    BY <1>7, <2>2, <2>3 DEF ReturnNewShortcut
<1>8. CASE ReturnKillShortcut
  <2>1. resp # NoResp /\ Finish({})
    BY <1>8 DEF ReturnKillShortcut, Returning
  <2>2. IsMap(shortcutLeases', Shortcuts, Leases)
    BY <1>8, WithoutType DEF ReturnKillShortcut, TypeOK
  <2>3. BooksOK
    BY <1>8, <2>2 DEF ReturnKillShortcut, TypeOK
  <2>4. QED
    BY <1>1, <1>4, <2>1, <2>3
<1>9. CASE ReturnAnswer
  <2>1. resp # NoResp /\ resp.body \in SUBSET Ids
    BY <1>9 DEF ReturnAnswer, Returning, TypeOK
  <2>2. QED
    BY <1>1, <1>2, <1>9, <2>1 DEF ReturnAnswer
<1>10. QED
  BY <1>5, <1>6, <1>7, <1>8, <1>9 DEF Return

\* Connections come and go.
LEMMA ConnectionType ==
  ASSUME TypeOK, NEW c \in Conns, Accept(c) \/ Close(c)
  PROVE  TypeOK'
<1> USE DEF TypeOK, books, screen, channels, thread
<1>1. CASE Accept(c)
  BY <1>1 DEF Accept
<1>2. CASE Close(c)
  <2>1. doomed' \subseteq Ids
    BY <1>2 DEF Close, Ids
  <2>2. QED
    BY <1>2, <2>1 DEF Close
<1>3. QED
  BY <1>1, <1>2

LEMMA EraseConnectionType ==
  ASSUME TypeOK, EraseConnection
  PROVE  TypeOK'
  BY DEF EraseConnection, TypeOK, screen, channels

\* A kill nobody waits for is a signal like any other.
LEMMA PostAsyncType ==
  ASSUME TypeOK, NEW op, NEW x, NEW how, Command(Nobody, op, x, how) \in Commands,
         PostAsync(op, x, how)
  PROVE  posted' \in Seq(Commands)
  BY DEF PostAsync, Post, TypeOK

\* The lease sweep.
LEMMA SweepType ==
  ASSUME TypeOK, Prune \/ Sweep
  PROVE  TypeOK'
<1> USE DEF books, screen
<1>1. CASE Prune
  <2>1. doomed' \subseteq Ids
    BY <1>1 DEF Prune, RunOut, TypeOK, IsMap, Ids
  <2>2. QED
    BY <1>1, <2>1 DEF Prune, TypeOK, channels
<1>2. ASSUME NEW t \in Tabs, SweepTab(t)
      PROVE  TypeOK'
  <2>1. Command(Nobody, "KillTab", t, "force") \in Commands
    BY DEF Command, Commands, Signal, Forces
  <2>2. posted' \in Seq(Commands)
    BY <1>2, <2>1, PostAsyncType DEF SweepTab
  <2>3. QED
    BY <1>2, <2>2, ForgetTabType DEF SweepTab, TypeOK
<1>3. ASSUME NEW s \in Shortcuts, SweepShortcut(s)
      PROVE  TypeOK'
  <2>1. Command(Nobody, "KillShortcut", s, "-") \in Commands
    BY DEF Command, Commands, Signal
  <2>2. posted' \in Seq(Commands)
    BY <1>3, <2>1, PostAsyncType DEF SweepShortcut
  <2>3. IsMap(shortcutLeases', Shortcuts, Leases)
    BY <1>3, WithoutType DEF SweepShortcut, TypeOK
  <2>4. QED
    BY <1>3, <2>2, <2>3 DEF SweepShortcut, TypeOK
<1>4. QED
  BY <1>1, <1>2, <1>3 DEF Sweep

\* Time.
LEMMA ElapseType ==
  ASSUME NEW K, NEW f, IsMap(f, K, Leases)
  PROVE  IsMap([x \in DOMAIN f |-> Elapse(f[x])], K, Leases)
<1>1. \A l \in Leases : Elapse(l) \in Leases
  BY LimitsAssumption DEF Leases, Elapse
<1>2. QED
  BY <1>1 DEF IsMap

LEMMA TickType ==
  ASSUME TypeOK, Tick
  PROVE  TypeOK'
<1>1. IsMap(tabLeases', Tabs, Leases) /\ IsMap(shortcutLeases', Shortcuts, Leases)
  BY ElapseType DEF Tick, TypeOK
<1>2. QED
  BY <1>1 DEF Tick, TypeOK, thread, screen, channels

\* The GUI thread: what every handler leaves alone, and its reply.
LEMMA DeliverType ==
  ASSUME TypeOK, NEW ops, Deliver(ops)
  PROVE  /\ Head(posted) \in Commands /\ Head(posted).op \in ops
         /\ posted' \in Seq(Commands)
         /\ UNCHANGED <<conns, tabLeases, shortcutLeases, connectionTabs, extraTabId,
                        call, doomed, closing, answer, browserUp>>
  BY DEF Deliver, TypeOK, books, thread

LEMMA ReplyType ==
  ASSUME TypeOK, NEW ret \in Results, NEW body \in SUBSET Ids, Reply(ret, body)
  PROVE  resp' \in [ret : Results, body : SUBSET Ids] \cup {NoResp}
  BY DEF Reply, TypeOK

LEMMA GuiType ==
  ASSUME TypeOK, GuiStep
  PROVE  TypeOK'
<1> DEFINE RespOK == resp' \in [ret : Results, body : SUBSET Ids] \cup {NoResp}
<1>1. ASSUME NEW ops, Deliver(ops), RespOK, IsMap(pages', Tabs, {"normal", "extra"}),
             shortcuts' \subseteq Shortcuts, overlay' \in BOOLEAN
      PROVE  TypeOK'
  BY <1>1, DeliverType DEF TypeOK
<1>2. {} \in SUBSET Ids /\ {"OK", "EXEC_ERROR", "INVALID_TAB"} \subseteq Results
  BY DEF Results
<1>3. IsMap(pages, Tabs, {"normal", "extra"}) /\ shortcuts \subseteq Shortcuts
      /\ overlay \in BOOLEAN
  BY DEF TypeOK
<1>4. CASE OnNewWebTab
  <2>1. Head(posted).id \in Tabs
    BY <1>4, DeliverType, CommandFields DEF OnNewWebTab
  <2>2. PICK room \in Room(Head(posted).how) :
          /\ pages' = IF room
                      THEN With(pages, Head(posted).id,
                                IF Head(posted).how = "extra" THEN "extra" ELSE "normal")
                      ELSE pages
          /\ Reply(IF room THEN "OK" ELSE "EXEC_ERROR", {})
    BY <1>4 DEF OnNewWebTab
  <2>3. RespOK
    BY <1>2, <2>2, ReplyType
  <2>4. IsMap(pages', Tabs, {"normal", "extra"})
    BY <1>3, <2>1, <2>2, WithType
  <2>5. QED
    BY <1>1, <1>3, <1>4, <2>3, <2>4 DEF OnNewWebTab
<1>5. CASE OnKillTab
  <2>1. RespOK
    BY <1>2, <1>5, ReplyType DEF OnKillTab
  <2>2. IsMap(pages', Tabs, {"normal", "extra"})
    BY <1>3, <1>5, WithoutType DEF OnKillTab
  <2>3. overlay' \in BOOLEAN
    BY <1>5 DEF OnKillTab
  <2>4. QED
    BY <1>1, <1>3, <1>5, <2>1, <2>2, <2>3 DEF OnKillTab
<1>6. CASE OnUseTab
  <2>1. RespOK
    BY <1>2, <1>6, ReplyType DEF OnUseTab
  <2>2. overlay' \in BOOLEAN
    BY <1>6 DEF OnUseTab
  <2>3. QED
    BY <1>1, <1>3, <1>6, <2>1, <2>2 DEF OnUseTab
<1>7. CASE OnGetTabMap
  <2>1. NormalPages \in SUBSET Ids
    BY DEF NormalPages, TypeOK, IsMap, Ids
  <2>2. RespOK
    BY <1>2, <1>7, <2>1, ReplyType DEF OnGetTabMap
  <2>3. QED
    BY <1>1, <1>3, <1>7, <2>2 DEF OnGetTabMap, screen
<1>8. CASE OnNewShortcut
  <2>1. Head(posted).id \in Shortcuts
    BY <1>8, DeliverType, CommandFields DEF OnNewShortcut
  <2>2. RespOK
    BY <1>2, <1>8, ReplyType DEF OnNewShortcut
  <2>3. shortcuts' \subseteq Shortcuts
    BY <1>3, <1>8, <2>1 DEF OnNewShortcut
  <2>4. QED
    BY <1>1, <1>3, <1>8, <2>2, <2>3 DEF OnNewShortcut
<1>9. CASE OnKillShortcut
  <2>1. RespOK
    BY <1>2, <1>9, ReplyType DEF OnKillShortcut
  <2>2. QED
    BY <1>1, <1>3, <1>9, <2>1 DEF OnKillShortcut
<1>10. CASE OnGetShortcuts
  <2>1. shortcuts \in SUBSET Ids
    BY <1>3 DEF Ids
  <2>2. RespOK
    BY <1>2, <1>10, <2>1, ReplyType DEF OnGetShortcuts
  <2>3. QED
    BY <1>1, <1>3, <1>10, <2>2 DEF OnGetShortcuts, screen
<1>11. QED
  BY <1>4, <1>5, <1>6, <1>7, <1>8, <1>9, <1>10 DEF GuiStep

\* The initial values have their types.
LEMMA InitType ==
  ASSUME Init
  PROVE  TypeOK
<1>1. IsMap(EmptyMap, Tabs, Leases) /\ IsMap(EmptyMap, Shortcuts, Leases)
      /\ IsMap(EmptyMap, Tabs, {"normal", "extra"})
  BY DEF IsMap, EmptyMap
<1>2. answer \in [client : Conns \cup {Nobody}, ret : Results, body : SUBSET Ids]
  BY DEF Init, Results
<1>3. posted \in Seq(Commands)
  BY DEF Init
<1>4. QED
  BY <1>1, <1>2, <1>3 DEF Init, TypeOK

\* Every variable keeps its type, for any number of clients, tabs, shortcuts and
\* limits.
THEOREM TypeCorrect == Spec => []TypeOK
<1>1. Init => TypeOK
  BY InitType
<1>2. TypeOK /\ [Next]_vars => TypeOK'
  <2> SUFFICES ASSUME TypeOK, [Next]_vars
               PROVE  TypeOK'
    OBVIOUS
  <2>1. CASE UNCHANGED vars
    BY <2>1 DEF TypeOK, vars, books, thread, screen, channels
  <2>2. CASE BrowserReady
    BY <2>2 DEF BrowserReady, TypeOK, books, thread, screen, channels
  <2>3. ASSUME NEW c \in Conns, Accept(c) \/ Close(c) \/ Request(c)
        PROVE  TypeOK'
    BY <2>3, RequestType, ConnectionType
  <2>4. CASE EraseConnection \/ Return \/ Prune \/ Sweep \/ Tick \/ GuiStep
    BY <2>4, ReturnType, SweepType, TickType, GuiType, EraseConnectionType
  <2>5. QED
    BY <2>1, <2>2, <2>3, <2>4 DEF Next
<1>3. QED
  BY <1>1, <1>2, PTL DEF Spec

-----------------------------------------------------------------------------
(* The kills in the queue. *)

\* Membership, spelled out.
LEMMA AsyncKilledMember ==
  ASSUME NEW x
  PROVE  x \in AsyncKilled <=>
           \E i \in 1..Len(posted) : posted[i].client = Nobody /\ posted[i].id = x
  BY DEF AsyncKilled

\* Posting a signal somebody waits for adds none.
LEMMA AppendAwaited ==
  ASSUME TypeOK, NEW cmd \in Commands, cmd.client # Nobody, posted' = Append(posted, cmd)
  PROVE  AsyncKilled' = AsyncKilled
<1>1. Len(posted') = Len(posted) + 1 /\ posted'[Len(posted')] = cmd
      /\ \A i \in 1..Len(posted) : posted'[i] = posted[i]
  BY DEF TypeOK
<1>2. Len(posted) \in Nat
  BY DEF TypeOK
<1>3. QED
  BY <1>1, <1>2 DEF AsyncKilled

\* Posting one nobody waits for adds its id.
LEMMA AppendAsync ==
  ASSUME TypeOK, NEW cmd \in Commands, cmd.client = Nobody, posted' = Append(posted, cmd)
  PROVE  AsyncKilled' = AsyncKilled \cup {cmd.id}
<1>1. Len(posted') = Len(posted) + 1 /\ posted'[Len(posted')] = cmd
      /\ \A i \in 1..Len(posted) : posted'[i] = posted[i]
  BY DEF TypeOK
<1>2. Len(posted) \in Nat
  BY DEF TypeOK
<1>3. QED
  BY <1>1, <1>2 DEF AsyncKilled

\* Delivering the oldest signal takes away its id at most.
LEMMA TailKilled ==
  ASSUME TypeOK, posted # <<>>, posted' = Tail(posted)
  PROVE  /\ AsyncKilled' \subseteq AsyncKilled
         /\ Head(posted).client # Nobody => AsyncKilled' = AsyncKilled
         /\ Head(posted).client = Nobody =>
              AsyncKilled = AsyncKilled' \cup {Head(posted).id}
<1>1. /\ Len(posted) \in Nat \ {0} /\ Len(posted') = Len(posted) - 1
      /\ Head(posted) = posted[1]
      /\ \A i \in 1..Len(posted') : posted'[i] = posted[i + 1]
  BY DEF TypeOK
<1>2. ASSUME NEW x \in AsyncKilled'
      PROVE  x \in AsyncKilled
  BY <1>1, <1>2 DEF AsyncKilled
<1>3. ASSUME NEW x \in AsyncKilled
      PROVE  x \in AsyncKilled' \/ (Head(posted).client = Nobody /\ x = Head(posted).id)
  <2>1. PICK i \in 1..Len(posted) : posted[i].client = Nobody /\ posted[i].id = x
    BY <1>3 DEF AsyncKilled
  <2>2. CASE i = 1
    BY <1>1, <2>1, <2>2
  <2>3. CASE i # 1
    <3>1. i - 1 \in 1..Len(posted') /\ posted'[i - 1] = posted[i]
      BY <1>1, <2>3
    <3>2. QED
      BY <2>1, <3>1 DEF AsyncKilled
  <2>4. QED
    BY <2>2, <2>3
<1>4. Head(posted).client = Nobody => Head(posted).id \in AsyncKilled
  BY <1>1 DEF AsyncKilled
<1>5. QED
  BY <1>2, <1>3, <1>4

\* Tabs and shortcuts have ids of their own.
LEMMA KeysApart ==
  ASSUME TypeOK
  PROVE  /\ DOMAIN tabLeases \subseteq Tabs /\ DOMAIN pages \subseteq Tabs
         /\ DOMAIN shortcutLeases \subseteq Shortcuts /\ shortcuts \subseteq Shortcuts
         /\ \A t \in Tabs : t \notin Shortcuts
  BY IdsAssumption DEF TypeOK, IsMap

-----------------------------------------------------------------------------
(* Steps. *)

\* A step that changes no key of the books, nothing on screen and nothing under
\* way: answers, renewals, time.
LEMMA SameKeysInv ==
  ASSUME IInv, TypeOK',
         DOMAIN tabLeases' = DOMAIN tabLeases,
         DOMAIN shortcutLeases' = DOMAIN shortcutLeases,
         UNCHANGED <<conns, connectionTabs, extraTabId, call, doomed, closing,
                     browserUp, pages, shortcuts, overlay, posted, resp>>
  PROVE  IInv'
<1>1. QueueShape' /\ KillsAreDue' /\ MailboxTells' /\ NothingBeforeBrowser' /\ ClosingSweeps'
  BY DEF IInv, QueueShape, KillsAreDue, MailboxTells, NothingBeforeBrowser, ClosingSweeps
<1>2. AsyncKilled' = AsyncKilled
  BY DEF AsyncKilled
<1>3. BooksMatchScreen'
  BY <1>2 DEF IInv, BooksMatchScreen, InFlight, hasTab
<1>4. ExtraZoneSound' /\ OwnersSound'
  BY DEF IInv, ExtraZoneSound, OwnersSound, hasExtraPage, hasTab
<1>5. QED
  BY <1>1, <1>3, <1>4 DEF IInv

\* A handler that posts its signal and starts to wait.
LEMMA AskInv ==
  ASSUME IInv, NEW cmd \in Commands, cmd.client \in Conns, Ask(cmd),
         cmd.op = "NewWebTab" => cmd.id \notin DOMAIN tabLeases \cup DOMAIN pages,
         cmd.op = "NewShortcut" => cmd.id \notin DOMAIN shortcutLeases \cup shortcuts,
         cmd.op = "KillTab" /\ cmd.how = "hide" => cmd.id = extraTabId
  PROVE  IInv'
<1>1. TypeOK'
  BY AskType DEF IInv
<1>2. CASE ~browserUp
  BY <1>1, <1>2, SameKeysInv DEF Ask, books, screen
<1>3. CASE browserUp
  <2>1. /\ call' = cmd /\ posted' = Append(posted, cmd)
        /\ call = NoCall /\ doomed = {} /\ closing = Nobody /\ cmd.client \in conns
        /\ UNCHANGED <<conns, tabLeases, shortcutLeases, connectionTabs, extraTabId, answer,
                       doomed, closing, browserUp, pages, shortcuts, overlay, resp>>
    BY <1>3 DEF Ask, Post, Idle, books, screen
  <2>2. cmd.client # Nobody /\ resp = NoResp
    BY <2>1, IdsAssumption DEF IInv, QueueShape
  <2>3. /\ Len(posted) \in Nat /\ Len(posted') = Len(posted) + 1
        /\ posted'[Len(posted')] = cmd /\ posted' # <<>>
        /\ \A i \in 1..Len(posted) : posted'[i] = posted[i]
    BY <2>1 DEF IInv, TypeOK
  <2>4. \A i \in 1..Len(posted) : posted[i].client = Nobody
    BY <2>1 DEF IInv, QueueShape, NoCall
  <2>5. QueueShape'
    BY <2>1, <2>2, <2>3, <2>4 DEF QueueShape
  <2>6. KillsAreDue'
    BY <2>1, <2>2, <2>3 DEF IInv, KillsAreDue
  <2>7. MailboxTells'
    BY <2>1, <2>2 DEF MailboxTells, NoResp
  <2>8. NothingBeforeBrowser' /\ ClosingSweeps'
    BY <1>3, <2>1 DEF IInv, NothingBeforeBrowser, ClosingSweeps
  <2>9. BooksMatchScreen'
    <3>1. AsyncKilled' = AsyncKilled
      BY <2>1, <2>2, AppendAwaited DEF IInv
    <3>2. \A x : ~InFlight(x)
      BY <2>2 DEF InFlight, NoResp
    <3>3. QED
      BY <2>1, <3>1, <3>2 DEF IInv, BooksMatchScreen, hasTab
  <2>10. ExtraZoneSound' /\ OwnersSound'
    BY <2>1 DEF IInv, ExtraZoneSound, OwnersSound, hasExtraPage, hasTab
  <2>11. QED
    BY <1>1, <2>5, <2>6, <2>7, <2>8, <2>9, <2>10 DEF IInv
<1>4. QED
  BY <1>2, <1>3

\* Every request.
LEMMA RequestInv ==
  ASSUME IInv, NEW c \in Conns, Request(c)
  PROVE  IInv'
<1> USE DEF Command
<1>1. TypeOK'
  BY RequestType DEF IInv
<1>2. ASSUME NEW ret, AnswerAtOnce(c, ret), UNCHANGED books
      PROVE  IInv'
  BY <1>1, <1>2, SameKeysInv DEF AnswerAtOnce, books, thread, screen, channels
<1>3. ASSUME NEW op \in TabOps \cup {"GetTabMap", "GetShortcuts", "KillShortcut"}, NEW x,
             Command(c, op, x, "-") \in Commands, Ask(Command(c, op, x, "-"))
      PROVE  IInv'
  BY <1>3, AskInv DEF TabOps
<1>4. ASSUME NEW t \in Tabs
      PROVE  Command(c, "KillTab", t, "force") \in Commands /\ Command(c, "KillTab", t, "hide") \in Commands
  BY DEF Commands, Signal, Forces
<1>5. ASSUME NEW s \in Shortcuts
      PROVE  Command(c, "KillShortcut", s, "-") \in Commands
  BY DEF Commands, Signal
<1>6. CASE BadRequest(c)
  BY <1>2, <1>6 DEF BadRequest
<1>7. CASE GetTabMap(c) \/ GetShortcuts(c)
  <2>1. /\ Command(c, "GetTabMap", NoId, "-") \in Commands
        /\ Command(c, "GetShortcuts", NoId, "-") \in Commands
    BY DEF Commands, Signal
  <2>2. QED
    BY <1>3, <1>7, <2>1 DEF GetTabMap, GetShortcuts
<1>8. ASSUME NEW t \in Tabs, NEW how \in Places, NewWebTab(c, t, how)
      PROVE  IInv'
  <2>1. Command(c, "NewWebTab", t, how) \in Commands
    BY DEF Commands, Signal
  <2>2. QED
    BY <1>8, <2>1, AskInv DEF NewWebTab, FreshTabs
<1>9. ASSUME NEW t \in Tabs, NEW op \in TabOps, UseTab(c, op, t)
      PROVE  IInv'
  <2>1. Command(c, op, t, "-") \in Commands
    BY DEF Commands, Signal
  <2>2. QED
    BY <1>3, <1>9, <2>1 DEF UseTab
<1>10. ASSUME NEW t \in Tabs, KillTab(c, t)
       PROVE  IInv'
  BY <1>4, <1>10, AskInv DEF KillTab, isExtraTab
<1>11. ASSUME NEW t \in Tabs, NEW ttl \in 0..MaxTTL, IAmAlive(c, t, ttl)
       PROVE  IInv'
  <2>1. CASE AnswerAtOnce(c, "INVALID_TAB") /\ UNCHANGED books
    BY <1>2, <2>1
  <2>2. CASE Ask(Command(c, "KillTab", t, "force"))
    BY <1>4, <2>2, AskInv
  <2>3. CASE /\ t \in DOMAIN tabLeases /\ AnswerAtOnce(c, "OK")
             /\ tabLeases' = With(tabLeases, t, ttl)
             /\ UNCHANGED <<shortcutLeases, connectionTabs, extraTabId>>
    <3>1. DOMAIN tabLeases' = DOMAIN tabLeases
      BY <2>3 DEF With
    <3>2. QED
      BY <1>1, <2>3, <3>1, SameKeysInv DEF AnswerAtOnce, thread, screen, channels
  <2>4. QED
    BY <1>11, <2>1, <2>2, <2>3 DEF IAmAlive, hasTab
<1>12. ASSUME NEW s \in Shortcuts, NEW how \in Places, NewShortcut(c, s, how)
       PROVE  IInv'
  <2>1. Command(c, "NewShortcut", s, how) \in Commands
    BY DEF Commands, Signal
  <2>2. QED
    BY <1>12, <2>1, AskInv DEF NewShortcut, FreshShortcuts
<1>13. ASSUME NEW s \in Shortcuts, KillShortcut(c, s)
       PROVE  IInv'
  BY <1>3, <1>5, <1>13 DEF KillShortcut
<1>14. ASSUME NEW s \in Shortcuts, NEW ttl \in 0..MaxTTL, IAmAliveShortcut(c, s, ttl)
       PROVE  IInv'
  <2>1. CASE AnswerAtOnce(c, "INVALID_TAB") /\ UNCHANGED books
    BY <1>2, <2>1
  <2>2. CASE KillShortcut(c, s)
    BY <1>13, <2>2
  <2>3. CASE /\ s \in DOMAIN shortcutLeases /\ AnswerAtOnce(c, "OK")
             /\ shortcutLeases' = With(shortcutLeases, s, ttl)
             /\ UNCHANGED <<tabLeases, connectionTabs, extraTabId>>
    <3>1. DOMAIN shortcutLeases' = DOMAIN shortcutLeases
      BY <2>3 DEF With
    <3>2. QED
      BY <1>1, <2>3, <3>1, SameKeysInv DEF AnswerAtOnce, thread, screen, channels
  <2>4. QED
    BY <1>14, <2>1, <2>2, <2>3 DEF IAmAliveShortcut
<1>15. QED
  BY <1>6, <1>7, <1>8, <1>9, <1>10, <1>11, <1>12, <1>13, <1>14 DEF Request, Places

\* Nothing of the tabs changes when a connection opens or starts to close.
LEMMA ConnectionInv ==
  ASSUME IInv, NEW c \in Conns, Accept(c) \/ Close(c)
  PROVE  IInv'
<1>1. TypeOK'
  BY ConnectionType DEF IInv
<1>2. /\ call = NoCall /\ doomed = {} /\ closing = Nobody
      /\ UNCHANGED <<tabLeases, shortcutLeases, connectionTabs, extraTabId, call, answer,
                     browserUp, pages, shortcuts, overlay, posted, resp>>
  BY DEF Accept, Close, Idle, books, thread, screen, channels
<1>3. AsyncKilled' = AsyncKilled
  BY <1>2 DEF AsyncKilled
<1>4. doomed' \subseteq DOMAIN tabLeases
  BY <1>2 DEF Accept, Close, thread, IInv, OwnersSound
<1>5. ~browserUp => doomed' = {}
  BY <1>4 DEF IInv, NothingBeforeBrowser
<1>6. QueueShape' /\ KillsAreDue' /\ MailboxTells' /\ NothingBeforeBrowser'
  BY <1>2, <1>4, <1>5 DEF IInv, QueueShape, KillsAreDue, MailboxTells, NothingBeforeBrowser
<1>7. BooksMatchScreen' /\ ExtraZoneSound'
  BY <1>2, <1>3 DEF IInv, BooksMatchScreen, InFlight, ExtraZoneSound, hasExtraPage, hasTab
<1>8. ClosingSweeps' /\ OwnersSound'
  <2>1. CASE Accept(c)
    BY <1>2, <2>1 DEF Accept, thread, IInv, ClosingSweeps, OwnersSound
  <2>2. CASE Close(c)
    <3>1. closing' = c /\ conns' = conns \ {c} /\ connectionTabs[c] \subseteq doomed'
      BY <2>2 DEF Close, IInv, ClosingSweeps
    <3>2. ClosingSweeps'
      BY <1>2, <3>1 DEF IInv, ClosingSweeps
    <3>3. OwnersSound'
      BY <1>2, <3>1, IdsAssumption DEF IInv, OwnersSound
    <3>4. QED
      BY <3>2, <3>3
  <2>3. QED
    BY <2>1, <2>2
<1>9. QED
  BY <1>1, <1>6, <1>7, <1>8 DEF IInv

\* The end of a closing connection: its tabs have been swept.
LEMMA EraseConnectionInv ==
  ASSUME IInv, EraseConnection
  PROVE  IInv'
<1>1. TypeOK'
  BY EraseConnectionType DEF IInv
<1>2. /\ closing' = Nobody /\ connectionTabs' = [connectionTabs EXCEPT ![closing] = {}]
      /\ doomed = {} /\ closing \in Conns
      /\ UNCHANGED <<conns, tabLeases, shortcutLeases, extraTabId, call, doomed, answer,
                     browserUp, pages, shortcuts, overlay, posted, resp>>
  BY DEF EraseConnection, screen, channels, IInv, TypeOK
<1>3. connectionTabs' = connectionTabs
  <2>1. connectionTabs[closing] = {}
    BY <1>2, IdsAssumption DEF IInv, ClosingSweeps
  <2>2. QED
    BY <1>2, <2>1 DEF IInv, TypeOK
<1>4. QueueShape' /\ KillsAreDue' /\ MailboxTells' /\ NothingBeforeBrowser' /\ ClosingSweeps'
  BY <1>2, <1>3 DEF IInv, QueueShape, KillsAreDue, MailboxTells, NothingBeforeBrowser,
     ClosingSweeps
<1>5. AsyncKilled' = AsyncKilled
  BY <1>2 DEF AsyncKilled
<1>6. BooksMatchScreen' /\ ExtraZoneSound'
  BY <1>2, <1>5 DEF IInv, BooksMatchScreen, InFlight, ExtraZoneSound, hasExtraPage, hasTab
<1>7. OwnersSound'
  <2>1. \A c \in Conns : connectionTabs[c] # {} => c # closing
    BY <1>2, IdsAssumption DEF IInv, ClosingSweeps
  <2>2. QED
    BY <1>2, <1>3, <2>1 DEF IInv, OwnersSound
<1>8. QED
  BY <1>1, <1>4, <1>6, <1>7 DEF IInv

\* A sweep collects ids of the books.
LEMMA PruneInv ==
  ASSUME IInv, Prune
  PROVE  IInv'
<1>1. TypeOK'
  BY SweepType DEF IInv
<1>2. /\ call = NoCall /\ closing = Nobody
      /\ doomed' \subseteq DOMAIN tabLeases \cup DOMAIN shortcutLeases
      /\ UNCHANGED <<conns, tabLeases, shortcutLeases, connectionTabs, extraTabId, call,
                     closing, answer, browserUp, pages, shortcuts, overlay, posted, resp>>
  BY DEF Prune, RunOut, Idle, books, screen, channels
<1>3. QueueShape' /\ KillsAreDue' /\ MailboxTells' /\ ClosingSweeps'
  BY <1>2 DEF IInv, QueueShape, KillsAreDue, MailboxTells, ClosingSweeps
<1>4. NothingBeforeBrowser'
  BY <1>2 DEF IInv, NothingBeforeBrowser
<1>5. AsyncKilled' = AsyncKilled
  BY <1>2 DEF AsyncKilled
<1>6. BooksMatchScreen' /\ ExtraZoneSound' /\ OwnersSound'
  BY <1>2, <1>5 DEF IInv, BooksMatchScreen, InFlight, ExtraZoneSound, OwnersSound,
     hasExtraPage, hasTab
<1>7. QED
  BY <1>1, <1>3, <1>4, <1>6 DEF IInv

\* One turn of the sweep, of tabs or of shortcuts: the queue gets one more kill.
LEMMA SweepQueue ==
  ASSUME IInv, NEW op, NEW x \in doomed, NEW how,
         Command(Nobody, op, x, how) \in Commands, op = "KillTab" => how = "force",
         PostAsync(op, x, how), doomed' = doomed \ {x},
         DOMAIN tabLeases' = DOMAIN tabLeases \ {x},
         DOMAIN shortcutLeases' = DOMAIN shortcutLeases \ {x},
         UNCHANGED <<conns, call, closing, browserUp, resp>>
  PROVE  /\ AsyncKilled' = AsyncKilled \cup {x}
         /\ call = NoCall /\ resp = NoResp /\ browserUp
         /\ QueueShape' /\ KillsAreDue' /\ MailboxTells' /\ NothingBeforeBrowser'
<1> DEFINE cmd == Command(Nobody, op, x, how)
<1>1. browserUp
  BY DEF IInv, NothingBeforeBrowser
<1>2. posted' = Append(posted, cmd) /\ cmd.client = Nobody /\ cmd.id = x
      /\ cmd.op = op /\ cmd.how = how
  BY <1>1 DEF PostAsync, Post, Command
<1>3. call = NoCall /\ resp = NoResp
  BY DEF IInv, QueueShape
<1>4. AsyncKilled' = AsyncKilled \cup {x}
  BY <1>2, AppendAsync DEF IInv
<1>5. /\ Len(posted) \in Nat /\ Len(posted') = Len(posted) + 1
      /\ posted'[Len(posted')] = cmd
      /\ \A i \in 1..Len(posted) : posted'[i] = posted[i]
  BY <1>2 DEF IInv, TypeOK
<1>6. \A i \in 1..Len(posted) : posted[i].client = Nobody
  BY <1>3 DEF IInv, QueueShape, NoCall
<1>7. \A i \in 1..Len(posted') : posted'[i].client = Nobody
  <2> TAKE i \in 1..Len(posted')
  <2>1. CASE i = Len(posted')
    BY <1>2, <1>5, <2>1
  <2>2. CASE i # Len(posted')
    <3>1. i \in 1..Len(posted)
      BY <1>5, <2>2
    <3>2. QED
      BY <1>5, <1>6, <3>1
  <2>3. QED
    BY <2>1, <2>2
<1>8. QueueShape'
  BY <1>3, <1>7 DEF QueueShape
<1>9. KillsAreDue'
  <2>1. ASSUME NEW i \in 1..Len(posted')
        PROVE  /\ posted'[i].id \notin DOMAIN tabLeases' \cup DOMAIN shortcutLeases'
               /\ posted'[i].op = "KillTab" => posted'[i].how = "force"
    <3>1. CASE i = Len(posted')
      BY <1>2, <1>5, <3>1
    <3>2. CASE i # Len(posted')
      <4>1. i \in 1..Len(posted) /\ posted'[i] = posted[i] /\ posted[i].client = Nobody
        BY <1>5, <1>6, <3>2
      <4>2. QED
        BY <4>1 DEF IInv, KillsAreDue
    <3>3. QED
      BY <3>1, <3>2
  <2>2. doomed' \subseteq DOMAIN tabLeases' \cup DOMAIN shortcutLeases'
    BY DEF IInv, KillsAreDue
  <2>3. QED
    BY <1>3, <2>1, <2>2 DEF KillsAreDue, NoCall
<1>10. MailboxTells' /\ NothingBeforeBrowser'
  BY <1>1, <1>3 DEF MailboxTells, NothingBeforeBrowser, NoCall, NoResp
<1>11. QED
  BY <1>1, <1>3, <1>4, <1>8, <1>9, <1>10

\* forgetOwnedTab, with the kill of the tab under way or done.
LEMMA ForgetTabOwners ==
  ASSUME IInv, NEW t \in Tabs, ForgetTab(t)
  PROVE  /\ DOMAIN tabLeases' = DOMAIN tabLeases \ {t}
         /\ DOMAIN shortcutLeases' = DOMAIN shortcutLeases
         /\ \A c \in Conns : connectionTabs'[c] = connectionTabs[c] \ {t}
         /\ UNCHANGED <<conns, closing>> => OwnersSound'
<1>1. /\ DOMAIN tabLeases' = DOMAIN tabLeases \ {t}
      /\ DOMAIN shortcutLeases' = DOMAIN shortcutLeases
      /\ \A c \in Conns : connectionTabs'[c] = connectionTabs[c] \ {t}
  BY DEF ForgetTab, Without
<1>2. ASSUME UNCHANGED <<conns, closing>>
      PROVE  OwnersSound'
  BY <1>1, <1>2 DEF IInv, OwnersSound
<1>3. QED
  BY <1>1, <1>2

LEMMA ForgetTabExtra ==
  ASSUME IInv, NEW t \in Tabs, ForgetTab(t), UNCHANGED <<pages, overlay>>
  PROVE  ExtraZoneSound'
<1>1. DOMAIN tabLeases' = DOMAIN tabLeases \ {t}
  BY ForgetTabOwners
<1>2. extraTabId' = IF extraTabId = t THEN NoId ELSE extraTabId
  BY DEF ForgetTab
<1>3. \A u \in DOMAIN pages \cap DOMAIN tabLeases' : u = extraTabId' <=> pages[u] = "extra"
  BY <1>1, <1>2, IdsAssumption DEF IInv, TypeOK, IsMap, ExtraZoneSound
<1>4. extraTabId' # NoId => extraTabId' \in DOMAIN tabLeases'
  BY <1>1, <1>2 DEF IInv, ExtraZoneSound, hasTab
<1>5. QED
  BY <1>3, <1>4 DEF IInv, ExtraZoneSound, hasExtraPage, hasTab

\* A swept tab leaves the books as its kill enters the queue.
LEMMA SweepTabInv ==
  ASSUME IInv, NEW t \in Tabs, SweepTab(t)
  PROVE  IInv'
<1>1. TypeOK'
  BY SweepType DEF Sweep, IInv
<1>2. Command(Nobody, "KillTab", t, "force") \in Commands
  BY DEF Command, Commands, Signal, Forces
<1>3. /\ t \in doomed /\ PostAsync("KillTab", t, "force") /\ ForgetTab(t)
      /\ doomed' = doomed \ {t}
      /\ UNCHANGED <<conns, call, closing, answer, browserUp, pages, shortcuts, overlay, resp>>
  BY DEF SweepTab, screen
<1>4. /\ DOMAIN tabLeases' = DOMAIN tabLeases \ {t}
      /\ DOMAIN shortcutLeases' = DOMAIN shortcutLeases
      /\ \A c \in Conns : connectionTabs'[c] = connectionTabs[c] \ {t}
      /\ OwnersSound'
  BY <1>3, ForgetTabOwners
<1>5. DOMAIN shortcutLeases' = DOMAIN shortcutLeases \ {t}
  BY <1>4, KeysApart DEF IInv
<1>6. /\ AsyncKilled' = AsyncKilled \cup {t} /\ call = NoCall /\ resp = NoResp
      /\ QueueShape' /\ KillsAreDue' /\ MailboxTells' /\ NothingBeforeBrowser'
  BY <1>2, <1>3, <1>4, <1>5, SweepQueue
<1>7. ClosingSweeps'
  <2>1. closing \in Conns \cup {Nobody}
    BY DEF IInv, TypeOK
  <2>2. QED
    BY <1>3, <1>4, <2>1 DEF IInv, ClosingSweeps
<1>8. BooksMatchScreen'
  <2>1. \A x : ~InFlight(x)
    BY <1>6 DEF InFlight, NoResp
  <2>2. t \notin Shortcuts
    BY IdsAssumption
  <2>3. QED
    BY <1>3, <1>4, <1>6, <2>1, <2>2 DEF IInv, BooksMatchScreen, hasTab
<1>9. ExtraZoneSound'
  BY <1>3, ForgetTabExtra
<1>10. QED
  BY <1>1, <1>4, <1>6, <1>7, <1>8, <1>9 DEF IInv

\* So does a swept shortcut.
LEMMA SweepShortcutInv ==
  ASSUME IInv, NEW s \in Shortcuts, SweepShortcut(s)
  PROVE  IInv'
<1>1. TypeOK'
  BY SweepType DEF Sweep, IInv
<1>2. Command(Nobody, "KillShortcut", s, "-") \in Commands
  BY DEF Command, Commands, Signal
<1>3. /\ s \in doomed /\ PostAsync("KillShortcut", s, "-")
      /\ doomed' = doomed \ {s} /\ DOMAIN shortcutLeases' = DOMAIN shortcutLeases \ {s}
      /\ UNCHANGED <<conns, tabLeases, connectionTabs, extraTabId, call, closing, answer,
                     browserUp, pages, shortcuts, overlay, resp>>
  BY DEF SweepShortcut, screen, Without
<1>4. s \notin Tabs /\ DOMAIN tabLeases' = DOMAIN tabLeases \ {s}
  BY <1>3, KeysApart DEF IInv
<1>5. /\ AsyncKilled' = AsyncKilled \cup {s} /\ call = NoCall /\ resp = NoResp
      /\ QueueShape' /\ KillsAreDue' /\ MailboxTells' /\ NothingBeforeBrowser'
  BY <1>2, <1>3, <1>4, SweepQueue
<1>6. ClosingSweeps'
  <2>1. closing \in Conns \cup {Nobody} /\ \A c \in Conns : connectionTabs[c] \subseteq Tabs
    BY DEF IInv, TypeOK
  <2>2. QED
    BY <1>3, <1>4, <2>1 DEF IInv, ClosingSweeps
<1>7. BooksMatchScreen'
  <2>1. \A x : ~InFlight(x)
    BY <1>5 DEF InFlight, NoResp
  <2>2. QED
    BY <1>3, <1>4, <1>5, <2>1 DEF IInv, BooksMatchScreen, hasTab
<1>8. ExtraZoneSound' /\ OwnersSound'
  BY <1>3 DEF IInv, ExtraZoneSound, OwnersSound, hasExtraPage, hasTab
<1>9. QED
  BY <1>1, <1>5, <1>6, <1>7, <1>8 DEF IInv

\* Time moves no key, and nothing waits for the Browser.
LEMMA TickInv ==
  ASSUME IInv, Tick
  PROVE  IInv'
<1>1. TypeOK'
  BY TickType DEF IInv
<1>2. DOMAIN tabLeases' = DOMAIN tabLeases /\ DOMAIN shortcutLeases' = DOMAIN shortcutLeases
  BY DEF Tick
<1>3. QED
  BY <1>1, <1>2, SameKeysInv DEF Tick, thread, screen, channels

LEMMA BrowserReadyInv ==
  ASSUME IInv, BrowserReady
  PROVE  IInv'
<1>1. /\ browserUp' = TRUE
      /\ UNCHANGED <<conns, tabLeases, shortcutLeases, connectionTabs, extraTabId, call,
                     doomed, closing, answer, pages, shortcuts, overlay, posted, resp>>
  BY DEF BrowserReady, books, thread, screen, channels
<1>2. TypeOK'
  BY <1>1 DEF IInv, TypeOK
<1>3. QueueShape' /\ KillsAreDue' /\ MailboxTells' /\ NothingBeforeBrowser' /\ ClosingSweeps'
  BY <1>1 DEF IInv, QueueShape, KillsAreDue, MailboxTells, NothingBeforeBrowser, ClosingSweeps
<1>4. AsyncKilled' = AsyncKilled
  BY <1>1 DEF AsyncKilled
<1>5. BooksMatchScreen' /\ ExtraZoneSound' /\ OwnersSound'
  BY <1>1, <1>4 DEF IInv, BooksMatchScreen, InFlight, ExtraZoneSound, OwnersSound,
     hasExtraPage, hasTab
<1>6. QED
  BY <1>2, <1>3, <1>5 DEF IInv

\* When a handler comes back the queue is empty and the thread was its own.
LEMMA FinishInv ==
  ASSUME IInv, resp # NoResp, NEW body, Finish(body)
  PROVE  /\ AsyncKilled = {} /\ AsyncKilled' = {}
         /\ call \in Commands /\ call.client \in conns /\ browserUp
         /\ doomed = {} /\ closing = Nobody
         /\ UNCHANGED <<conns, doomed, closing, browserUp, pages, shortcuts, overlay, posted>>
         /\ \A x : ~InFlight(x)'
         /\ QueueShape' /\ KillsAreDue' /\ MailboxTells' /\ NothingBeforeBrowser'
<1>1. /\ posted = <<>> /\ call # NoCall /\ call.client \in conns
      /\ doomed = {} /\ closing = Nobody
  BY DEF IInv, QueueShape
<1>2. call \in Commands /\ browserUp
  BY <1>1 DEF IInv, TypeOK, NothingBeforeBrowser
<1>3. /\ call' = NoCall /\ resp' = NoResp
      /\ UNCHANGED <<conns, doomed, closing, browserUp, pages, shortcuts, overlay, posted>>
  BY DEF Finish, screen
<1>4. AsyncKilled = {} /\ AsyncKilled' = {}
  BY <1>1, <1>3 DEF AsyncKilled
<1>5. \A x : ~InFlight(x)'
  BY <1>3 DEF InFlight, NoResp
<1>6. QueueShape' /\ KillsAreDue' /\ MailboxTells' /\ NothingBeforeBrowser'
  BY <1>1, <1>2, <1>3 DEF QueueShape, KillsAreDue, MailboxTells, NothingBeforeBrowser,
     NoCall, NoResp
<1>7. QED
  BY <1>1, <1>2, <1>3, <1>4, <1>5, <1>6

\* A handler that comes back and changes nothing in the books: no tab of its is
\* in flight.
LEMMA ReturnNothingInv ==
  ASSUME IInv, Return, resp # NoResp, NEW body, Finish(body), UNCHANGED books,
         \A x \in Tabs \cup Shortcuts : ~InFlight(x)
  PROVE  IInv'
<1>1. TypeOK'
  BY ReturnType DEF IInv
<1>2. /\ UNCHANGED <<conns, tabLeases, shortcutLeases, connectionTabs, extraTabId, closing,
                     pages, shortcuts, overlay>>
      /\ AsyncKilled' = AsyncKilled /\ closing = Nobody
      /\ QueueShape' /\ KillsAreDue' /\ MailboxTells' /\ NothingBeforeBrowser'
  BY FinishInv DEF books
<1>3. BooksMatchScreen' /\ ExtraZoneSound' /\ OwnersSound' /\ ClosingSweeps'
  BY <1>2 DEF IInv, BooksMatchScreen, ExtraZoneSound, OwnersSound, ClosingSweeps,
     hasExtraPage, hasTab
<1>4. QED
  BY <1>1, <1>2, <1>3 DEF IInv

\* handleNewWebTab enters the tab the GUI has made.
LEMMA ReturnNewWebTabInv ==
  ASSUME IInv, ReturnNewWebTab
  PROVE  IInv'
<1>1. call.op = "NewWebTab" /\ resp # NoResp
  BY DEF ReturnNewWebTab, Returning
<1>2. CASE UNCHANGED books /\ Finish({}) /\ resp.ret # "OK"
  <2>1. Return
    BY DEF Return
  <2>2. QED
    BY <1>1, <1>2, <2>1, ReturnNothingInv DEF InFlight
<1>3. CASE RememberTab(call.client, call.id, call.how) /\ Finish({call.id}) /\ resp.ret = "OK"
  <2> DEFINE t == call.id
             c == call.client
  <2>1. TypeOK'
    BY ReturnType DEF IInv, Return
  <2>2. /\ AsyncKilled = {} /\ AsyncKilled' = {} /\ call \in Commands /\ c \in conns
        /\ closing = Nobody
        /\ UNCHANGED <<conns, closing, pages, shortcuts, overlay>>
        /\ \A x : ~InFlight(x)'
        /\ QueueShape' /\ KillsAreDue' /\ MailboxTells' /\ NothingBeforeBrowser'
    BY <1>1, <1>3, FinishInv
  <2>3. t \in Tabs /\ t \notin Shortcuts /\ c \in Conns
    BY <1>1, <2>2, CommandFields, KeysApart DEF IInv, TypeOK
  <2>4. /\ t \notin DOMAIN tabLeases /\ t \in DOMAIN pages
        /\ pages[t] = "extra" <=> call.how = "extra"
    BY <1>1, <1>3 DEF IInv, MailboxTells
  <2>5. /\ DOMAIN tabLeases' = DOMAIN tabLeases \cup {t}
        /\ DOMAIN shortcutLeases' = DOMAIN shortcutLeases
        /\ extraTabId' = IF call.how = "extra" THEN t ELSE extraTabId
        /\ connectionTabs' = IF ByConnection
                             THEN [connectionTabs EXCEPT ![c] = @ \cup {t}]
                             ELSE connectionTabs
    BY <1>3 DEF RememberTab, With
  <2>6. \A x : x # t => ~InFlight(x)
    BY DEF InFlight
  <2>7. \A s \in Shortcuts : ~InFlight(s)
    BY <2>3, <2>6
  <2>8. BooksMatchScreen'
    BY <2>2, <2>3, <2>4, <2>5, <2>6, <2>7 DEF IInv, BooksMatchScreen, hasTab
  <2>9. ExtraZoneSound'
    <3>1. ASSUME extraTabId # NoId, call.how = "extra"
          PROVE  FALSE
      <4>1. extraTabId \in DOMAIN tabLeases /\ extraTabId \in Tabs /\ extraTabId # t
        BY <2>4, <3>1, KeysApart DEF IInv, ExtraZoneSound, hasTab
      <4>2. extraTabId \in DOMAIN pages
        BY <2>2, <2>6, <4>1 DEF IInv, BooksMatchScreen, hasTab
      <4>3. QED
        BY <2>4, <3>1, <4>1, <4>2 DEF IInv, ExtraZoneSound
    <3>2. \A u \in DOMAIN pages \cap DOMAIN tabLeases' : u = extraTabId' <=> pages[u] = "extra"
      BY <2>3, <2>4, <2>5, <3>1, IdsAssumption DEF IInv, ExtraZoneSound, hasTab
    <3>3. extraTabId' # NoId => extraTabId' \in DOMAIN tabLeases'
      BY <2>5 DEF IInv, ExtraZoneSound, hasTab
    <3>4. QED
      BY <2>2, <3>2, <3>3 DEF IInv, ExtraZoneSound, hasExtraPage, hasTab
  <2>10. OwnersSound' /\ ClosingSweeps'
    <3>1. CASE ByConnection
      <4>1. connectionTabs' = [connectionTabs EXCEPT ![c] = @ \cup {t}]
            /\ connectionTabs \in [Conns -> SUBSET Tabs]
        BY <2>5, <3>1 DEF IInv, TypeOK
      <4>2. \A d \in Conns : connectionTabs'[d] = IF d = c THEN connectionTabs[c] \cup {t}
                                                        ELSE connectionTabs[d]
        BY <4>1
      <4>3. \A d \in Conns : t \notin connectionTabs[d]
        BY <2>4 DEF IInv, OwnersSound
      <4>4. \A d \in Conns : /\ connectionTabs'[d] \subseteq DOMAIN tabLeases'
                             /\ connectionTabs'[d] # {} => d \in conns \/ d = closing
        BY <2>2, <2>5, <4>2 DEF IInv, OwnersSound
      <4>5. \A d, e \in Conns : d # e => connectionTabs'[d] \cap connectionTabs'[e] = {}
        BY <4>2, <4>3 DEF IInv, OwnersSound
      <4>6. \A u \in DOMAIN tabLeases' : \E d \in Conns : u \in connectionTabs'[d]
        BY <2>3, <2>5, <3>1, <4>2 DEF IInv, OwnersSound
      <4>7. QED
        BY <2>2, <3>1, <4>4, <4>5, <4>6 DEF OwnersSound, ClosingSweeps
    <3>2. CASE ~ByConnection
      BY <2>2, <2>5, <3>2 DEF IInv, OwnersSound, ClosingSweeps
    <3>3. QED
      BY <3>1, <3>2
  <2>11. QED
    BY <2>1, <2>2, <2>8, <2>9, <2>10 DEF IInv
<1>4. QED
  BY <1>2, <1>3 DEF ReturnNewWebTab

\* killTabInternal forgets the tab the GUI has destroyed.
LEMMA ReturnKillTabInv ==
  ASSUME IInv, ReturnKillTab
  PROVE  IInv'
<1>1. call.op = "KillTab" /\ resp # NoResp /\ Finish({})
  BY DEF ReturnKillTab, Returning
<1>2. CASE UNCHANGED books /\ ~(resp.ret = "OK" /\ call.how = "force")
  <2>1. Return
    BY DEF Return
  <2>2. QED
    BY <1>1, <1>2, <2>1, ReturnNothingInv DEF InFlight
<1>3. CASE ForgetTab(call.id) /\ resp.ret = "OK" /\ call.how = "force"
  <2>1. TypeOK'
    BY ReturnType DEF IInv, Return
  <2>2. /\ AsyncKilled = {} /\ AsyncKilled' = {} /\ call \in Commands /\ closing = Nobody
        /\ UNCHANGED <<conns, closing, pages, shortcuts, overlay>>
        /\ QueueShape' /\ KillsAreDue' /\ MailboxTells' /\ NothingBeforeBrowser'
    BY <1>1, FinishInv
  <2>3. call.id \in Tabs /\ call.id \notin Shortcuts
    BY <1>1, <2>2, CommandFields, KeysApart DEF IInv
  <2>4. call.id \notin DOMAIN pages
    BY <1>1, <1>3 DEF IInv, MailboxTells
  <2>5. /\ DOMAIN tabLeases' = DOMAIN tabLeases \ {call.id}
        /\ DOMAIN shortcutLeases' = DOMAIN shortcutLeases
        /\ \A c \in Conns : connectionTabs'[c] = connectionTabs[c] \ {call.id}
        /\ OwnersSound'
    BY <1>3, <2>2, <2>3, ForgetTabOwners
  <2>6. BooksMatchScreen'
    <3>1. \A x : x # call.id => ~InFlight(x)
      BY DEF InFlight
    <3>2. QED
      BY <2>2, <2>3, <2>4, <2>5, <3>1 DEF IInv, BooksMatchScreen, hasTab
  <2>7. ExtraZoneSound'
    BY <1>3, <2>2, <2>3, ForgetTabExtra
  <2>8. ClosingSweeps'
    BY <2>2, <2>5 DEF IInv, ClosingSweeps
  <2>9. QED
    BY <2>1, <2>2, <2>5, <2>6, <2>7, <2>8 DEF IInv
<1>4. QED
  BY <1>2, <1>3 DEF ReturnKillTab

\* The two shortcut handlers, and those that only answer.
LEMMA ReturnShortcutInv ==
  ASSUME IInv, ReturnNewShortcut \/ ReturnKillShortcut
  PROVE  IInv'
<1>1. TypeOK'
  BY ReturnType DEF IInv, Return
<1>2. PICK body : Finish(body)
  BY DEF ReturnNewShortcut, ReturnKillShortcut
<1>3. resp # NoResp /\ call.op \in {"NewShortcut", "KillShortcut"}
      /\ UNCHANGED <<tabLeases, connectionTabs, extraTabId>>
  BY DEF ReturnNewShortcut, ReturnKillShortcut, Returning, books
<1>4. /\ AsyncKilled = {} /\ AsyncKilled' = {} /\ call \in Commands /\ closing = Nobody
      /\ UNCHANGED <<conns, closing, pages, shortcuts, overlay>>
      /\ QueueShape' /\ KillsAreDue' /\ MailboxTells' /\ NothingBeforeBrowser'
  BY <1>2, <1>3, FinishInv
<1>5. call.id \in Shortcuts /\ call.id \notin Tabs
  BY <1>3, <1>4, CommandFields, KeysApart DEF IInv
<1>6. \A t \in Tabs : ~InFlight(t)
  BY <1>5 DEF InFlight
<1>7. DOMAIN shortcutLeases' =
        IF resp.ret # "OK" THEN DOMAIN shortcutLeases
        ELSE IF call.op = "NewShortcut" THEN DOMAIN shortcutLeases \cup {call.id}
        ELSE DOMAIN shortcutLeases \ {call.id}
  BY DEF ReturnNewShortcut, ReturnKillShortcut, Returning, With, Without, books
<1>8. BooksMatchScreen'
  <2>1. \A t \in Tabs : hasTab(t)' <=> t \in DOMAIN pages' \ AsyncKilled'
    BY <1>3, <1>4, <1>6 DEF IInv, BooksMatchScreen, hasTab
  <2>2. \A s \in Shortcuts : s \in DOMAIN shortcutLeases' <=> s \in shortcuts'
    BY <1>3, <1>4, <1>7 DEF IInv, BooksMatchScreen, MailboxTells, InFlight
  <2>3. QED
    BY <1>4, <2>1, <2>2 DEF BooksMatchScreen
<1>9. ExtraZoneSound' /\ OwnersSound' /\ ClosingSweeps'
  BY <1>3, <1>4 DEF IInv, ExtraZoneSound, OwnersSound, ClosingSweeps, hasExtraPage, hasTab
<1>10. QED
  BY <1>1, <1>4, <1>8, <1>9 DEF IInv

LEMMA ReturnInv ==
  ASSUME IInv, Return
  PROVE  IInv'
<1>1. CASE ReturnAnswer
  <2>1. resp # NoResp /\ Finish(resp.body) /\ UNCHANGED books
        /\ call.op \in TabOps \cup {"GetTabMap", "GetShortcuts"}
    BY <1>1 DEF ReturnAnswer, Returning
  <2>2. \A x : ~InFlight(x)
    BY <2>1 DEF InFlight, TabOps
  <2>3. QED
    BY <2>1, <2>2, ReturnNothingInv
<1>2. QED
  BY <1>1, ReturnNewWebTabInv, ReturnKillTabInv, ReturnShortcutInv DEF Return

-----------------------------------------------------------------------------
(* The GUI thread. *)

\* Whatever the handler, a delivered signal is either a kill nobody waits for,
\* of something the books no longer hold, or the server's call and the last one.
LEMMA DeliverInv ==
  ASSUME IInv, NEW ops, Deliver(ops), NEW ret \in Results, NEW body, Reply(ret, body)
  PROVE  /\ resp = NoResp /\ Head(posted).op \in ops /\ Head(posted) \in Commands
         /\ UNCHANGED <<conns, tabLeases, shortcutLeases, connectionTabs, extraTabId, call,
                        doomed, closing, browserUp>>
         /\ Head(posted).client = Nobody =>
              /\ resp' = NoResp /\ AsyncKilled = AsyncKilled' \cup {Head(posted).id}
              /\ Head(posted).id \notin DOMAIN tabLeases \cup DOMAIN shortcutLeases
              /\ Head(posted).op = "KillTab" => Head(posted).how = "force"
              /\ Head(posted).op \in {"KillTab", "KillShortcut"}
         /\ Head(posted).client # Nobody =>
              /\ Head(posted) = call /\ call # NoCall
              /\ AsyncKilled = {} /\ AsyncKilled' = {}
              /\ resp' = [ret |-> ret, body |-> body]
         /\ QueueShape' /\ KillsAreDue' /\ NothingBeforeBrowser' /\ ClosingSweeps'
         /\ OwnersSound'
<1>1. /\ posted # <<>> /\ posted' = Tail(posted) /\ Head(posted).op \in ops
      /\ UNCHANGED <<conns, tabLeases, shortcutLeases, connectionTabs, extraTabId, call,
                     doomed, closing, browserUp>>
  BY DEF Deliver, books, thread
<1>2. resp = NoResp
  BY <1>1 DEF IInv, QueueShape
<1>3. /\ Len(posted) \in Nat \ {0} /\ Len(posted') = Len(posted) - 1
      /\ Head(posted) = posted[1] /\ Head(posted) \in Commands
      /\ \A i \in 1..Len(posted') : posted'[i] = posted[i + 1] /\ i + 1 \in 1..Len(posted)
  BY <1>1 DEF IInv, TypeOK
<1>4. posted' \in Seq(Commands)
  BY <1>1 DEF IInv, TypeOK
<1>5. ASSUME Head(posted).client = Nobody
      PROVE  /\ resp' = NoResp /\ AsyncKilled = AsyncKilled' \cup {Head(posted).id}
             /\ Head(posted).id \notin DOMAIN tabLeases \cup DOMAIN shortcutLeases
             /\ Head(posted).op = "KillTab" => Head(posted).how = "force"
             /\ Head(posted).op \in {"KillTab", "KillShortcut"}
  <2>1. resp' = NoResp
    BY <1>2, <1>5 DEF Reply
  <2>2. AsyncKilled = AsyncKilled' \cup {Head(posted).id}
    BY <1>1, <1>5, TailKilled DEF IInv
  <2>3. 1 \in 1..Len(posted)
    BY <1>3
  <2>4. /\ Head(posted).id \notin DOMAIN tabLeases \cup DOMAIN shortcutLeases
        /\ Head(posted).op = "KillTab" => Head(posted).how = "force"
    BY <1>3, <1>5, <2>3 DEF IInv, KillsAreDue
  <2>5. Head(posted).op \in {"KillTab", "KillShortcut"}
    BY <1>3, <1>5, CommandFields
  <2>6. QED
    BY <2>1, <2>2, <2>4, <2>5
<1>6. ASSUME Head(posted).client # Nobody
      PROVE  /\ Head(posted) = call /\ call # NoCall /\ posted' = <<>>
             /\ AsyncKilled = {} /\ AsyncKilled' = {}
             /\ resp' = [ret |-> ret, body |-> body]
  <2>1. 1 \in 1..Len(posted)
    BY <1>3
  <2>2. Head(posted) = call /\ Len(posted) = 1
    BY <1>3, <1>6, <2>1 DEF IInv, QueueShape
  <2>3. call # NoCall
    BY <1>6, <2>2 DEF NoCall
  <2>4. posted' = <<>>
    BY <1>3, <1>4, <2>2
  <2>5. AsyncKilled = {} /\ AsyncKilled' = {}
    BY <1>3, <1>6, <2>2, <2>4 DEF AsyncKilled
  <2>6. QED
    BY <1>6, <2>2, <2>3, <2>4, <2>5 DEF Reply
<1>7. QueueShape'
  <2>1. CASE Head(posted).client = Nobody
    <3>1. \A i \in 1..Len(posted') :
            posted'[i].client # Nobody => i = Len(posted') /\ posted'[i] = call
      BY <1>3 DEF IInv, QueueShape
    <3>2. call # NoCall => posted' # <<>> /\ posted'[Len(posted')] = call
      <4>1. SUFFICES ASSUME call # NoCall
                     PROVE  posted' # <<>> /\ posted'[Len(posted')] = call
        OBVIOUS
      <4>2. posted[Len(posted)] = call /\ call.client # Nobody
        BY <1>2, <4>1, IdsAssumption DEF IInv, TypeOK, QueueShape
      <4>3. Len(posted) # 1
        BY <1>3, <2>1, <4>2
      <4>4. QED
        BY <1>3, <4>2, <4>3
    <3>3. QED
      BY <1>1, <1>5, <2>1, <3>1, <3>2 DEF IInv, QueueShape
  <2>2. CASE Head(posted).client # Nobody
    <3>1. resp' # NoResp
      BY <1>6, <2>2 DEF NoResp, Results
    <3>2. QED
      BY <1>1, <1>6, <2>2, <3>1 DEF IInv, QueueShape
  <2>3. QED
    BY <2>1, <2>2
<1>8. KillsAreDue'
  BY <1>1, <1>3 DEF IInv, KillsAreDue
<1>9. NothingBeforeBrowser' /\ ClosingSweeps' /\ OwnersSound'
  BY <1>1 DEF IInv, NothingBeforeBrowser, ClosingSweeps, OwnersSound
<1>10. QED
  BY <1>1, <1>2, <1>3, <1>5, <1>6, <1>7, <1>8, <1>9

\* A handler that only reads the screen, or shows the extra zone.
LEMMA GuiReadInv ==
  ASSUME IInv, TypeOK', NEW ops, Deliver(ops), NEW ret \in Results, NEW body,
         Reply(ret, body), ops \cap {"NewWebTab", "KillTab", "NewShortcut", "KillShortcut"} = {},
         UNCHANGED <<pages, shortcuts>>, overlay' => overlay \/ hasExtraPage
  PROVE  IInv'
<1>1. /\ resp = NoResp /\ Head(posted).client # Nobody /\ Head(posted) = call
      /\ AsyncKilled = {} /\ AsyncKilled' = {} /\ call.op \in ops
      /\ UNCHANGED <<conns, tabLeases, shortcutLeases, connectionTabs, extraTabId, call,
                     doomed, closing, browserUp>>
      /\ QueueShape' /\ KillsAreDue' /\ NothingBeforeBrowser' /\ ClosingSweeps' /\ OwnersSound'
  BY DeliverInv
<1>2. MailboxTells'
  BY <1>1 DEF MailboxTells
<1>3. \A x : ~InFlight(x)
  BY <1>1 DEF InFlight, NoResp
<1>4. BooksMatchScreen'
  BY <1>1, <1>3 DEF IInv, BooksMatchScreen, hasTab
<1>5. ExtraZoneSound'
  BY <1>1 DEF IInv, ExtraZoneSound, hasExtraPage, hasTab
<1>6. QED
  BY <1>1, <1>2, <1>4, <1>5 DEF IInv

\* onNewWebTab: the page is new, and the extra zone is free if it goes there.
LEMMA OnNewWebTabInv ==
  ASSUME IInv, OnNewWebTab
  PROVE  IInv'
<1> DEFINE t == Head(posted).id
           how == Head(posted).how
<1>1. TypeOK'
  BY GuiType DEF IInv, GuiStep
<1>2. PICK room \in Room(how) :
        /\ pages' = IF room
                    THEN With(pages, t, IF how = "extra" THEN "extra" ELSE "normal")
                    ELSE pages
        /\ Reply(IF room THEN "OK" ELSE "EXEC_ERROR", {})
  BY DEF OnNewWebTab
<1>3. Deliver({"NewWebTab"}) /\ UNCHANGED <<shortcuts, overlay>>
  BY DEF OnNewWebTab
<1>4. (IF room THEN "OK" ELSE "EXEC_ERROR") \in Results
  BY DEF Results
<1>5. /\ resp = NoResp /\ Head(posted) = call /\ call.op = "NewWebTab"
      /\ AsyncKilled = {} /\ AsyncKilled' = {} /\ call \in Commands
      /\ resp' = [ret |-> IF room THEN "OK" ELSE "EXEC_ERROR", body |-> {}]
      /\ UNCHANGED <<conns, tabLeases, shortcutLeases, connectionTabs, extraTabId, call,
                     doomed, closing, browserUp>>
      /\ QueueShape' /\ KillsAreDue' /\ NothingBeforeBrowser' /\ ClosingSweeps' /\ OwnersSound'
  BY <1>2, <1>3, <1>4, DeliverInv
<1>6. call.id = t /\ call.how = how /\ t \in Tabs /\ t \notin Shortcuts
  BY <1>5, CommandFields, KeysApart DEF IInv
<1>7. t \notin DOMAIN tabLeases /\ t \notin DOMAIN pages
  BY <1>5, <1>6 DEF IInv, MailboxTells, NoResp
<1>8. CASE ~room
  <2>1. pages' = pages /\ resp'.ret = "EXEC_ERROR"
    BY <1>2, <1>5, <1>8
  <2>2. MailboxTells'
    BY <1>5, <1>6, <1>7, <2>1 DEF MailboxTells
  <2>3. \A x : ~InFlight(x)
    BY <1>5 DEF InFlight, NoResp
  <2>4. BooksMatchScreen' /\ ExtraZoneSound'
    BY <1>3, <1>5, <2>1, <2>3 DEF IInv, BooksMatchScreen, ExtraZoneSound, hasExtraPage, hasTab
  <2>5. QED
    BY <1>1, <1>5, <2>2, <2>4 DEF IInv
<1>9. CASE room
  <2>1. /\ DOMAIN pages' = DOMAIN pages \cup {t}
        /\ pages'[t] = IF how = "extra" THEN "extra" ELSE "normal"
        /\ \A u \in DOMAIN pages : pages'[u] = pages[u]
        /\ resp'.ret = "OK"
    BY <1>2, <1>5, <1>7, <1>9 DEF With
  <2>2. MailboxTells'
    BY <1>5, <1>6, <1>7, <2>1 DEF MailboxTells
  <2>3. \A x : ~InFlight(x)
    BY <1>5 DEF InFlight, NoResp
  <2>4. call'.id = t /\ call'.op = "NewWebTab" /\ resp'.ret = "OK"
    BY <1>5, <1>6, <2>1
  <2>5. BooksMatchScreen'
    <3>1. \A u \in Tabs : u # t => (hasTab(u)' <=> u \in DOMAIN pages' \ AsyncKilled')
      BY <1>5, <2>1, <2>3 DEF IInv, BooksMatchScreen, hasTab
    <3>2. \A x \in Shortcuts :
            x \in DOMAIN shortcutLeases' <=> x \in shortcuts' \ AsyncKilled'
      BY <1>3, <1>5, <2>3 DEF IInv, BooksMatchScreen
    <3>3. QED
      BY <2>4, <3>1, <3>2 DEF BooksMatchScreen, InFlight
  <2>6. how = "extra" => ~hasExtraPage
    BY <1>2, <1>9 DEF Room
  <2>7. ExtraZoneSound'
    <3>1. \A u \in DOMAIN pages' \cap DOMAIN tabLeases' : u = extraTabId' <=> pages'[u] = "extra"
      BY <1>5, <1>7, <2>1 DEF IInv, ExtraZoneSound
    <3>2. extraTabId' # NoId => hasTab(extraTabId)'
      BY <1>5 DEF IInv, ExtraZoneSound, hasTab
    <3>3. \A u, w \in DOMAIN pages' : pages'[u] = "extra" /\ pages'[w] = "extra" => u = w
      BY <1>7, <2>1, <2>6 DEF IInv, ExtraZoneSound, hasExtraPage
    <3>4. overlay' => hasExtraPage'
      BY <1>3, <2>1 DEF IInv, ExtraZoneSound, hasExtraPage
    <3>5. QED
      BY <3>1, <3>2, <3>3, <3>4 DEF ExtraZoneSound
  <2>8. QED
    BY <1>1, <1>5, <2>2, <2>5, <2>7 DEF IInv
<1>10. QED
  BY <1>8, <1>9

\* onKillTab for a handler that waits: a destroyed page is still in the books
\* until the handler goes on, a hidden one stays in both.
LEMMA OnKillTabAwaitedInv ==
  ASSUME IInv, OnKillTab, Head(posted).client # Nobody
  PROVE  IInv'
<1> DEFINE t     == Head(posted).id
           known == t \in DOMAIN pages
           extra == known /\ pages[t] = "extra"
           hide  == extra /\ Head(posted).how = "hide"
<1>1. TypeOK'
  BY GuiType DEF IInv, GuiStep
<1>2. /\ Deliver({"KillTab"}) /\ UNCHANGED shortcuts
      /\ pages' = IF known /\ ~hide THEN Without(pages, t) ELSE pages
      /\ overlay' = (overlay /\ ~hide /\ (extra => hasExtraPage'))
      /\ Reply(IF known THEN "OK" ELSE "INVALID_TAB", {})
  BY DEF OnKillTab
<1>3. (IF known THEN "OK" ELSE "INVALID_TAB") \in Results
  BY DEF Results
<1>4. /\ resp = NoResp /\ Head(posted) = call /\ call.op = "KillTab"
      /\ AsyncKilled = {} /\ AsyncKilled' = {} /\ call \in Commands
      /\ resp' = [ret |-> IF known THEN "OK" ELSE "INVALID_TAB", body |-> {}]
      /\ UNCHANGED <<conns, tabLeases, shortcutLeases, connectionTabs, extraTabId, call,
                     doomed, closing, browserUp>>
      /\ QueueShape' /\ KillsAreDue' /\ NothingBeforeBrowser' /\ ClosingSweeps' /\ OwnersSound'
  BY <1>2, <1>3, DeliverInv
<1>5. call.id = t /\ t \in Tabs /\ t \notin Shortcuts /\ call.how \in Forces
  BY <1>4, CommandFields, KeysApart DEF IInv
<1>6. \A x : ~InFlight(x)
  BY <1>4 DEF InFlight, NoResp
<1>7. \A x \in Shortcuts :
        x \in DOMAIN shortcutLeases' <=> x \in shortcuts' \ AsyncKilled'
  BY <1>2, <1>4, <1>6 DEF IInv, BooksMatchScreen
<1>8. \A u \in Tabs : hasTab(u) <=> u \in DOMAIN pages
  BY <1>4, <1>6 DEF IInv, BooksMatchScreen
<1>9. CASE known /\ call.how = "force"
  <2>1. ~hide
    BY <1>4, <1>9
  <2>2. /\ DOMAIN pages' = DOMAIN pages \ {t}
        /\ \A u \in DOMAIN pages' : pages'[u] = pages[u]
        /\ resp'.ret = "OK"
    BY <1>2, <1>4, <1>9, <2>1 DEF Without
  <2>3. MailboxTells'
    BY <1>4, <1>5, <1>9, <2>2 DEF MailboxTells
  <2>4. call'.id = t /\ call'.op = "KillTab" /\ call'.how = "force"
    BY <1>4, <1>5, <1>9
  <2>5. BooksMatchScreen'
    <3>1. \A u \in Tabs : u # t => (hasTab(u)' <=> u \in DOMAIN pages' \ AsyncKilled')
      BY <1>4, <1>8, <2>2 DEF hasTab
    <3>2. QED
      BY <1>7, <2>2, <2>4, <3>1 DEF BooksMatchScreen, InFlight
  <2>6. ExtraZoneSound'
    <3>1. \A u \in DOMAIN pages' \cap DOMAIN tabLeases' : u = extraTabId' <=> pages'[u] = "extra"
      BY <1>4, <2>2 DEF IInv, ExtraZoneSound
    <3>2. extraTabId' # NoId => hasTab(extraTabId)'
      BY <1>4 DEF IInv, ExtraZoneSound, hasTab
    <3>3. \A u, w \in DOMAIN pages' : pages'[u] = "extra" /\ pages'[w] = "extra" => u = w
      BY <2>2 DEF IInv, ExtraZoneSound
    <3>4. overlay' => hasExtraPage'
      BY <1>2, <2>1, <2>2 DEF IInv, ExtraZoneSound, hasExtraPage
    <3>5. QED
      BY <3>1, <3>2, <3>3, <3>4 DEF ExtraZoneSound
  <2>7. QED
    BY <1>1, <1>4, <2>3, <2>5, <2>6 DEF IInv
<1>10. CASE known => call.how = "hide"
  <2>1. known => extra
    <3>1. SUFFICES ASSUME known PROVE pages[t] = "extra"
      OBVIOUS
    <3>2. t = extraTabId
      BY <1>4, <1>5, <1>10, <3>1 DEF IInv, KillsAreDue
    <3>3. t \in DOMAIN pages \cap DOMAIN tabLeases
      BY <1>5, <1>8, <3>1 DEF hasTab
    <3>4. QED
      BY <3>2, <3>3 DEF IInv, ExtraZoneSound
  <2>2. known => hide
    BY <1>4, <1>10, <2>1
  <2>3. pages' = pages
    BY <1>2, <2>2
  <2>4. MailboxTells'
    BY <1>4, <1>5, <1>10, <2>3 DEF MailboxTells
  <2>5. BooksMatchScreen'
    BY <1>4, <1>7, <1>8, <2>3 DEF BooksMatchScreen, hasTab
  <2>6. ExtraZoneSound'
    BY <1>2, <1>4, <2>3 DEF IInv, ExtraZoneSound, hasExtraPage, hasTab
  <2>7. QED
    BY <1>1, <1>4, <2>4, <2>5, <2>6 DEF IInv
<1>11. QED
  BY <1>5, <1>9, <1>10 DEF Forces

\* onKillTab for nobody: the books have forgotten the tab already.
LEMMA OnKillTabAsyncInv ==
  ASSUME IInv, OnKillTab, Head(posted).client = Nobody
  PROVE  IInv'
<1> DEFINE t     == Head(posted).id
           known == t \in DOMAIN pages
           extra == known /\ pages[t] = "extra"
           hide  == extra /\ Head(posted).how = "hide"
<1>1. TypeOK'
  BY GuiType DEF IInv, GuiStep
<1>2. /\ Deliver({"KillTab"}) /\ UNCHANGED shortcuts
      /\ pages' = IF known /\ ~hide THEN Without(pages, t) ELSE pages
      /\ overlay' = (overlay /\ ~hide /\ (extra => hasExtraPage'))
      /\ Reply(IF known THEN "OK" ELSE "INVALID_TAB", {})
  BY DEF OnKillTab
<1>3. (IF known THEN "OK" ELSE "INVALID_TAB") \in Results
  BY DEF Results
<1>4. /\ resp = NoResp /\ resp' = NoResp /\ Head(posted) \in Commands
      /\ Head(posted).op = "KillTab" /\ Head(posted).how = "force"
      /\ AsyncKilled = AsyncKilled' \cup {t}
      /\ t \notin DOMAIN tabLeases
      /\ UNCHANGED <<conns, tabLeases, shortcutLeases, connectionTabs, extraTabId, call,
                     doomed, closing, browserUp>>
      /\ QueueShape' /\ KillsAreDue' /\ NothingBeforeBrowser' /\ ClosingSweeps' /\ OwnersSound'
  BY <1>2, <1>3, DeliverInv
<1>5. t \in Tabs /\ t \notin Shortcuts
  BY <1>4, CommandFields, KeysApart DEF IInv
<1>6. \A x : ~InFlight(x)
  BY <1>4 DEF InFlight, NoResp
<1>7. /\ DOMAIN pages' = DOMAIN pages \ {t}
      /\ \A u \in DOMAIN pages' : pages'[u] = pages[u]
  BY <1>2, <1>4 DEF Without
<1>8. MailboxTells'
  BY <1>2, <1>4, <1>7 DEF IInv, MailboxTells, NoResp
<1>9. BooksMatchScreen'
  <2>1. \A u \in Tabs : hasTab(u)' <=> u \in DOMAIN pages' \ AsyncKilled'
    BY <1>4, <1>6, <1>7 DEF IInv, BooksMatchScreen, hasTab
  <2>2. \A x \in Shortcuts : x \in DOMAIN shortcutLeases' <=> x \in shortcuts' \ AsyncKilled'
    BY <1>2, <1>4, <1>5, <1>6 DEF IInv, BooksMatchScreen
  <2>3. QED
    BY <2>1, <2>2 DEF BooksMatchScreen
<1>10. ExtraZoneSound'
  <2>1. \A u \in DOMAIN pages' \cap DOMAIN tabLeases' : u = extraTabId' <=> pages'[u] = "extra"
    BY <1>4, <1>7 DEF IInv, ExtraZoneSound
  <2>2. extraTabId' # NoId => hasTab(extraTabId)'
    BY <1>4 DEF IInv, ExtraZoneSound, hasTab
  <2>3. \A u, w \in DOMAIN pages' : pages'[u] = "extra" /\ pages'[w] = "extra" => u = w
    BY <1>7 DEF IInv, ExtraZoneSound
  <2>4. overlay' => hasExtraPage'
    BY <1>2, <1>4, <1>7 DEF IInv, ExtraZoneSound, hasExtraPage
  <2>5. QED
    BY <2>1, <2>2, <2>3, <2>4 DEF ExtraZoneSound
<1>11. QED
  BY <1>1, <1>4, <1>8, <1>9, <1>10 DEF IInv

\* onNewShortcut: the entry is new.
LEMMA OnNewShortcutInv ==
  ASSUME IInv, OnNewShortcut
  PROVE  IInv'
<1> DEFINE s == Head(posted).id
<1>1. TypeOK'
  BY GuiType DEF IInv, GuiStep
<1>2. PICK room \in BOOLEAN :
        /\ shortcuts' = IF room THEN shortcuts \cup {s} ELSE shortcuts
        /\ Reply(IF room THEN "OK" ELSE "EXEC_ERROR", {})
  BY DEF OnNewShortcut, ShortcutRoom
<1>3. Deliver({"NewShortcut"}) /\ UNCHANGED <<pages, overlay>>
  BY DEF OnNewShortcut
<1>4. (IF room THEN "OK" ELSE "EXEC_ERROR") \in Results
  BY DEF Results
<1>5. /\ resp = NoResp /\ Head(posted) = call /\ call.op = "NewShortcut"
      /\ AsyncKilled = {} /\ AsyncKilled' = {} /\ call \in Commands
      /\ resp' = [ret |-> IF room THEN "OK" ELSE "EXEC_ERROR", body |-> {}]
      /\ UNCHANGED <<conns, tabLeases, shortcutLeases, connectionTabs, extraTabId, call,
                     doomed, closing, browserUp>>
      /\ QueueShape' /\ KillsAreDue' /\ NothingBeforeBrowser' /\ ClosingSweeps' /\ OwnersSound'
  BY <1>2, <1>3, <1>4, DeliverInv
<1>6. call.id = s /\ s \in Shortcuts /\ s \notin Tabs
  BY <1>5, CommandFields, KeysApart DEF IInv
<1>7. s \notin DOMAIN shortcutLeases /\ s \notin shortcuts
  BY <1>5, <1>6 DEF IInv, MailboxTells, NoResp
<1>8. \A x : ~InFlight(x)
  BY <1>5 DEF InFlight, NoResp
<1>9. MailboxTells'
  BY <1>2, <1>5, <1>6, <1>7 DEF MailboxTells
<1>10. BooksMatchScreen'
  <2>1. \A u \in Tabs : hasTab(u)' <=> u \in DOMAIN pages' \ AsyncKilled'
    BY <1>3, <1>5, <1>8 DEF IInv, BooksMatchScreen, hasTab
  <2>2. \A x \in Shortcuts :
          (x \in DOMAIN shortcutLeases' <=> x \in shortcuts' \ AsyncKilled') \/ (room /\ x = s)
    BY <1>2, <1>5, <1>8 DEF IInv, BooksMatchScreen
  <2>3. room => call'.id = s /\ call'.op = "NewShortcut" /\ resp'.ret = "OK"
    BY <1>5, <1>6
  <2>4. QED
    BY <2>1, <2>2, <2>3 DEF BooksMatchScreen, InFlight
<1>11. ExtraZoneSound'
  BY <1>3, <1>5 DEF IInv, ExtraZoneSound, hasExtraPage, hasTab
<1>12. QED
  BY <1>1, <1>5, <1>9, <1>10, <1>11 DEF IInv

\* onKillShortcut, for a handler that waits or for nobody.
LEMMA OnKillShortcutInv ==
  ASSUME IInv, OnKillShortcut
  PROVE  IInv'
<1> DEFINE s   == Head(posted).id
           ret == IF s \in shortcuts THEN "OK" ELSE "INVALID_TAB"
<1>1. TypeOK'
  BY GuiType DEF IInv, GuiStep
<1>2. /\ Deliver({"KillShortcut"}) /\ UNCHANGED <<pages, overlay>>
      /\ shortcuts' = shortcuts \ {s} /\ Reply(ret, {})
  BY DEF OnKillShortcut
<1>3. ret \in Results
  BY DEF Results
<1>4. /\ resp = NoResp /\ Head(posted) \in Commands /\ Head(posted).op = "KillShortcut"
      /\ UNCHANGED <<conns, tabLeases, shortcutLeases, connectionTabs, extraTabId, call,
                     doomed, closing, browserUp>>
      /\ Head(posted).client = Nobody =>
           /\ resp' = NoResp /\ AsyncKilled = AsyncKilled' \cup {s}
           /\ s \notin DOMAIN shortcutLeases
      /\ Head(posted).client # Nobody =>
           /\ Head(posted) = call /\ AsyncKilled = {} /\ AsyncKilled' = {}
           /\ resp' = [ret |-> ret, body |-> {}]
      /\ QueueShape' /\ KillsAreDue' /\ NothingBeforeBrowser' /\ ClosingSweeps' /\ OwnersSound'
  BY <1>2, <1>3, DeliverInv
<1>5. s \in Shortcuts /\ s \notin Tabs
  BY <1>4, CommandFields, KeysApart DEF IInv
<1>6. \A x : ~InFlight(x)
  BY <1>4 DEF InFlight, NoResp
<1>7. ExtraZoneSound'
  BY <1>2, <1>4 DEF IInv, ExtraZoneSound, hasExtraPage, hasTab
<1>8. \A u \in Tabs : hasTab(u)' <=> u \in DOMAIN pages' \ AsyncKilled'
  BY <1>2, <1>4, <1>5, <1>6 DEF IInv, BooksMatchScreen, hasTab
<1>9. CASE Head(posted).client = Nobody
  <2>1. MailboxTells'
    BY <1>2, <1>4, <1>9 DEF IInv, MailboxTells, NoResp
  <2>2. \A x \in Shortcuts : x \in DOMAIN shortcutLeases' <=> x \in shortcuts' \ AsyncKilled'
    BY <1>2, <1>4, <1>6, <1>9 DEF IInv, BooksMatchScreen
  <2>3. BooksMatchScreen'
    BY <1>8, <2>2 DEF BooksMatchScreen
  <2>4. QED
    BY <1>1, <1>4, <1>7, <2>1, <2>3 DEF IInv
<1>10. CASE Head(posted).client # Nobody
  <2>1. call.op = "KillShortcut" /\ call.id = s
    BY <1>4, <1>10
  <2>2. MailboxTells'
    BY <1>2, <1>4, <1>10, <2>1 DEF MailboxTells
  <2>3. \A x \in Shortcuts : x # s =>
          (x \in DOMAIN shortcutLeases' <=> x \in shortcuts' \ AsyncKilled')
    BY <1>2, <1>4, <1>6, <1>10 DEF IInv, BooksMatchScreen
  <2>4. CASE s \in shortcuts
    <3>1. call'.id = s /\ call'.op = "KillShortcut" /\ resp'.ret = "OK"
      BY <1>4, <1>10, <2>1, <2>4
    <3>2. BooksMatchScreen'
      BY <1>8, <2>3, <3>1 DEF BooksMatchScreen, InFlight
    <3>3. QED
      BY <1>1, <1>4, <1>7, <2>2, <3>2 DEF IInv
  <2>5. CASE s \notin shortcuts
    <3>1. s \notin DOMAIN shortcutLeases' /\ s \notin shortcuts'
      BY <1>2, <1>4, <1>5, <1>6, <1>10, <2>5 DEF IInv, BooksMatchScreen
    <3>2. BooksMatchScreen'
      BY <1>8, <2>3, <3>1 DEF BooksMatchScreen
    <3>3. QED
      BY <1>1, <1>4, <1>7, <2>2, <3>2 DEF IInv
  <2>6. QED
    BY <2>4, <2>5
<1>11. QED
  BY <1>9, <1>10

\* Every step of the GUI thread.
LEMMA GuiInv ==
  ASSUME IInv, GuiStep
  PROVE  IInv'
<1>1. TypeOK'
  BY GuiType DEF IInv
<1>2. CASE OnUseTab
  <2>1. (IF Head(posted).id \in DOMAIN pages THEN "OK" ELSE "INVALID_TAB") \in Results
    BY DEF Results
  <2>2. /\ Deliver(TabOps) /\ UNCHANGED <<pages, shortcuts>>
        /\ Reply(IF Head(posted).id \in DOMAIN pages THEN "OK" ELSE "INVALID_TAB", {})
        /\ overlay' => overlay \/ hasExtraPage
    BY <1>2 DEF OnUseTab, hasExtraPage
  <2>3. TabOps \cap {"NewWebTab", "KillTab", "NewShortcut", "KillShortcut"} = {}
    BY DEF TabOps
  <2>4. QED
    BY <1>1, <2>1, <2>2, <2>3, GuiReadInv
<1>3. CASE OnGetTabMap
  <2>1. "OK" \in Results
    BY DEF Results
  <2>2. Deliver({"GetTabMap"}) /\ Reply("OK", NormalPages) /\ UNCHANGED <<pages, shortcuts, overlay>>
    BY <1>3 DEF OnGetTabMap, screen
  <2>3. QED
    BY <1>1, <2>1, <2>2, GuiReadInv
<1>4. CASE OnGetShortcuts
  <2>1. "OK" \in Results
    BY DEF Results
  <2>2. Deliver({"GetShortcuts"}) /\ Reply("OK", shortcuts) /\ UNCHANGED <<pages, shortcuts, overlay>>
    BY <1>4 DEF OnGetShortcuts, screen
  <2>3. QED
    BY <1>1, <2>1, <2>2, GuiReadInv
<1>5. QED
  BY <1>2, <1>3, <1>4, OnNewWebTabInv, OnKillTabAwaitedInv, OnKillTabAsyncInv,
     OnNewShortcutInv, OnKillShortcutInv DEF GuiStep

-----------------------------------------------------------------------------
(* The theorems. *)

\* The strengthened invariant holds at the start and is kept by every step of
\* either thread, whatever the number of clients, tabs, shortcuts and limits.
THEOREM InductiveInvariant == Spec => []IInv
<1>1. Init => IInv
  <2> SUFFICES ASSUME Init
               PROVE  IInv
    OBVIOUS
  <2>1. TypeOK
    BY InitType
  <2>2. /\ DOMAIN tabLeases = {} /\ DOMAIN shortcutLeases = {} /\ DOMAIN pages = {}
        /\ shortcuts = {} /\ posted = <<>> /\ Len(posted) = 0
        /\ call = NoCall /\ call.op = "none" /\ resp = NoResp /\ resp.ret = "none"
        /\ doomed = {} /\ closing = Nobody /\ extraTabId = NoId /\ overlay = FALSE
        /\ \A c \in Conns : connectionTabs[c] = {}
    BY DEF Init, EmptyMap, NoCall, NoResp
  <2>3. QueueShape /\ KillsAreDue /\ MailboxTells
    BY <2>2 DEF QueueShape, KillsAreDue, MailboxTells
  <2>4. NothingBeforeBrowser /\ ClosingSweeps
    BY <2>2 DEF NothingBeforeBrowser, ClosingSweeps
  <2>5. BooksMatchScreen /\ ExtraZoneSound /\ OwnersSound
    BY <2>2 DEF BooksMatchScreen, ExtraZoneSound, OwnersSound, hasTab
  <2>6. QED
    BY <2>1, <2>3, <2>4, <2>5 DEF IInv
<1>2. IInv /\ [Next]_vars => IInv'
  <2> SUFFICES ASSUME IInv, [Next]_vars
               PROVE  IInv'
    OBVIOUS
  <2>1. CASE UNCHANGED vars
    <3>1. UNCHANGED <<conns, tabLeases, shortcutLeases, connectionTabs, extraTabId, call,
                     doomed, closing, answer, browserUp, pages, shortcuts, overlay,
                     posted, resp>>
      BY <2>1 DEF vars, books, thread, screen, channels
    <3>2. TypeOK'
      BY <3>1 DEF IInv, TypeOK
    <3>3. QueueShape' /\ KillsAreDue' /\ MailboxTells' /\ NothingBeforeBrowser' /\ ClosingSweeps'
      BY <3>1 DEF IInv, QueueShape, KillsAreDue, MailboxTells, NothingBeforeBrowser, ClosingSweeps
    <3>4. AsyncKilled' = AsyncKilled
      BY <3>1 DEF AsyncKilled
    <3>5. BooksMatchScreen'
      BY <3>1, <3>4 DEF IInv, BooksMatchScreen, InFlight, hasTab
    <3>6. ExtraZoneSound' /\ OwnersSound'
      BY <3>1 DEF IInv, ExtraZoneSound, OwnersSound, hasExtraPage, hasTab
    <3>7. QED
      BY <3>2, <3>3, <3>5, <3>6 DEF IInv
  <2>2. ASSUME NEW c \in Conns, Accept(c) \/ Close(c) \/ Request(c)
        PROVE  IInv'
    BY <2>2, RequestInv, ConnectionInv
  <2>3. CASE Sweep
    BY <2>3, SweepTabInv, SweepShortcutInv DEF Sweep
  <2>4. CASE EraseConnection \/ Return \/ Prune \/ Tick
    BY <2>4, EraseConnectionInv, ReturnInv, PruneInv, TickInv
  <2>5. CASE BrowserReady \/ GuiStep
    BY <2>5, BrowserReadyInv, GuiInv
  <2>6. QED
    BY <2>1, <2>2, <2>3, <2>4, <2>5 DEF Next
<1>3. QED
  BY <1>1, <1>2, PTL DEF Spec

\* The server's books and the GUI's lists agree but for queued kills and the
\* request under way.
THEOREM BooksAlwaysMatch == Spec => []BooksMatchScreen
<1>1. IInv => BooksMatchScreen
  BY DEF IInv
<1>2. QED
  BY <1>1, InductiveInvariant, PTL

\* There is never a second extra page, and extraTabId never goes stale.
THEOREM ExtraZoneAlwaysSound == Spec => []ExtraZoneSound
<1>1. IInv => ExtraZoneSound
  BY DEF IInv
<1>2. QED
  BY <1>1, InductiveInvariant, PTL

\* A tab's connection is open or being closed, and is the only one to own it.
THEOREM OwnersAlwaysSound == Spec => []OwnersSound
<1>1. IInv => OwnersSound
  BY DEF IInv
<1>2. QED
  BY <1>1, InductiveInvariant, PTL

-----------------------------------------------------------------------------
(* What the refinement needs besides, step by step. *)

\* A request begins only between two callbacks.
LEMMA RequestIdle ==
  ASSUME NEW c, Request(c)
  PROVE  /\ call = NoCall /\ doomed = {} /\ closing = Nobody /\ c \in conns
         /\ UNCHANGED <<conns, doomed, closing, browserUp, pages, shortcuts, overlay, resp>>
<1>1. ASSUME NEW cmd, cmd.client = c, Ask(cmd)
      PROVE  /\ call = NoCall /\ doomed = {} /\ closing = Nobody /\ c \in conns
             /\ UNCHANGED <<conns, doomed, closing, browserUp, pages, shortcuts, overlay, resp>>
  BY <1>1 DEF Ask, Idle, screen
<1>2. ASSUME NEW op, NEW x, NEW how
      PROVE  Command(c, op, x, how).client = c
  BY DEF Command
<1>3. ASSUME NEW ret, AnswerAtOnce(c, ret)
      PROVE  /\ call = NoCall /\ doomed = {} /\ closing = Nobody /\ c \in conns
             /\ UNCHANGED <<conns, doomed, closing, browserUp, pages, shortcuts, overlay, resp>>
  BY <1>3 DEF AnswerAtOnce, Idle, thread, screen, channels
<1>4. QED
  BY <1>1, <1>2, <1>3 DEF Request, BadRequest, NewWebTab, KillTab, UseTab, GetTabMap, IAmAlive,
     NewShortcut, KillShortcut, GetShortcuts, IAmAliveShortcut

\* While a reply waits to be read, the server thread can only read it.
LEMMA ReplyHolds ==
  ASSUME IInv, Next, resp # NoResp
  PROVE  \/ Return \/ Tick \/ BrowserReady
<1>1. call # NoCall /\ doomed = {} /\ closing = Nobody /\ posted = <<>>
  BY DEF IInv, QueueShape
<1>2. ASSUME NEW c \in Conns
      PROVE  ~(Accept(c) \/ Close(c) \/ Request(c))
  BY <1>1, RequestIdle DEF Accept, Close, Idle
<1>3. ~EraseConnection /\ ~Prune /\ ~Sweep
  BY <1>1 DEF EraseConnection, Prune, Idle, Sweep, SweepTab, SweepShortcut
<1>4. ~GuiStep
  BY <1>1 DEF GuiStep, OnNewWebTab, OnKillTab, OnUseTab, OnGetTabMap, OnNewShortcut,
     OnKillShortcut, OnGetShortcuts, Deliver
<1>5. QED
  BY <1>2, <1>3, <1>4 DEF Next

\* The GUI thread touches nothing that Terminal sees.
LEMMA GuiUnseen ==
  ASSUME GuiStep
  PROVE  UNCHANGED <<conns, tabLeases, shortcutLeases, connectionTabs, extraTabId,
                     call, doomed, closing, answer, browserUp>>
  BY DEF GuiStep, OnNewWebTab, OnKillTab, OnUseTab, OnGetTabMap, OnNewShortcut,
     OnKillShortcut, OnGetShortcuts, Deliver, books, thread

\* A handler that comes back leaves the screen and the sweep alone.
LEMMA ReturnUnseen ==
  ASSUME Return
  PROVE  /\ resp # NoResp /\ resp' = NoResp /\ call' = NoCall
         /\ UNCHANGED <<conns, doomed, closing, browserUp, pages, shortcuts, overlay, posted>>
<1>1. PICK op : Returning(op)
  BY DEF Return, ReturnNewWebTab, ReturnKillTab, ReturnAnswer, ReturnNewShortcut,
     ReturnKillShortcut
<1>2. PICK body : Finish(body)
  BY DEF Return, ReturnNewWebTab, ReturnKillTab, ReturnAnswer, ReturnNewShortcut,
     ReturnKillShortcut
<1>3. QED
  BY <1>1, <1>2 DEF Returning, Finish, screen

\* A sweep keeps its reasons: nothing renews what it is about to kill.
LEMMA SweepsStayDue ==
  ASSUME IInv, SweepsAreDue, Next
  PROVE  SweepsAreDue'
<1>1. ASSUME doomed' = {}
      PROVE  SweepsAreDue'
  BY <1>1 DEF SweepsAreDue
<1>2. ASSUME UNCHANGED <<tabLeases, shortcutLeases, connectionTabs, doomed, closing>>
      PROVE  SweepsAreDue'
  BY <1>2 DEF SweepsAreDue
<1>3. ASSUME NEW c \in Conns, Accept(c) \/ Request(c)
      PROVE  SweepsAreDue'
  BY <1>1, <1>3, RequestIdle DEF Accept, Idle, thread
<1>4. ASSUME NEW c \in Conns, Close(c)
      PROVE  SweepsAreDue'
  <2>1. /\ closing' = c /\ doomed' \subseteq connectionTabs[c] /\ connectionTabs' = connectionTabs
        /\ c # Nobody
    BY <1>4, IdsAssumption DEF Close, books
  <2>2. doomed' \subseteq Tabs
    BY <2>1 DEF IInv, TypeOK
  <2>3. QED
    BY <2>1, <2>2, KeysApart DEF SweepsAreDue, IInv
<1>5. CASE EraseConnection \/ GuiStep
  BY <1>1, <1>2, <1>5, GuiUnseen DEF EraseConnection
<1>6. CASE Return
  BY <1>1, <1>6, ReturnUnseen DEF IInv, QueueShape
<1>7. CASE BrowserReady
  BY <1>2, <1>7 DEF BrowserReady, books, thread
<1>8. CASE Prune
  <2>1. /\ doomed' = RunOut(tabLeases) \cup RunOut(shortcutLeases)
        /\ UNCHANGED <<tabLeases, shortcutLeases>>
    BY <1>8 DEF Prune, books
  <2>2. QED
    BY <2>1, KeysApart DEF SweepsAreDue, RunOut, IInv
<1>9. ASSUME NEW t \in Tabs, SweepTab(t)
      PROVE  SweepsAreDue'
  <2>1. /\ doomed' = doomed \ {t} /\ UNCHANGED <<shortcutLeases, closing>>
        /\ \A u \in DOMAIN tabLeases \ {t} : tabLeases'[u] = tabLeases[u]
        /\ \A c \in Conns : connectionTabs'[c] = connectionTabs[c] \ {t}
    BY <1>9 DEF SweepTab, ForgetTab, Without
  <2>2. closing # Nobody => closing \in Conns
    BY DEF IInv, TypeOK
  <2>3. doomed \cap Tabs \subseteq DOMAIN tabLeases
    BY KeysApart DEF IInv, KillsAreDue
  <2>4. QED
    BY <2>1, <2>2, <2>3 DEF SweepsAreDue
<1>10. ASSUME NEW s \in Shortcuts, SweepShortcut(s)
       PROVE  SweepsAreDue'
  <2>1. /\ doomed \cap Tabs = {} /\ doomed' = doomed \ {s}
        /\ \A u \in DOMAIN shortcutLeases \ {s} : shortcutLeases'[u] = shortcutLeases[u]
    BY <1>10 DEF SweepShortcut, Without
  <2>2. doomed \cap Shortcuts \subseteq DOMAIN shortcutLeases
    BY KeysApart DEF IInv, KillsAreDue
  <2>3. QED
    BY <2>1, <2>2 DEF SweepsAreDue
<1>11. CASE Tick
  <2>1. /\ \A t \in DOMAIN tabLeases : tabLeases'[t] = Elapse(tabLeases[t])
        /\ \A s \in DOMAIN shortcutLeases : shortcutLeases'[s] = Elapse(shortcutLeases[s])
        /\ UNCHANGED <<connectionTabs, doomed, closing>>
    BY <1>11 DEF Tick, thread
  <2>2. Elapse(0) = 0
    BY DEF Elapse
  <2>3. /\ doomed \cap Tabs \subseteq DOMAIN tabLeases
        /\ doomed \cap Shortcuts \subseteq DOMAIN shortcutLeases
    BY KeysApart DEF IInv, KillsAreDue
  <2>4. QED
    BY <2>1, <2>2, <2>3 DEF SweepsAreDue
<1>12. QED
  BY <1>3, <1>4, <1>5, <1>6, <1>7, <1>8, <1>9, <1>10, <1>11 DEF Next, Sweep

\* Each handler of the GUI adds one page or one shortcut at most.
LEMMA ScreenStaysFinite ==
  ASSUME IInv, ScreenIsFinite, Next
  PROVE  ScreenIsFinite'
<1>1. ASSUME UNCHANGED <<pages, shortcuts>>
      PROVE  ScreenIsFinite'
  BY <1>1 DEF ScreenIsFinite
<1>2. ASSUME NEW x, DOMAIN pages' \in {DOMAIN pages, DOMAIN pages \cup {x}, DOMAIN pages \ {x}},
             shortcuts' \in {shortcuts, shortcuts \cup {x}, shortcuts \ {x}}
      PROVE  ScreenIsFinite'
  BY <1>2, FS_AddElement, FS_RemoveElement DEF ScreenIsFinite
<1>3. CASE GuiStep
  <2>1. CASE OnNewWebTab
    BY <1>2, <2>1 DEF OnNewWebTab, With
  <2>2. CASE OnKillTab
    BY <1>2, <2>2 DEF OnKillTab, Without
  <2>3. CASE OnNewShortcut
    BY <1>2, <2>3 DEF OnNewShortcut
  <2>4. CASE OnKillShortcut
    <3>1. pages' = pages /\ shortcuts' = shortcuts \ {Head(posted).id}
      BY <2>4 DEF OnKillShortcut
    <3>2. IsFiniteSet(shortcuts')
      BY <3>1, FS_RemoveElement DEF ScreenIsFinite
    <3>3. QED
      BY <3>1, <3>2 DEF ScreenIsFinite
  <2>5. CASE OnUseTab \/ OnGetTabMap \/ OnGetShortcuts
    BY <1>1, <2>5 DEF OnUseTab, OnGetTabMap, OnGetShortcuts, screen
  <2>6. QED
    BY <1>3, <2>1, <2>2, <2>3, <2>4, <2>5 DEF GuiStep
<1>4. CASE Sweep \/ Prune \/ EraseConnection \/ Tick \/ BrowserReady
  BY <1>1, <1>4 DEF Sweep, SweepTab, SweepShortcut, Prune, EraseConnection, Tick, BrowserReady,
     screen
<1>5. ASSUME NEW c \in Conns, Accept(c) \/ Close(c) \/ Request(c)
      PROVE  ScreenIsFinite'
  BY <1>1, <1>5, RequestIdle DEF Accept, Close, screen
<1>6. QED
  BY <1>1, <1>3, <1>4, <1>5, ReturnUnseen DEF Next

\* When the GUI takes the signal of a handler that waits, there is no other, and
\* the books are the screen.
LEMMA AwaitedSeesTheBooks ==
  ASSUME IInv, posted # <<>>, Head(posted).client # Nobody
  PROVE  /\ Head(posted) = call /\ call \in Commands /\ resp = NoResp
         /\ DOMAIN pages = DOMAIN tabLeases /\ shortcuts = DOMAIN shortcutLeases
         /\ NormalPages = BookedTabs
         /\ hasExtraPage <=> extraTabId # NoId
<1>1. /\ Len(posted) \in Nat \ {0} /\ Head(posted) = posted[1] /\ Head(posted) \in Commands
      /\ 1 \in 1..Len(posted)
  BY DEF IInv, TypeOK
<1>2. Head(posted) = call /\ Len(posted) = 1 /\ resp = NoResp
  BY <1>1 DEF IInv, QueueShape
<1>3. AsyncKilled = {} /\ \A x : ~InFlight(x)
  BY <1>1, <1>2 DEF AsyncKilled, InFlight, NoResp
<1>4. DOMAIN pages = DOMAIN tabLeases /\ shortcuts = DOMAIN shortcutLeases
  BY <1>3, KeysApart DEF IInv, BooksMatchScreen, hasTab
<1>5. \A t \in DOMAIN pages : /\ t = extraTabId <=> pages[t] = "extra"
                              /\ pages[t] \in {"normal", "extra"}
  BY <1>4 DEF IInv, ExtraZoneSound, TypeOK, IsMap
<1>6. NormalPages = BookedTabs
  BY <1>4, <1>5 DEF NormalPages, BookedTabs
<1>7. hasExtraPage <=> extraTabId # NoId
  BY <1>4, <1>5, KeysApart, IdsAssumption DEF hasExtraPage, IInv, ExtraZoneSound, hasTab
<1>8. QED
  BY <1>1, <1>2, <1>4, <1>6, <1>7

\* What a handler of the GUI leaves in the mailbox.
LEMMA ReplyFills ==
  ASSUME IInv, NEW ops, Deliver(ops), NEW ret, NEW body, Reply(ret, body)
  PROVE  /\ posted # <<>> /\ Head(posted).op \in ops
         /\ Head(posted).client = Nobody => resp' = NoResp
         /\ Head(posted).client # Nobody => resp' = [ret |-> ret, body |-> body]
  BY DEF Deliver, Reply, IInv, QueueShape

\* Each handler of the GUI answers truly.
LEMMA GuiAnswersTruly ==
  ASSUME IInv, ScreenIsFinite, GuiStep
  PROVE  RepliesTrue'
<1> SUFFICES ASSUME resp' # NoResp
             PROVE  RepliesTrue'
  BY DEF RepliesTrue
<1>1. posted # <<>>
  BY DEF GuiStep, OnNewWebTab, OnKillTab, OnUseTab, OnGetTabMap, OnNewShortcut,
     OnKillShortcut, OnGetShortcuts, Deliver
<1>2. PICK ret, body, ops : Deliver(ops) /\ Reply(ret, body)
  BY DEF GuiStep, OnNewWebTab, OnKillTab, OnUseTab, OnGetTabMap, OnNewShortcut,
     OnKillShortcut, OnGetShortcuts
<1>3. Head(posted).client # Nobody
  BY <1>2, ReplyFills
<1>4. /\ Head(posted) = call /\ call \in Commands
      /\ DOMAIN pages = DOMAIN tabLeases /\ shortcuts = DOMAIN shortcutLeases
      /\ NormalPages = BookedTabs /\ (hasExtraPage <=> extraTabId # NoId)
  BY <1>1, <1>3, AwaitedSeesTheBooks
<1>5. /\ UNCHANGED <<tabLeases, shortcutLeases, extraTabId, call>>
      /\ BookedTabs' = BookedTabs
  BY GuiUnseen DEF BookedTabs
<1>6. CASE OnNewWebTab
  <2>1. PICK room \in Room(call.how) : Reply(IF room THEN "OK" ELSE "EXEC_ERROR", {})
    BY <1>4, <1>6 DEF OnNewWebTab
  <2>2. call.op = "NewWebTab" /\ resp'.ret = IF room THEN "OK" ELSE "EXEC_ERROR"
    BY <1>3, <1>4, <1>6, <2>1, ReplyFills DEF OnNewWebTab
  <2>3. call.how \in Places
    BY <1>4, <2>2, CommandFields
  <2>4. Cardinality(BookedTabs) \in Nat
    BY <1>4, FS_Subset, FS_CardinalityType DEF ScreenIsFinite, BookedTabs
  <2>5. \/ room /\ IF call.how = "extra" THEN extraTabId = NoId
                                         ELSE Cardinality(BookedTabs) < MaxTabs
        \/ /\ ~room
           /\ call.how = "extra" => extraTabId # NoId
           /\ call.how = "any" => Cardinality(BookedTabs) >= MaxTabs
    <3>1. Cardinality(BookedTabs) >= MaxTabs \/ Cardinality(BookedTabs) < MaxTabs
      BY <2>4, LimitsAssumption
    <3>2. CASE call.how = "extra"
      BY <1>4, <2>1, <3>2, Zenon DEF Room
    <3>3. CASE call.how = "any"
      BY <1>4, <2>1, <3>1, <3>3, Zenon DEF Room
    <3>4. CASE call.how = "placed"
      BY <1>4, <2>1, <3>1, <3>4, Zenon DEF Room
    <3>5. QED
      BY <2>3, <3>2, <3>3, <3>4 DEF Places
  <2>6. QED
    BY <1>5, <2>2, <2>5 DEF RepliesTrue, TabOps
<1>7. CASE OnKillTab \/ OnUseTab
  <2>1. /\ call.op \in TabOps \cup {"KillTab"}
        /\ resp' = [ret |-> IF call.id \in DOMAIN pages THEN "OK" ELSE "INVALID_TAB", body |-> {}]
    BY <1>3, <1>4, <1>7, ReplyFills DEF OnKillTab, OnUseTab
  <2>2. QED
    BY <1>4, <1>5, <2>1 DEF RepliesTrue, TabOps, hasTab
<1>8. CASE OnGetTabMap
  <2>1. call.op = "GetTabMap" /\ resp' = [ret |-> "OK", body |-> NormalPages]
    BY <1>3, <1>4, <1>8, ReplyFills DEF OnGetTabMap
  <2>2. QED
    BY <1>4, <1>5, <2>1 DEF RepliesTrue, TabOps
<1>9. CASE OnNewShortcut
  <2>1. PICK room \in ShortcutRoom(call.how) : Reply(IF room THEN "OK" ELSE "EXEC_ERROR", {})
    BY <1>4, <1>9 DEF OnNewShortcut
  <2>2. call.op = "NewShortcut" /\ resp'.ret = IF room THEN "OK" ELSE "EXEC_ERROR"
    BY <1>3, <1>4, <1>9, <2>1, ReplyFills DEF OnNewShortcut
  <2>3. Cardinality(DOMAIN shortcutLeases) \in Nat
    BY <1>4, FS_CardinalityType DEF ScreenIsFinite
  <2>4. \/ /\ room /\ ShortcutsEnabled
           /\ Cardinality(DOMAIN shortcutLeases) < MaxShortcuts
        \/ /\ ~room
           /\ call.how = "any" => \/ ~ShortcutsEnabled
                                  \/ Cardinality(DOMAIN shortcutLeases) >= MaxShortcuts
    <3>1. \/ Cardinality(DOMAIN shortcutLeases) >= MaxShortcuts
          \/ Cardinality(DOMAIN shortcutLeases) < MaxShortcuts
      BY <2>3, LimitsAssumption
    <3>2. QED
      BY <1>4, <2>1, <3>1, Zenon DEF ShortcutRoom
  <2>5. QED
    BY <1>5, <2>2, <2>4 DEF RepliesTrue, TabOps
<1>10. CASE OnKillShortcut
  <2>1. /\ call.op = "KillShortcut"
        /\ resp'.ret = IF call.id \in shortcuts THEN "OK" ELSE "INVALID_TAB"
    BY <1>3, <1>4, <1>10, ReplyFills DEF OnKillShortcut
  <2>2. QED
    BY <1>4, <1>5, <2>1 DEF RepliesTrue, TabOps
<1>11. CASE OnGetShortcuts
  <2>1. call.op = "GetShortcuts" /\ resp' = [ret |-> "OK", body |-> shortcuts]
    BY <1>3, <1>4, <1>11, ReplyFills DEF OnGetShortcuts
  <2>2. QED
    BY <1>4, <1>5, <2>1 DEF RepliesTrue, TabOps
<1>12. QED
  BY <1>6, <1>7, <1>8, <1>9, <1>10, <1>11 DEF GuiStep

\* And its reply is still true when it is read: the clock moves no key.
LEMMA RepliesStayTrue ==
  ASSUME IInv, ScreenIsFinite, RepliesTrue, Next
  PROVE  RepliesTrue'
<1>1. ASSUME resp' = NoResp
      PROVE  RepliesTrue'
  BY <1>1 DEF RepliesTrue
<1>2. ASSUME DOMAIN tabLeases' = DOMAIN tabLeases, DOMAIN shortcutLeases' = DOMAIN shortcutLeases,
             UNCHANGED <<extraTabId, call, resp>>
      PROVE  RepliesTrue'
  BY <1>2 DEF RepliesTrue, BookedTabs, hasTab
<1>3. CASE GuiStep
  BY <1>3, GuiAnswersTruly
<1>4. CASE Return
  BY <1>1, <1>4, ReturnUnseen
<1>5. CASE Tick \/ BrowserReady
  BY <1>2, <1>5 DEF Tick, BrowserReady, books, thread, channels
<1>6. CASE ~(GuiStep \/ Return \/ Tick \/ BrowserReady)
  <2>1. resp = NoResp
    BY <1>6, ReplyHolds
  <2>2. resp' = resp
    BY <1>6, RequestIdle DEF Next, Accept, Close, EraseConnection, Prune, Sweep, SweepTab,
       SweepShortcut, channels
  <2>3. QED
    BY <1>1, <2>1, <2>2
<1>7. QED
  BY <1>3, <1>4, <1>5, <1>6

\* All of it together.
THEOREM RefinementInvariant == Spec => []RefinementInv
<1>1. Init => SweepsAreDue /\ ScreenIsFinite /\ RepliesTrue
  BY FS_EmptySet DEF Init, SweepsAreDue, ScreenIsFinite, RepliesTrue, EmptyMap
<1>2. IInv /\ (SweepsAreDue /\ ScreenIsFinite /\ RepliesTrue) /\ [Next]_vars
        => (SweepsAreDue /\ ScreenIsFinite /\ RepliesTrue)'
  <2> SUFFICES ASSUME IInv, SweepsAreDue, ScreenIsFinite, RepliesTrue, [Next]_vars
               PROVE  SweepsAreDue' /\ ScreenIsFinite' /\ RepliesTrue'
    OBVIOUS
  <2>1. CASE UNCHANGED vars
    BY <2>1 DEF vars, books, thread, screen, channels, SweepsAreDue, ScreenIsFinite, RepliesTrue,
       BookedTabs, hasTab
  <2>2. CASE Next
    BY <2>2, SweepsStayDue, ScreenStaysFinite, RepliesStayTrue
  <2>3. QED
    BY <2>1, <2>2
<1>3. QED
  BY <1>1, <1>2, InductiveInvariant, PTL DEF Spec, RefinementInv

-----------------------------------------------------------------------------
(* Every step is a step of Terminal, or none. *)

\* What Terminal does not see.
Unseen == UNCHANGED <<conns, browserUp, tabLeases, shortcutLeases, connectionTabs,
                      extraTabId, answer>>

\* Terminal counts as TabLifecycle does.
LEMMA SameCardinality == \A S : Atomic!Cardinality(S) = Cardinality(S)
  BY DEF Atomic!Cardinality, Cardinality, Atomic!IsFiniteSet, IsFiniteSet

\* A handler that asks the GUI is not seen, or refused before the Browser is there.
LEMMA AskRefines ==
  ASSUME NEW cmd, Ask(cmd)
  PROVE  Unseen \/ Atomic!Refuse(cmd.client)
<1>1. CASE browserUp
  BY <1>1 DEF Ask, Unseen, books
<1>2. CASE ~browserUp
  BY <1>2 DEF Ask, Answer, books, Atomic!Refuse, Atomic!Say, Atomic!Answer
<1>3. QED
  BY <1>1, <1>2

\* Nor is anything but the answer of one that answers from the books alone.
LEMMA AnswerAtOnceRefines ==
  ASSUME NEW c, NEW ret, AnswerAtOnce(c, ret)
  PROVE  /\ c \in conns /\ Atomic!Answer(c, ret, {})
         /\ UNCHANGED <<conns, browserUp>>
         /\ UNCHANGED books => Atomic!Say(c, ret, {})
  BY DEF AnswerAtOnce, Answer, books, Atomic!Say, Atomic!Answer

LEMMA RequestRefines ==
  ASSUME NEW c \in Conns, Request(c)
  PROVE  Unseen \/ Atomic!Serve(c)
<1>1. ASSUME NEW op, NEW x, NEW how, Ask(Command(c, op, x, how))
      PROVE  Unseen \/ Atomic!Serve(c)
  <2>1. Command(c, op, x, how).client = c
    BY DEF Command
  <2>2. Unseen \/ Atomic!Refuse(c)
    BY <1>1, <2>1, AskRefines
  <2>3. QED
    BY <2>2 DEF Atomic!Serve
<1>2. CASE BadRequest(c)
  BY <1>2, AnswerAtOnceRefines DEF BadRequest, Atomic!Refuse, Atomic!Serve
<1>3. CASE GetTabMap(c) \/ GetShortcuts(c)
  BY <1>1, <1>3 DEF GetTabMap, GetShortcuts
<1>4. ASSUME NEW t \in Tabs,
             \/ \E how \in Places : NewWebTab(c, t, how)
             \/ \E op \in TabOps : UseTab(c, op, t)
             \/ KillTab(c, t)
      PROVE  Unseen \/ Atomic!Serve(c)
  BY <1>1, <1>4 DEF NewWebTab, UseTab, KillTab
<1>5. ASSUME NEW t \in Tabs, NEW ttl \in 0..MaxTTL, IAmAlive(c, t, ttl)
      PROVE  Unseen \/ Atomic!Serve(c)
  <2>1. CASE ~hasTab(t) /\ AnswerAtOnce(c, "INVALID_TAB") /\ UNCHANGED books
    <3>1. Atomic!NoSuchTab(c, t)
      BY <2>1, AnswerAtOnceRefines DEF Atomic!NoSuchTab, hasTab
    <3>2. QED
      BY <3>1 DEF Atomic!Serve
  <2>2. CASE Ask(Command(c, "KillTab", t, "force"))
    BY <1>1, <2>2
  <2>3. CASE /\ hasTab(t) /\ ttl > 0 /\ AnswerAtOnce(c, "OK")
             /\ tabLeases' = With(tabLeases, t, ttl)
             /\ UNCHANGED <<shortcutLeases, connectionTabs, extraTabId>>
    <3>1. Atomic!Renew(c, t, ttl)
      BY <2>3, AnswerAtOnceRefines DEF Atomic!Renew, Atomic!Add, With, hasTab
    <3>2. ttl \in 1..MaxTTL
      BY <2>3, LimitsAssumption
    <3>3. QED
      BY <3>1, <3>2 DEF Atomic!Serve
  <2>4. QED
    BY <1>5, <2>1, <2>2, <2>3 DEF IAmAlive
<1>6. ASSUME NEW s \in Shortcuts,
             (\E how \in {"any", "placed"} : NewShortcut(c, s, how)) \/ KillShortcut(c, s)
      PROVE  Unseen \/ Atomic!Serve(c)
  BY <1>1, <1>6 DEF NewShortcut, KillShortcut
<1>7. ASSUME NEW s \in Shortcuts, NEW ttl \in 0..MaxTTL, IAmAliveShortcut(c, s, ttl)
      PROVE  Unseen \/ Atomic!Serve(c)
  <2>1. CASE /\ s \notin DOMAIN shortcutLeases
             /\ AnswerAtOnce(c, "INVALID_TAB") /\ UNCHANGED books
    <3>1. Atomic!NoSuchShortcut(c, s)
      BY <2>1, AnswerAtOnceRefines DEF Atomic!NoSuchShortcut
    <3>2. QED
      BY <3>1 DEF Atomic!Serve
  <2>2. CASE KillShortcut(c, s)
    BY <1>6, <2>2
  <2>3. CASE /\ s \in DOMAIN shortcutLeases /\ ttl > 0 /\ AnswerAtOnce(c, "OK")
             /\ shortcutLeases' = With(shortcutLeases, s, ttl)
             /\ UNCHANGED <<tabLeases, connectionTabs, extraTabId>>
    <3>1. Atomic!RenewCut(c, s, ttl)
      BY <2>3, AnswerAtOnceRefines DEF Atomic!RenewCut, Atomic!Add, With
    <3>2. ttl \in 1..MaxTTL
      BY <2>3, LimitsAssumption
    <3>3. QED
      BY <3>1, <3>2 DEF Atomic!Serve
  <2>4. QED
    BY <1>7, <2>1, <2>2, <2>3 DEF IAmAliveShortcut
<1>8. QED
  BY <1>2, <1>3, <1>4, <1>5, <1>6, <1>7 DEF Request

\* The end of a handler is Terminal's answer.
LEMMA FinishRefines ==
  ASSUME IInv, resp # NoResp, NEW body, Finish(body)
  PROVE  /\ call \in Commands /\ call.client \in Conns /\ call.client \in conns
         /\ browserUp /\ Atomic!Answer(call.client, resp.ret, body)
         /\ UNCHANGED <<conns, browserUp>>
         /\ UNCHANGED books => Atomic!Say(call.client, resp.ret, body)
<1>1. call \in Commands /\ call.client \in conns /\ browserUp
  BY FinishInv
<1>2. call.client \in Conns
  BY <1>1 DEF IInv, TypeOK
<1>3. QED
  BY <1>1, <1>2 DEF Finish, Answer, books, Atomic!Say, Atomic!Answer

LEMMA ReturnRefines ==
  ASSUME IInv, RepliesTrue, Return
  PROVE  \E c \in Conns : Atomic!Serve(c)
<1> DEFINE c == call.client
<1>1. resp # NoResp
  BY ReturnUnseen
<1>2. PICK body : Finish(body)
  BY DEF Return, ReturnNewWebTab, ReturnKillTab, ReturnAnswer, ReturnNewShortcut,
     ReturnKillShortcut
<1>3. /\ call \in Commands /\ c \in Conns /\ c \in conns /\ browserUp
      /\ UNCHANGED <<conns, browserUp>>
  BY <1>1, <1>2, FinishRefines
<1>4. Atomic!Normal = BookedTabs
  BY DEF Atomic!Normal, BookedTabs
<1>5. CASE ReturnNewWebTab
  <2>1. call.op = "NewWebTab" /\ call.id \in Tabs /\ call.how \in Places
    BY <1>3, <1>5, CommandFields DEF ReturnNewWebTab, Returning
  <2>2. CASE resp.ret = "OK"
    <3>1. RememberTab(c, call.id, call.how) /\ Finish({call.id})
      BY <1>5, <2>2 DEF ReturnNewWebTab
    <3>2. call.id \notin DOMAIN tabLeases
      BY <2>1 DEF IInv, MailboxTells
    <3>3. IF call.how = "extra" THEN extraTabId = NoId
                                ELSE Atomic!Cardinality(Atomic!Normal) < MaxTabs
      BY <1>1, <1>4, <2>1, <2>2, SameCardinality DEF RepliesTrue
    <3>4. Atomic!Answer(c, "OK", {call.id})
      BY <1>1, <2>2, <3>1, FinishRefines
    <3>5. tabLeases' = Atomic!Add(tabLeases, call.id, Forever)
      BY <3>1 DEF RememberTab, Atomic!Add, With
    <3>6. CASE call.how = "extra"
      <4>1. Atomic!CreateTab(c, call.id, TRUE)
        BY <1>3, <3>1, <3>2, <3>3, <3>4, <3>5, <3>6, Zenon DEF RememberTab, Atomic!CreateTab
      <4>2. QED
        BY <1>3, <2>1, <4>1 DEF Atomic!Serve
    <3>7. CASE call.how # "extra"
      <4>1. Atomic!CreateTab(c, call.id, FALSE)
        BY <1>3, <3>1, <3>2, <3>3, <3>4, <3>5, <3>7, Zenon DEF RememberTab, Atomic!CreateTab
      <4>2. QED
        BY <1>3, <2>1, <4>1 DEF Atomic!Serve
    <3>8. QED
      BY <3>6, <3>7
  <2>3. CASE resp.ret # "OK"
    <3>1. UNCHANGED books /\ Finish({})
      BY <1>5, <2>3 DEF ReturnNewWebTab
    <3>2. /\ resp.ret = "EXEC_ERROR"
          /\ call.how = "extra" => extraTabId # NoId
          /\ call.how = "any" => Atomic!Cardinality(Atomic!Normal) >= MaxTabs
      BY <1>1, <1>4, <2>1, <2>3, SameCardinality DEF RepliesTrue
    <3>3. Atomic!RefuseTab(c, call.how)
      <4>1. Atomic!Say(c, "EXEC_ERROR", {})
        BY <1>1, <3>1, <3>2, FinishRefines
      <4>2. QED
        BY <1>3, <2>1, <3>2, <4>1, Zenon DEF Atomic!RefuseTab, Places
    <3>4. QED
      BY <1>3, <2>1, <3>3 DEF Atomic!Serve, Places
  <2>4. QED
    BY <2>2, <2>3
<1>6. ASSUME call.op \in TabOps \cup {"KillTab"}
      PROVE  /\ call.id \in Tabs
             /\ resp = [ret |-> IF hasTab(call.id) THEN "OK" ELSE "INVALID_TAB", body |-> {}]
  BY <1>1, <1>3, <1>6, CommandFields DEF RepliesTrue
<1>7. ASSUME call.op \in TabOps \cup {"KillTab"}, UNCHANGED books, Finish({})
      PROVE  Atomic!Serve(c)
  <2>1. CASE hasTab(call.id)
    <3>1. Atomic!Use(c, call.id)
      BY <1>1, <1>3, <1>6, <1>7, <2>1, FinishRefines DEF Atomic!Use, hasTab
    <3>2. QED
      BY <1>6, <1>7, <3>1 DEF Atomic!Serve
  <2>2. CASE ~hasTab(call.id)
    <3>1. Atomic!NoSuchTab(c, call.id)
      BY <1>1, <1>3, <1>6, <1>7, <2>2, FinishRefines DEF Atomic!NoSuchTab, hasTab
    <3>2. QED
      BY <1>6, <1>7, <3>1 DEF Atomic!Serve
  <2>3. QED
    BY <2>1, <2>2
<1>8. CASE ReturnKillTab
  <2>1. call.op = "KillTab" /\ Finish({})
    BY <1>8 DEF ReturnKillTab, Returning
  <2>2. CASE resp.ret = "OK" /\ call.how = "force"
    <3>1. ForgetTab(call.id)
      BY <1>8, <2>2 DEF ReturnKillTab
    <3>2. call.id \in Tabs /\ call.id \in DOMAIN tabLeases
      BY <1>6, <2>1, <2>2 DEF hasTab
    <3>3. Atomic!Answer(c, "OK", {})
      BY <1>1, <2>1, <2>2, FinishRefines
    <3>4. Atomic!Kill(c, call.id)
      BY <1>3, <3>1, <3>2, <3>3
         DEF ForgetTab, Atomic!Kill, Atomic!TakeAway, Atomic!Remove, Without
    <3>5. QED
      BY <1>3, <3>2, <3>4 DEF Atomic!Serve
  <2>3. CASE ~(resp.ret = "OK" /\ call.how = "force")
    <3>1. UNCHANGED books
      BY <1>8, <2>3 DEF ReturnKillTab
    <3>2. QED
      BY <1>3, <1>7, <2>1, <3>1
  <2>4. QED
    BY <2>2, <2>3
<1>9. CASE ReturnAnswer
  <2>1. /\ call.op \in TabOps \cup {"GetTabMap", "GetShortcuts"}
        /\ UNCHANGED books /\ Finish(resp.body)
    BY <1>9 DEF ReturnAnswer, Returning
  <2>2. CASE call.op \in TabOps
    <3>1. resp.body = {}
      BY <1>6, <2>2
    <3>2. QED
      BY <1>3, <1>7, <2>1, <2>2, <3>1
  <2>3. CASE call.op = "GetTabMap"
    <3>1. Atomic!TabMap(c)
      BY <1>1, <1>3, <1>4, <2>1, <2>3, FinishRefines DEF RepliesTrue, Atomic!TabMap
    <3>2. QED
      BY <1>3, <3>1 DEF Atomic!Serve
  <2>4. CASE call.op = "GetShortcuts"
    <3>1. Atomic!ShortcutList(c)
      BY <1>1, <1>3, <2>1, <2>4, FinishRefines DEF RepliesTrue, Atomic!ShortcutList
    <3>2. QED
      BY <1>3, <3>1 DEF Atomic!Serve
  <2>5. QED
    BY <2>1, <2>2, <2>3, <2>4
<1>10. CASE ReturnNewShortcut
  <2>1. call.op = "NewShortcut" /\ call.id \in Shortcuts /\ call.how \in Places
    <3>1. call.op = "NewShortcut"
      BY <1>10 DEF ReturnNewShortcut, Returning
    <3>2. call \in Signal(Conns, {"NewShortcut"}, Shortcuts, Places)
      BY <1>3, <3>1 DEF Commands, Signal, TabOps
    <3>3. QED
      BY <3>1, <3>2 DEF Signal
  <2>2. CASE resp.ret = "OK"
    <3>1. /\ shortcutLeases' = With(shortcutLeases, call.id, Forever) /\ Finish({call.id})
          /\ UNCHANGED <<tabLeases, connectionTabs, extraTabId>>
      BY <1>10, <2>2 DEF ReturnNewShortcut
    <3>2. call.id \notin DOMAIN shortcutLeases
      BY <2>1 DEF IInv, MailboxTells
    <3>3. ShortcutsEnabled /\ Atomic!Cardinality(DOMAIN shortcutLeases) < MaxShortcuts
      BY <1>1, <2>1, <2>2, SameCardinality DEF RepliesTrue
    <3>4. Atomic!Answer(c, "OK", {call.id})
      BY <1>1, <2>2, <3>1, FinishRefines
    <3>5. Atomic!CreateShortcut(c, call.id)
      <4>1. shortcutLeases' = Atomic!Add(shortcutLeases, call.id, Forever)
        BY <3>1 DEF Atomic!Add, With
      <4>2. QED
        BY <1>3, <3>1, <3>2, <3>3, <3>4, <4>1, Zenon DEF Atomic!CreateShortcut
    <3>6. QED
      BY <1>3, <2>1, <3>5 DEF Atomic!Serve
  <2>3. CASE resp.ret # "OK"
    <3>1. UNCHANGED books /\ Finish({})
      BY <1>10, <2>3 DEF ReturnNewShortcut
    <3>2. /\ resp.ret = "EXEC_ERROR"
          /\ call.how = "any" => \/ ~ShortcutsEnabled
                                 \/ Atomic!Cardinality(DOMAIN shortcutLeases) >= MaxShortcuts
      BY <1>1, <2>1, <2>3, SameCardinality DEF RepliesTrue
    <3>3. Atomic!RefuseShortcut(c, call.how)
      <4>1. Atomic!Say(c, "EXEC_ERROR", {})
        BY <1>1, <3>1, <3>2, FinishRefines
      <4>2. QED
        BY <1>3, <3>2, <4>1, Zenon DEF Atomic!RefuseShortcut
    <3>4. QED
      BY <1>3, <2>1, <3>3 DEF Atomic!Serve, Places
  <2>4. QED
    BY <2>2, <2>3
<1>11. CASE ReturnKillShortcut
  <2>1. /\ call.op = "KillShortcut" /\ Finish({})
        /\ shortcutLeases' = IF resp.ret = "OK" THEN Without(shortcutLeases, call.id)
                                                ELSE shortcutLeases
        /\ UNCHANGED <<tabLeases, connectionTabs, extraTabId>>
    BY <1>11 DEF ReturnKillShortcut, Returning
  <2>2. /\ call.id \in Shortcuts
        /\ resp.ret = IF call.id \in DOMAIN shortcutLeases THEN "OK" ELSE "INVALID_TAB"
    BY <1>1, <1>3, <2>1, CommandFields DEF RepliesTrue
  <2>3. CASE call.id \in DOMAIN shortcutLeases
    <3>1. Atomic!KillCut(c, call.id)
      BY <1>1, <1>3, <2>1, <2>2, <2>3, FinishRefines DEF Atomic!KillCut, Atomic!Remove, Without
    <3>2. QED
      BY <1>3, <2>2, <3>1 DEF Atomic!Serve
  <2>4. CASE call.id \notin DOMAIN shortcutLeases
    <3>1. Atomic!NoSuchShortcut(c, call.id)
      BY <1>1, <1>3, <2>1, <2>2, <2>4, FinishRefines DEF Atomic!NoSuchShortcut, books
    <3>2. QED
      BY <1>3, <2>2, <3>1 DEF Atomic!Serve
  <2>5. QED
    BY <2>3, <2>4
<1>12. QED
  BY <1>5, <1>8, <1>9, <1>10, <1>11 DEF Return

\* A connection opens with nothing, and its end takes nothing that is not swept.
LEMMA ConnectionRefines ==
  ASSUME IInv
  PROVE  /\ \A c \in Conns : Accept(c) => Atomic!Connect(c)
         /\ \A c \in Conns : Close(c) => Atomic!Disconnect(c)
         /\ EraseConnection => Unseen
<1>1. ASSUME NEW c \in Conns, Accept(c)
      PROVE  Atomic!Connect(c)
  <2>1. closing = Nobody /\ c # Nobody /\ c \notin conns
    BY <1>1, IdsAssumption DEF Accept, Idle
  <2>2. connectionTabs[c] = {}
    BY <2>1 DEF IInv, OwnersSound
  <2>3. QED
    BY <1>1, <2>1, <2>2 DEF Accept, books, Atomic!Connect
<1>2. ASSUME NEW c \in Conns, Close(c)
      PROVE  Atomic!Disconnect(c)
  BY <1>2 DEF Close, books, Atomic!Disconnect
<1>3. ASSUME EraseConnection
      PROVE  Unseen
  <2>1. closing \in Conns /\ connectionTabs[closing] = {}
    BY <1>3 DEF EraseConnection, IInv, TypeOK, ClosingSweeps
  <2>2. connectionTabs' = connectionTabs
    BY <1>3, <2>1 DEF EraseConnection, IInv, TypeOK
  <2>3. QED
    BY <1>3, <2>2 DEF EraseConnection, Unseen
<1>4. QED
  BY <1>1, <1>2, <1>3

\* What is swept is taken away for its lease or its connection.
LEMMA SweepRefines ==
  ASSUME IInv, SweepsAreDue
  PROVE  /\ \A t \in Tabs : SweepTab(t) => Atomic!Drop(t)
         /\ \A s \in Shortcuts : SweepShortcut(s) => Atomic!DropCut(s)
<1>1. ASSUME NEW t \in Tabs, SweepTab(t)
      PROVE  Atomic!Drop(t)
  <2>1. /\ t \in doomed /\ ForgetTab(t) /\ UNCHANGED <<conns, answer, browserUp>>
    BY <1>1 DEF SweepTab
  <2>2. t \in DOMAIN tabLeases
    BY <2>1, KeysApart DEF IInv, KillsAreDue
  <2>3. tabLeases[t] = 0 \/ \E c \in Conns \ conns : t \in connectionTabs[c]
    BY <2>1 DEF SweepsAreDue, IInv, TypeOK, ClosingSweeps
  <2>4. QED
    BY <2>1, <2>2, <2>3 DEF ForgetTab, Without, Atomic!Drop, Atomic!TakeAway, Atomic!Remove
<1>2. ASSUME NEW s \in Shortcuts, SweepShortcut(s)
      PROVE  Atomic!DropCut(s)
  <2>1. s \in DOMAIN shortcutLeases /\ shortcutLeases[s] = 0
    BY <1>2, KeysApart DEF SweepShortcut, SweepsAreDue, IInv, KillsAreDue
  <2>2. QED
    BY <1>2, <2>1 DEF SweepShortcut, Without, Atomic!DropCut, Atomic!Remove
<1>3. QED
  BY <1>1, <1>2

\* The server, the GUI and the queue between them implement Terminal, for any number
\* of clients, tabs and shortcuts and any limits.
THEOREM TwoThreadsAreOne == Spec => ImplementsTerminal
<1>1. Init => Atomic!Init
  BY DEF Init, EmptyMap, Atomic!Init
<1>2. RefinementInv /\ [Next]_vars => [Atomic!Next]_(Atomic!vars)
  <2> SUFFICES ASSUME RefinementInv, [Next]_vars
               PROVE  Unseen \/ Atomic!Next
    BY DEF Unseen, Atomic!vars
  <2>1. IInv /\ SweepsAreDue /\ RepliesTrue
    BY DEF RefinementInv
  <2>2. CASE UNCHANGED vars
    BY <2>2 DEF vars, books, Unseen
  <2>3. ASSUME NEW c \in Conns, Accept(c) \/ Close(c) \/ Request(c)
        PROVE  Unseen \/ Atomic!Next
    BY <2>1, <2>3, ConnectionRefines, RequestRefines DEF Atomic!Next
  <2>4. CASE EraseConnection \/ GuiStep \/ Prune
    BY <2>1, <2>4, ConnectionRefines, GuiUnseen DEF Prune, books, Unseen
  <2>5. CASE Return
    BY <2>1, <2>5, ReturnRefines DEF Atomic!Next
  <2>6. CASE Sweep
    BY <2>1, <2>6, SweepRefines DEF Sweep, Atomic!Next
  <2>7. CASE Tick
    BY <2>7 DEF Tick, Elapse, Atomic!Next, Atomic!Tick, Atomic!Elapse
  <2>8. CASE BrowserReady
    BY <2>8 DEF BrowserReady, books, Atomic!Next, Atomic!SwitchOn
  <2>9. QED
    BY <2>2, <2>3, <2>4, <2>5, <2>6, <2>7, <2>8 DEF Next
<1>3. QED
  BY <1>1, <1>2, RefinementInvariant, PTL DEF Spec, ImplementsTerminal, Atomic!Spec
=============================================================================
