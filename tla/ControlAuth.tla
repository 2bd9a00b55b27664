---------------------------- MODULE ControlAuth ----------------------------
(***************************************************************************)
(* Who may stop the terminal: the nonces of GetRandom and the tokens of    *)
(* Stop, Restart and CaptureScreenshot, when controlPsk is configured (a   *)
(* plain password keeps no state and is left out).                         *)
(*                                                                         *)
(* A client asks for a nonce, signs a token for one operation with it and  *)
(* sends the token, at any later time, any number of times, over any       *)
(* connection.  The server thread handles one request at a time and prunes *)
(* its nonces from a timer.  An HMAC is modelled by what it proves: the    *)
(* server accepts a token only if its signer knew the key and signed this  *)
(* nonce and this operation.                                               *)
(***************************************************************************)
EXTENDS Integers

CONSTANTS
  NonceIds,     \* what generate_uuid may return
  Ttl,          \* controlNonceTtlSeconds
  MaxTime       \* bound: how far the clock runs

ASSUME TimesAssumption == Ttl \in Nat \ {0} /\ MaxTime \in Nat

Operations == {"Stop", "Restart", "CaptureScreenshot"}
Tokens == [nonceId : NonceIds, op : Operations, signed : BOOLEAN]

VARIABLES
  now,           \* steady_clock
  controlNonces, \* nonce id -> [expiresAt, used]
  issuedAt,      \* history: nonce id -> when GetRandom answered it, or -1
  granted,       \* history: nonce id -> how many requests it authorised
  grantedAt      \* history: nonce id -> when it last did

vars == <<now, controlNonces, issuedAt, granted, grantedAt>>

Nonces == [expiresAt : Int, used : BOOLEAN]
Known == DOMAIN controlNonces
Issued == {id \in NonceIds : issuedAt[id] >= 0}

Without(f, ids) == [x \in DOMAIN f \ ids |-> f[x]]
With(f, id, v) == [x \in DOMAIN f \cup {id} |-> IF x = id THEN v ELSE f[x]]

Init ==
  /\ now = 0
  /\ controlNonces = [id \in {} |-> [expiresAt |-> 0, used |-> FALSE]]
  /\ issuedAt = [id \in NonceIds |-> -1]
  /\ granted = [id \in NonceIds |-> 0]
  /\ grantedAt = [id \in NonceIds |-> 0]

----------------------------------------------------------------------------
\* handleGetRandom, under an id that was never used.
GetRandom(id) ==
  /\ id \notin Issued /\ now + Ttl <= MaxTime
  /\ controlNonces' = With(controlNonces, id, [expiresAt |-> now + Ttl, used |-> FALSE])
  /\ issuedAt' = [issuedAt EXCEPT ![id] = now]
  /\ UNCHANGED <<now, granted, grantedAt>>

\* Faulty: the expiry is left to the pruning.
GoodUntilPruned(id) == id \in Known /\ ~controlNonces[id].used

\* authorizeControlRequest: the nonce exists, is unused and has not expired.
Good(id) ==
  /\ id \in Known
  /\ ~controlNonces[id].used
  /\ controlNonces[id].expiresAt >= now

Authentic(token, op) == token.signed /\ token.op = op

\* Faulty: any refusal forgets the nonce.
RefuseForgetting(token, op) ==
  /\ ~(Good(token.nonceId) /\ Authentic(token, op))
  /\ controlNonces' = Without(controlNonces, {token.nonceId})
  /\ UNCHANGED <<now, issuedAt, granted, grantedAt>>

\* A nonce that is no longer good is forgotten; one that is good survives a
\* token that was not signed for it.
Refuse(token, op) ==
  /\ ~(Good(token.nonceId) /\ Authentic(token, op))
  /\ controlNonces' = IF Good(token.nonceId)
                        THEN controlNonces
                        ELSE Without(controlNonces, {token.nonceId})
  /\ UNCHANGED <<now, issuedAt, granted, grantedAt>>

\* Faulty: the nonce is not marked.
GrantUnmarked(token, op) ==
  /\ Good(token.nonceId) /\ Authentic(token, op)
  /\ granted' = [granted EXCEPT ![token.nonceId] = @ + 1]
  /\ grantedAt' = [grantedAt EXCEPT ![token.nonceId] = now]
  /\ UNCHANGED <<now, controlNonces, issuedAt>>

\* The request is authorised and its nonce marked, whatever the handler then
\* makes of the request (CaptureScreenshot may still refuse its fileName).
Grant(token, op) ==
  LET id == token.nonceId
  IN /\ Good(id) /\ Authentic(token, op)
     /\ controlNonces' = With(controlNonces, id,
                              [expiresAt |-> controlNonces[id].expiresAt, used |-> TRUE])
     /\ granted' = [granted EXCEPT ![id] = @ + 1]
     /\ grantedAt' = [grantedAt EXCEPT ![id] = now]
     /\ UNCHANGED <<now, issuedAt>>

Spent == {id \in Known : controlNonces[id].used}
Expired == {id \in Known : controlNonces[id].expiresAt <= now}

\* Faulty: only the spent nonces are pruned.
PruneSpent ==
  /\ Spent # {}
  /\ controlNonces' = Without(controlNonces, Spent)
  /\ UNCHANGED <<now, issuedAt, granted, grantedAt>>

\* The end of pruneExpiredTabs, once a second.
Prune ==
  /\ Spent \cup Expired # {}
  /\ controlNonces' = Without(controlNonces, Spent \cup Expired)
  /\ UNCHANGED <<now, issuedAt, granted, grantedAt>>

Tick ==
  /\ now < MaxTime
  /\ now' = now + 1
  /\ UNCHANGED <<controlNonces, issuedAt, granted, grantedAt>>

Next ==
  \/ \E id \in NonceIds : GetRandom(id)
  \/ \E token \in Tokens, op \in Operations : Grant(token, op) \/ Refuse(token, op)
  \/ Prune
  \/ Tick

Spec == Init /\ [][Next]_vars

\* The cleanup timer fires and the clock runs; clients may do nothing.
FairSpec == Spec /\ WF_vars(Prune) /\ WF_vars(Tick)

----------------------------------------------------------------------------
(* Properties *)

\* Every variable has the type of the C++ object it stands for.
TypeOK ==
  /\ now \in Nat
  /\ Known \subseteq Issued
  /\ controlNonces \in [Known -> Nonces]
  /\ \A id \in Known : controlNonces[id].expiresAt \in 0..MaxTime
  /\ issuedAt \in [NonceIds -> Int]
  /\ granted \in [NonceIds -> Nat]
  /\ grantedAt \in [NonceIds -> Int]

\* A nonce authorises one request in the whole life of the server, however its
\* tokens are resent and whenever it is pruned (madt-server.cpp, used).
OncePerNonce == \A id \in NonceIds : granted[id] <= 1

\* It does so only within the ttl its answer named, pruned in time or not
\* (madt-server.cpp, expiresAt).
GrantedInTime ==
  \A id \in NonceIds :
    granted[id] > 0 => grantedAt[id] \in issuedAt[id]..(issuedAt[id] + Ttl)

\* And within that ttl it stays good until it is used: neither pruning nor other
\* clients' requests, wrong or right, spoil it.
GoodForItsTtl ==
  \A id \in Issued :
    granted[id] = 0 /\ now < issuedAt[id] + Ttl => Good(id)

\* No nonce is kept for ever, used or not.
ForgottenAtLast == \A id \in NonceIds : id \in Known ~> id \notin Known
============================================================================
