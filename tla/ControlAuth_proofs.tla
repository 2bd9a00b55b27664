------------------------- MODULE ControlAuth_proofs -------------------------
(***************************************************************************)
(* ControlAuth for any number of nonces, any ttl and any clock bound.      *)
(*                                                                         *)
(* What the properties say of a nonce that was granted is about the past,  *)
(* and the nonce may be gone from the server's map, so none of them is     *)
(* inductive.  NonceSound ties the map to the history: an entry still      *)
(* known has the expiry of its issue and is marked exactly when it was     *)
(* granted, and an entry that is not known was granted or has run out.     *)
(***************************************************************************)
EXTENDS ControlAuth, TLAPS

NonceSound(id) ==
  /\ issuedAt[id] <= now
  /\ id \notin Issued => granted[id] = 0
  /\ id \in Known => /\ controlNonces[id].expiresAt = issuedAt[id] + Ttl
                     /\ controlNonces[id].expiresAt <= MaxTime
                     /\ controlNonces[id].used <=> granted[id] > 0
  /\ granted[id] <= 1
  /\ granted[id] > 0 => /\ issuedAt[id] <= grantedAt[id]
                        /\ grantedAt[id] <= issuedAt[id] + Ttl
  /\ id \in Issued /\ granted[id] = 0 /\ now < issuedAt[id] + Ttl => id \in Known

Types ==
  /\ now \in Nat
  /\ Known \subseteq Issued
  /\ controlNonces \in [Known -> Nonces]
  /\ issuedAt \in [NonceIds -> Int]
  /\ granted \in [NonceIds -> Nat]
  /\ grantedAt \in [NonceIds -> Int]

NonceInv == Types /\ \A id \in NonceIds : NonceSound(id)

LEMMA InitNonces == Init => NonceInv
  BY TimesAssumption DEF Init, NonceInv, NonceSound, Types, Known, Issued, Nonces

\* Taking entries that are spent or that have run out from the map harms no nonce.
LEMMA ForgettingIsSound ==
  ASSUME NonceInv, NEW ids,
         \A id \in ids : id \in Known => controlNonces[id].used
                                         \/ controlNonces[id].expiresAt <= now,
         controlNonces' = Without(controlNonces, ids),
         UNCHANGED <<now, issuedAt, granted, grantedAt>>
  PROVE  NonceInv'
<1>1. Known' = Known \ ids
  BY DEF Without, Known
<1>2. \A id \in Known' : controlNonces'[id] = controlNonces[id]
  BY <1>1 DEF Without, Known
<1>3. Types'
  BY <1>1, <1>2 DEF NonceInv, Types, Without, Known, Issued
<1>4. ASSUME NEW id \in NonceIds
      PROVE  NonceSound(id)'
  <2>1. NonceSound(id)
    BY DEF NonceInv
  <2>2. id \in Known /\ granted[id] = 0 /\ now < issuedAt[id] + Ttl => id \notin ids
    BY <2>1, TimesAssumption DEF NonceInv, Types, NonceSound, Issued
  <2>3. QED
    BY <1>1, <1>2, <2>1, <2>2, TimesAssumption DEF NonceSound, Issued, NonceInv, Types
<1>5. QED
  BY <1>3, <1>4 DEF NonceInv

LEMMA GetRandomIsSound ==
  ASSUME NonceInv, NEW n \in NonceIds, GetRandom(n)
  PROVE  NonceInv'
<1>1. Known' = Known \cup {n} /\ n \in Issued' /\ Issued \subseteq Issued'
      /\ issuedAt' \in [NonceIds -> Int] /\ issuedAt'[n] = now
      /\ \A id \in NonceIds \ {n} : issuedAt'[id] = issuedAt[id]
  BY DEF GetRandom, With, Known, Issued, NonceInv, Types
<1>2. controlNonces'[n] = [expiresAt |-> now + Ttl, used |-> FALSE]
  BY DEF GetRandom, With, Known
<1>3. \A id \in Known \ {n} : controlNonces'[id] = controlNonces[id]
  BY DEF GetRandom, With, Known
<1>4. Types'
  <2>1. controlNonces' \in [Known' -> Nonces]
    BY <1>1, <1>2, <1>3, TimesAssumption DEF GetRandom, With, Known, NonceInv, Types, Nonces
  <2>2. QED
    BY <1>1, <2>1 DEF GetRandom, NonceInv, Types
<1>5. ASSUME NEW id \in NonceIds
      PROVE  NonceSound(id)'
  <2>1. NonceSound(id)
    BY DEF NonceInv
  <2>2. CASE id = n
    BY <1>1, <1>2, <2>1, <2>2, TimesAssumption DEF NonceSound, GetRandom, Issued, NonceInv, Types
  <2>3. CASE id # n
    BY <1>1, <1>3, <2>1, <2>3 DEF NonceSound, GetRandom, Issued
  <2>4. QED
    BY <2>2, <2>3
<1>6. QED
  BY <1>4, <1>5 DEF NonceInv

LEMMA GrantIsSound ==
  ASSUME NonceInv, NEW token \in Tokens, NEW op \in Operations, Grant(token, op)
  PROVE  NonceInv'
<1> DEFINE n == token.nonceId
<1>1. n \in NonceIds /\ n \in Known /\ ~controlNonces[n].used
      /\ now <= controlNonces[n].expiresAt
  BY DEF Tokens, Grant, Good, NonceInv, Types, Nonces
<1>2. NonceSound(n) /\ granted[n] = 0 /\ controlNonces[n] \in Nonces
  BY <1>1 DEF NonceInv, NonceSound, Types
<1>3. Known' = Known
  BY <1>1 DEF Grant, With, Known
<1>4. controlNonces'[n] = [expiresAt |-> controlNonces[n].expiresAt, used |-> TRUE]
  BY <1>1 DEF Grant, With, Known
<1>5. \A id \in Known \ {n} : controlNonces'[id] = controlNonces[id]
  BY DEF Grant, With, Known
<1>6. /\ granted'[n] = 1 /\ grantedAt'[n] = now
      /\ granted' \in [NonceIds -> Nat] /\ grantedAt' \in [NonceIds -> Int]
      /\ \A id \in NonceIds \ {n} : granted'[id] = granted[id] /\ grantedAt'[id] = grantedAt[id]
  BY <1>1, <1>2 DEF Grant, NonceInv, Types
<1>7. Types'
  <2>1. controlNonces' \in [Known' -> Nonces]
    BY <1>1, <1>2, <1>3, <1>4, <1>5 DEF Grant, With, Known, NonceInv, Types, Nonces
  <2>2. UNCHANGED <<now, issuedAt>>
    BY DEF Grant
  <2>3. now' \in Nat /\ Known' \subseteq Issued' /\ issuedAt' \in [NonceIds -> Int]
    BY <1>3, <2>2 DEF NonceInv, Types, Issued
  <2>4. QED
    BY <1>6, <2>1, <2>3 DEF Types
<1>8. ASSUME NEW id \in NonceIds
      PROVE  NonceSound(id)'
  <2>1. NonceSound(id)
    BY DEF NonceInv
  <2>2. CASE id = n
    BY <1>1, <1>2, <1>3, <1>4, <1>6, <2>2, TimesAssumption
       DEF NonceSound, Grant, Issued, NonceInv, Types, Nonces
  <2>3. CASE id # n
    BY <1>3, <1>5, <1>6, <2>1, <2>3 DEF NonceSound, Grant, Issued
  <2>4. QED
    BY <2>2, <2>3
<1>9. QED
  BY <1>7, <1>8 DEF NonceInv

LEMMA RefuseIsSound ==
  ASSUME NonceInv, NEW token \in Tokens, NEW op \in Operations, Refuse(token, op)
  PROVE  NonceInv'
<1>1. CASE Good(token.nonceId)
  <2>1. UNCHANGED vars
    BY <1>1 DEF Refuse, vars
  <2>2. QED
    BY <2>1 DEF NonceInv, Types, NonceSound, Known, Issued, vars
<1>2. CASE ~Good(token.nonceId)
  <2>1. token.nonceId \in Known => controlNonces[token.nonceId].used
                                   \/ controlNonces[token.nonceId].expiresAt <= now
    BY <1>2 DEF Good, NonceInv, Types, Nonces
  <2>2. controlNonces' = Without(controlNonces, {token.nonceId})
        /\ UNCHANGED <<now, issuedAt, granted, grantedAt>>
    BY <1>2 DEF Refuse
  <2>3. QED
    BY <2>1, <2>2, ForgettingIsSound
<1>3. QED
  BY <1>1, <1>2

LEMMA TickIsSound ==
  ASSUME NonceInv, Tick
  PROVE  NonceInv'
<1>1. Known' = Known /\ Issued' = Issued /\ now' = now + 1
      /\ UNCHANGED <<controlNonces, issuedAt, granted, grantedAt>>
  BY DEF Tick, Known, Issued
<1>2. Types'
  BY <1>1 DEF NonceInv, Types
<1>3. ASSUME NEW id \in NonceIds
      PROVE  NonceSound(id)'
  <2>1. NonceSound(id)
    BY DEF NonceInv
  <2>2. QED
    BY <1>1, <2>1, TimesAssumption DEF NonceSound, NonceInv, Types
<1>4. QED
  BY <1>2, <1>3 DEF NonceInv

LEMMA StepKeepsNonces ==
  ASSUME NonceInv, [Next]_vars
  PROVE  NonceInv'
<1>1. CASE \E id \in NonceIds : GetRandom(id)
  BY <1>1, GetRandomIsSound
<1>2. CASE \E token \in Tokens, op \in Operations : Grant(token, op) \/ Refuse(token, op)
  BY <1>2, GrantIsSound, RefuseIsSound
<1>3. CASE Prune
  <2>1. \A id \in Spent \cup Expired : controlNonces[id].used
                                       \/ controlNonces[id].expiresAt <= now
    BY DEF Spent, Expired
  <2>2. controlNonces' = Without(controlNonces, Spent \cup Expired)
        /\ UNCHANGED <<now, issuedAt, granted, grantedAt>>
    BY <1>3 DEF Prune
  <2>3. QED
    BY <2>1, <2>2, ForgettingIsSound
<1>4. CASE Tick
  BY <1>4, TickIsSound
<1>5. CASE UNCHANGED vars
  BY <1>5 DEF NonceInv, Types, NonceSound, Known, Issued, vars
<1>6. QED
  BY <1>1, <1>2, <1>3, <1>4, <1>5 DEF Next

\* The map and the history of every nonce agree (madt-server.cpp,
\* authorizeControlRequest, handleGetRandom, pruneExpiredTabs).
THEOREM NonceInvariant == Spec => []NonceInv
<1>1. NonceInv /\ [Next]_vars => NonceInv'
  BY StepKeepsNonces
<1>2. QED
  BY InitNonces, <1>1, PTL DEF Spec

\* A nonce authorises at most one request, resent and pruned as it may be.
THEOREM NonceAuthorisesOnce == Spec => []OncePerNonce
<1>1. NonceInv => OncePerNonce
  BY DEF NonceInv, NonceSound, OncePerNonce
<1>2. QED
  BY NonceInvariant, <1>1, PTL

\* No request is authorised after the ttl of its nonce.
THEOREM NonceAuthorisesInTime == Spec => []GrantedInTime
<1>1. NonceInv => GrantedInTime
  BY TimesAssumption DEF NonceInv, NonceSound, Types, GrantedInTime
<1>2. QED
  BY NonceInvariant, <1>1, PTL

\* Within its ttl an unused nonce is always good.
THEOREM NonceGoodForItsTtl == Spec => []GoodForItsTtl
<1>1. ASSUME NonceInv PROVE GoodForItsTtl
  <2>1. SUFFICES ASSUME NEW id \in Issued, granted[id] = 0, now < issuedAt[id] + Ttl
                 PROVE  Good(id)
    BY DEF GoodForItsTtl
  <2>2. id \in NonceIds /\ NonceSound(id)
    BY <1>1 DEF NonceInv, Issued
  <2>3. QED
    BY <1>1, <2>1, <2>2, TimesAssumption DEF NonceSound, Good, NonceInv, Types, Nonces
<1>2. QED
  BY NonceInvariant, <1>1, PTL
============================================================================
