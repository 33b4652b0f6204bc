------------------------- MODULE WalletHistoryProofs -------------------------
(***************************************************************************)
(* Proofs about WalletHistory: what holds of an authority, an assertion or *)
(* a deferred authorization over the whole life of the chain, whatever was *)
(* closed and created again in between.                                    *)
(***************************************************************************)
EXTENDS WalletHistory, WalletProofs

\* Everything a passkey has signed names a slot and a counter.
SignedTyped == \A a \in signed : a.slot \in Nat /\ a.counter \in Nat

\* What an authority in place has accepted is at or below its counter.
AcceptedCounted ==
    \A e \in accepted : /\ e[1] \in AuthorityPda
                        /\ auth[e[1]] # NoAccount
                        /\ e[2].counter \in Nat
                        /\ e[2].counter <= auth[e[1]].counter

\* No assertion is accepted before the slot it names.
FirstNotEarly ==
    \A a \in DOMAIN first : /\ first[a] \in Nat /\ a.slot \in Nat
                            /\ a.slot <= first[a]

\* The deferred authorizations of wallet w that are open for batch b.
Open(w, b) ==
    {d \in DeferredPda : /\ deferred[d] # NoAccount
                         /\ d[1][1] = w
                         /\ deferred[d].batch = b}

\* Each of them is still owed to the wallet.
OpenOwed ==
    /\ owed \in [Wallets -> [Batches -> Int]]
    /\ \A w \in Wallets, b \in Batches : Cardinality(Open(w, b)) <= owed[w][b]

\* A deferred authorization ends MAX_EXPIRY_SLOTS after its authority was
\* last in place.
OpenEnds ==
    /\ gone \in [AuthorityPda -> Nat \cup {Never}]
    /\ \A d \in DeferredPda : deferred[d] # NoAccount =>
         /\ deferred[d].expires_at <= slot + MAX_EXPIRY_SLOTS
         /\ gone[d[1]] # Never =>
              deferred[d].expires_at <= gone[d[1]] + MAX_EXPIRY_SLOTS

HInv == /\ IInv
        /\ SignedTyped
        /\ AcceptedCounted
        /\ FirstNotEarly
        /\ OpenOwed
        /\ OpenEnds

-----------------------------------------------------------------------------
(***************************************************************************)
(* What a step does to the counters.                                       *)
(***************************************************************************)
\* x accepts the passkey assertion c in this step.
Consumes(x, c) ==
    /\ x \in AuthorityPda /\ c \in signed
    /\ FreshSlot(c.slot)
    /\ c.counter = auth[x].counter + 1
    /\ x = <<c.wallet, c.key>>
    /\ auth'[x] # NoAccount => auth'[x].counter = c.counter
    /\ landed'.by = x /\ landed'.with = c

CountersGrow ==
    \A y \in AuthorityPda : auth[y] # NoAccount /\ auth'[y] # NoAccount =>
        auth[y].counter <= auth'[y].counter

\* What Authenticate establishes when the credential is an assertion.
LEMMA AuthenticatedBy ==
    ASSUME AInv, NEW x \in AuthorityPda, auth[x] # NoAccount,
           NEW c, NEW op, NEW body, NEW p, Authenticate(x, c, op, body, p),
           c # TxSigner
    PROVE  /\ c \in signed /\ FreshSlot(c.slot)
           /\ auth[x].authority_type = SECP256R1
           /\ auth[x].counter < U32_MAX
           /\ c.counter = auth[x].counter + 1
           /\ x = <<c.wallet, c.key>>
           /\ c.body = body
<1>1. /\ c \in signed /\ FreshSlot(c.slot)
      /\ auth[x].authority_type = SECP256R1
      /\ auth[x].counter < U32_MAX
      /\ c = Challenge(op, body, p, auth[x].wallet, x[2], c.slot,
                       auth[x].counter + 1)
  BY DEF Authenticate
<1>2. /\ c.wallet = auth[x].wallet /\ c.key = x[2]
      /\ c.counter = auth[x].counter + 1
      /\ c.body = body
  BY <1>1 DEF Challenge
<1>3. auth[x].wallet = x[1] /\ x = <<x[1], x[2]>>
  BY DEF AInv, AuthorityPda
<1> QED
  BY <1>1, <1>2, <1>3

\* The counter a header holds after authentication.
LEMMA CountedCounter ==
    ASSUME NEW h \in AuthorityAccountHeader
    PROVE  /\ Counted(h).counter \in Nat
           /\ h.counter \in Nat
           /\ h.counter <= Counted(h).counter
           /\ h.authority_type = SECP256R1 => Counted(h).counter = h.counter + 1
BY ConstantsAssumption DEF Counted, AuthorityAccountHeader

\* An authority that stays in place has committed the counter it was asked
\* for.
LEMMA Committed ==
    ASSUME AInv, NEW x \in AuthorityPda, auth[x] # NoAccount,
           NEW c, NEW op, NEW body, NEW p, Authenticate(x, c, op, body, p),
           auth'[x] # NoAccount => auth'[x] = Counted(auth[x]),
           \A y \in AuthorityPda \ {x} :
               auth[y] # NoAccount /\ auth'[y] # NoAccount => auth'[y] = auth[y],
           landed'.by = x, landed'.with = c
    PROVE  /\ CountersGrow
           /\ c # TxSigner => Consumes(x, c)
<1>1. \A y \in AuthorityPda : auth[y] # NoAccount =>
         auth[y] \in AuthorityAccountHeader
  BY DEF AInv
<1>2. \A y \in AuthorityPda : auth[y] # NoAccount =>
         /\ auth[y].counter \in Nat
         /\ auth[y].counter <= Counted(auth[y]).counter
  BY <1>1, CountedCounter
<1>3. CountersGrow
  BY <1>2 DEF CountersGrow
<1>4. ASSUME c # TxSigner PROVE Consumes(x, c)
  <2>1. /\ c \in signed /\ FreshSlot(c.slot)
        /\ auth[x].authority_type = SECP256R1
        /\ c.counter = auth[x].counter + 1
        /\ x = <<c.wallet, c.key>>
    BY <1>4, AuthenticatedBy
  <2>2. Counted(auth[x]).counter = auth[x].counter + 1
    BY <1>1, <2>1, CountedCounter
  <2> QED
    BY <2>1, <2>2 DEF Consumes
<1> QED
  BY <1>3, <1>4

\* Every instruction an authority signs either needs no assertion or
\* consumes the one it came with.
LEMMA ManagedCounts ==
    ASSUME IInv, NEW w \in Wallets, NEW x \in AuthorityPda, NEW c,
           NEW p \in Payers, Managed(w, x, c, p)
    PROVE  /\ CountersGrow
           /\ c # TxSigner => Consumes(x, c)
           /\ landed'.by = x /\ landed'.with = c
           /\ slot' = slot /\ signed' = signed
<1> DEFINE Goal == /\ CountersGrow
                   /\ c # TxSigner => Consumes(x, c)
                   /\ landed'.by = x /\ landed'.with = c
                   /\ slot' = slot /\ signed' = signed
<1>0. AInv
  BY IInvParts
<1>1. ASSUME NEW k \in Keys, NEW r \in 0 .. RANK_MAX + 1,
             NEW policy \in BOOLEAN, AddAuthority(w, x, c, p, k, r, policy)
      PROVE  Goal
  <2> DEFINE t == <<w, k>>
             h == NewHeader(w, k, r, policy)
  <2>1. /\ auth[x] # NoAccount /\ auth[t] = NoAccount /\ t \in AuthorityPda
        /\ auth' = [auth EXCEPT ![x] = Counted(@), ![t] = h]
        /\ landed'.by = x /\ landed'.with = c
        /\ slot' = slot /\ signed' = signed
    BY <1>1 DEF AddAuthority, ActsOn, Landed, AuthorityPda
  <2>2. Authenticate(x, c, "AddAuthority", <<k, r, policy>>, p)
    BY <1>1 DEF AddAuthority
  <2> HIDE DEF t, h
  <2>3. /\ auth'[x] = Counted(auth[x])
        /\ \A y \in AuthorityPda \ {x} :
              auth[y] # NoAccount => auth'[y] = auth[y]
    BY <1>0, <2>1 DEF AInv
  <2> QED
    BY Zenon, <1>0, <2>1, <2>2, <2>3, Committed
<1>2. ASSUME NEW t \in AuthorityPda, RemoveAuthority(w, x, c, p, t)
      PROVE  Goal
  <2>1. /\ auth[x] # NoAccount /\ t # x
        /\ auth' = [auth EXCEPT ![x] = Counted(@), ![t] = NoAccount]
        /\ landed'.by = x /\ landed'.with = c
        /\ slot' = slot /\ signed' = signed
    BY <1>2 DEF RemoveAuthority, ActsOn, Landed
  <2>2. Authenticate(x, c, "RemoveAuthority", <<t>>, p)
    BY <1>2 DEF RemoveAuthority
  <2>3. /\ auth'[x] = Counted(auth[x])
        /\ \A y \in AuthorityPda \ {x} :
              auth'[y] # NoAccount => auth'[y] = auth[y]
    BY <1>0, <2>1 DEF AInv
  <2> QED
    BY Zenon, <1>0, <2>1, <2>2, <2>3, Committed
<1>3. ASSUME NEW k \in Keys, TransferOwnership(w, x, c, p, k)
      PROVE  Goal
  <2> DEFINE t == <<w, k>>
             h == NewHeader(w, k, RANK_OWNER, FALSE)
  <2>1. /\ auth[x] # NoAccount /\ auth[t] = NoAccount /\ t \in AuthorityPda
        /\ auth' = [auth EXCEPT ![t] = h, ![x] = NoAccount]
        /\ landed'.by = x /\ landed'.with = c
        /\ slot' = slot /\ signed' = signed
    BY <1>3 DEF TransferOwnership, ActsOn, Landed, AuthorityPda
  <2>2. Authenticate(x, c, "TransferOwnership", <<k>>, p)
    BY <1>3 DEF TransferOwnership
  <2> HIDE DEF t, h
  <2>3. /\ auth'[x] = NoAccount
        /\ \A y \in AuthorityPda \ {x} :
              auth[y] # NoAccount => auth'[y] = auth[y]
    BY <1>0, <2>1 DEF AInv
  <2> QED
    BY Zenon, <1>0, <2>1, <2>2, <2>3, Committed
<1>4. ASSUME NEW op, NEW body, ActsOn(x, w), Authenticate(x, c, op, body, p),
             auth' = [auth EXCEPT ![x] = Counted(@)],
             landed'.by = x, landed'.with = c, slot' = slot, signed' = signed
      PROVE  Goal
  <2>1. /\ auth[x] # NoAccount
        /\ auth'[x] = Counted(auth[x])
        /\ \A y \in AuthorityPda \ {x} : auth'[y] = auth[y]
    BY <1>0, <1>4 DEF AInv, ActsOn
  <2> QED
    BY <1>0, <1>4, <2>1, Committed
<1>5. ASSUME NEW sk \in SessionKeys,
             NEW e \in 0 .. MaxSlot + MAX_SESSION_SLOTS + 1,
             CreateSession(w, x, c, p, sk, e)
      PROVE  Goal
  BY <1>4, <1>5 DEF CreateSession, Landed
<1>6. ASSUME NEW s \in SessionPda, RevokeSession(w, x, c, p, s)
      PROVE  Goal
  BY <1>4, <1>6 DEF RevokeSession, Landed
<1>7. ASSUME NEW batch \in Batches, ExecuteByAuthority(w, x, c, p, batch)
      PROVE  Goal
  BY <1>4, <1>7 DEF ExecuteByAuthority, Landed
<1>8. ASSUME NEW batch \in Batches, NEW offset \in 0 .. MAX_EXPIRY_SLOTS + 1,
             Authorize(w, x, c, p, batch, offset)
      PROVE  Goal
  BY <1>4, <1>8 DEF Authorize, Landed
<1>9. Existing(auth) \subseteq AuthorityPda /\ Existing(session) \subseteq SessionPda
  BY DEF IInv, TypeOK, Existing
<1> QED
  BY <1>1, <1>2, <1>3, <1>5, <1>6, <1>7, <1>8, <1>9 DEF Managed

\* The same of every step, and what it leaves of the clock and of signed.
LEMMA NextCounts ==
    ASSUME IInv, Next, SignedTyped
    PROVE  /\ CountersGrow
           /\ \A a \in Assertion : Consumes(landed'.by, a)
           /\ SignedTyped'
<1> DEFINE Goal == /\ CountersGrow
                   /\ \A a \in Assertion : Consumes(landed'.by, a)
                   /\ SignedTyped'
<1>1. ASSUME NEW w \in Existing(wallet), NEW x \in Existing(auth),
             NEW p \in Payers, NEW c \in Credentials(x), Managed(w, x, c, p)
      PROVE  Goal
  <2>1. w \in Wallets /\ x \in AuthorityPda
    BY DEF IInv, TypeOK, Existing
  <2>2. /\ CountersGrow
        /\ c # TxSigner => Consumes(x, c)
        /\ landed'.by = x /\ landed'.with = c
        /\ slot' = slot /\ signed' = signed
    BY <1>1, <2>1, ManagedCounts
  <2> QED
    BY <2>2 DEF Assertion, SignedTyped
<1>2. ASSUME NEW w \in Wallets, NEW k \in Keys, CreateWallet(w, k)
      PROVE  Goal
  <2> DEFINE t == <<w, k>>
             h == NewHeader(w, k, RANK_OWNER, FALSE)
  <2>1. /\ auth[t] = NoAccount /\ auth' = [auth EXCEPT ![t] = h]
        /\ landed'.with = TxSigner /\ signed' = signed
    BY <1>2 DEF CreateWallet, Landed
  <2> HIDE DEF t, h
  <2>2. \A y \in AuthorityPda : auth[y] # NoAccount =>
           auth'[y] = auth[y] /\ auth[y].counter \in Nat
    BY <2>1, ConstantsAssumption DEF IInv, TypeOK, AuthorityAccountHeader
  <2> QED
    BY <2>1, <2>2 DEF Assertion, SignedTyped, CountersGrow
<1>3. ASSUME auth' = auth, signed' = signed, landed'.with = TxSigner
      PROVE  Goal
  <2>1. \A y \in AuthorityPda : auth[y] # NoAccount => auth[y].counter \in Nat
    BY ConstantsAssumption DEF IInv, TypeOK, AuthorityAccountHeader
  <2> QED
    BY <1>3, <2>1 DEF Assertion, SignedTyped, CountersGrow
<1>4. CASE Unmanaged
  BY <1>2, <1>3, <1>4
     DEF Unmanaged, CloseExpiredSession, ExecuteBySession, ExecuteDeferred,
         ReclaimDeferred, Landed
<1>5. ASSUME NEW w \in Wallets, NEW k \in Passkeys, Sign(w, k)
      PROVE  Goal
  <2> DEFINE t == <<w, k>>
  <2>1. PICK req \in Requests, p \in Payers :
           signed' = signed \cup {Challenge(req[1], req[2], p, w, k, slot,
                                            auth[t].counter + 1)}
    BY <1>5 DEF Sign
  <2>2. /\ auth[t] # NoAccount /\ auth' = auth /\ landed'.with = TxSigner
        /\ t \in AuthorityPda
    BY <1>5 DEF Sign, Nobody, AuthorityPda, Keys
  <2>3. \A y \in AuthorityPda : auth[y] # NoAccount => auth[y].counter \in Nat
    BY ConstantsAssumption DEF IInv, TypeOK, AuthorityAccountHeader
  <2> HIDE DEF t
  <2>4. slot \in Nat /\ auth[t].counter + 1 \in Nat
    BY <2>2, <2>3, ConstantsAssumption DEF IInv, TypeOK
  <2>5. SignedTyped'
    BY <2>1, <2>4 DEF SignedTyped, Challenge
  <2> QED
    BY <2>2, <2>3, <2>5 DEF Assertion, CountersGrow
<1>6. CASE Tick
  BY <1>3, <1>6 DEF Tick, Nobody
<1> QED
  BY <1>1, <1>4, <1>5, <1>6 DEF Next

-----------------------------------------------------------------------------
(***************************************************************************)
(* The observer's record.                                                  *)
(***************************************************************************)
\* What was accepted stays at or below the counter in place.
LEMMA AcceptedStep ==
    ASSUME IInv, IInv', SignedTyped, AcceptedCounted, Next, Record
    PROVE  AcceptedCounted'
<1>1. /\ CountersGrow
      /\ \A a \in Assertion : Consumes(landed'.by, a)
  BY NextCounts
<1>2. \A y \in AuthorityPda : /\ auth[y] # NoAccount => auth[y].counter \in Nat
                              /\ auth'[y] # NoAccount => auth'[y].counter \in Nat
  BY ConstantsAssumption DEF IInv, TypeOK, AuthorityAccountHeader
<1> SUFFICES ASSUME NEW e \in accepted'
             PROVE  /\ e[1] \in AuthorityPda
                    /\ auth'[e[1]] # NoAccount
                    /\ e[2].counter \in Nat
                    /\ e[2].counter <= auth'[e[1]].counter
  BY DEF AcceptedCounted
<1>3. /\ e \in accepted \cup {<<landed'.by, a>> : a \in Assertion}
      /\ auth'[e[1]] # NoAccount
  BY DEF Record
<1>4. CASE e \in accepted
  BY <1>1, <1>2, <1>3, <1>4 DEF AcceptedCounted, CountersGrow
<1>5. ASSUME NEW a \in Assertion, e = <<landed'.by, a>>
      PROVE  /\ e[1] \in AuthorityPda
             /\ e[2].counter \in Nat
             /\ e[2].counter <= auth'[e[1]].counter
  <2>1. e[1] = landed'.by /\ e[2] = a
    BY <1>5
  <2> QED
    BY <1>1, <1>2, <1>3, <2>1 DEF Consumes
<1> QED
  BY <1>3, <1>4, <1>5

\* An assertion's first acceptance is not before the slot it names.
LEMMA FirstStep ==
    ASSUME IInv, SignedTyped, FirstNotEarly, Next, Record
    PROVE  FirstNotEarly'
<1>1. \A a \in Assertion : a \in signed /\ a.slot <= slot
  BY NextCounts DEF Consumes, FreshSlot
<1>2. slot \in Nat
  BY ConstantsAssumption DEF IInv, TypeOK
<1>3. first' = [a \in DOMAIN first \cup Assertion |->
                  IF a \in DOMAIN first THEN first[a] ELSE slot]
  BY DEF Record
<1> QED
  BY <1>1, <1>2, <1>3 DEF FirstNotEarly, SignedTyped

-----------------------------------------------------------------------------
(***************************************************************************)
(* Deferred authorizations: opened by Authorize, closed by ExecuteDeferred *)
(* and ReclaimDeferred, and left alone by everything else.                 *)
(***************************************************************************)
LeftAlone ==
    /\ deferred' = deferred
    /\ landed'.op # "Authorize" /\ landed'.op # "ExecuteDeferred"

\* An account for batch b is opened at d.
Opened(d, b) ==
    /\ d \in DeferredPda /\ b \in Batches
    /\ deferred[d] = NoAccount
    /\ \A y \in DeferredPda \ {d} : deferred'[y] = deferred[y]
    /\ deferred'[d] # NoAccount
    /\ deferred'[d].batch = b
    /\ deferred'[d].expires_at <= slot + MAX_EXPIRY_SLOTS
    /\ auth'[d[1]] # NoAccount
    /\ landed'.op = "Authorize"
    /\ landed'.by = d[1] /\ landed'.with.body[1] = b

\* The account at d is closed, by a run of its batch if op says so.
Closed(d, op) ==
    /\ d \in DeferredPda
    /\ deferred[d] # NoAccount
    /\ \A y \in DeferredPda \ {d} : deferred'[y] = deferred[y]
    /\ deferred'[d] = NoAccount
    /\ op = "ExecuteDeferred" => slot <= deferred[d].expires_at
    /\ landed'.op = op /\ landed'.by = d

\* Authorize opens one account, at an address of its own authority.
LEMMA AuthorizeOpens ==
    ASSUME IInv, NEW w \in Wallets, NEW x \in AuthorityPda, NEW c,
           NEW p \in Payers, NEW batch \in Batches,
           NEW offset \in 0 .. MAX_EXPIRY_SLOTS + 1,
           Authorize(w, x, c, p, batch, offset)
    PROVE  \E d \in DeferredPda : Opened(d, batch)
<1> DEFINE pda == <<x, auth[x].counter + 1>>
           rec == [batch |-> batch, wallet |-> w, authority |-> x,
                   payer |-> p, expires_at |-> slot + offset]
<1>1. /\ auth[x] # NoAccount /\ auth[x].authority_type = SECP256R1
      /\ auth[x] \in AuthorityAccountHeader
      /\ Authenticate(x, c, "Authorize", <<batch, offset>>, p)
      /\ offset \in MIN_EXPIRY_SLOTS .. MAX_EXPIRY_SLOTS
      /\ deferred[pda] = NoAccount
      /\ deferred' = [deferred EXCEPT ![pda] = rec]
      /\ auth' = [auth EXCEPT ![x] = Counted(@)]
      /\ landed'.op = "Authorize" /\ landed'.by = x /\ landed'.with = c
  BY DEF Authorize, ActsOn, Landed, IInv, TypeOK
<1>2. /\ auth[x].counter < U32_MAX
      /\ c = Challenge("Authorize", <<batch, offset>>, p, auth[x].wallet, x[2],
                       c.slot, auth[x].counter + 1)
  BY <1>1 DEF Authenticate, ED25519, SECP256R1
<1>3. c.body[1] = batch
  BY <1>2 DEF Challenge
<1>4. auth[x].counter + 1 \in 1 .. U32_MAX
  BY <1>1, <1>2, ConstantsAssumption DEF AuthorityAccountHeader
<1>5. pda \in DeferredPda /\ pda[1] = x
  BY <1>4 DEF DeferredPda
<1>6. slot + offset \in Nat /\ slot + offset <= slot + MAX_EXPIRY_SLOTS
  BY <1>1, ConstantsAssumption DEF IInv, TypeOK
<1>7. rec \in DeferredExecAccount /\ rec.batch = batch
      /\ rec.expires_at = slot + offset
  BY <1>6 DEF DeferredExecAccount
<1>8. rec # NoAccount
  BY <1>7, ConstantsAssumption
<1>9. auth'[x] # NoAccount
  <2>1. Counted(auth[x]) \in AuthorityAccountHeader
    BY <1>1, <1>2, CountedHeader
  <2> QED
    BY <1>1, <2>1, ConstantsAssumption DEF IInv, TypeOK
<1> HIDE DEF pda, rec
<1>10. /\ deferred'[pda] = rec
       /\ \A y \in DeferredPda \ {pda} : deferred'[y] = deferred[y]
  BY <1>1, <1>5 DEF IInv, TypeOK
<1>11. Opened(pda, batch)
  BY <1>1, <1>3, <1>5, <1>6, <1>7, <1>8, <1>9, <1>10 DEF Opened
<1> QED
  BY <1>5, <1>11

\* What a step does to the deferred authorizations.
LEMMA NextDeferred ==
    ASSUME IInv, Next
    PROVE  \/ LeftAlone
           \/ \E d \in DeferredPda, b \in Batches : Opened(d, b)
           \/ \E d \in DeferredPda : \/ Closed(d, "ExecuteDeferred")
                                     \/ Closed(d, "ReclaimDeferred")
<1> DEFINE Goal == \/ LeftAlone
                   \/ \E d \in DeferredPda, b \in Batches : Opened(d, b)
                   \/ \E d \in DeferredPda : \/ Closed(d, "ExecuteDeferred")
                                             \/ Closed(d, "ReclaimDeferred")
<1>1. ASSUME NEW w \in Existing(wallet), NEW x \in Existing(auth),
             NEW p \in Payers, NEW c \in Credentials(x), Managed(w, x, c, p)
      PROVE  Goal
  <2>1. w \in Wallets /\ x \in AuthorityPda
    BY DEF IInv, TypeOK, Existing
  <2>2. ASSUME NEW batch \in Batches,
               NEW offset \in 0 .. MAX_EXPIRY_SLOTS + 1,
               Authorize(w, x, c, p, batch, offset)
        PROVE  Goal
    BY <2>1, <2>2, AuthorizeOpens
  <2>3. ASSUME NEW k, NEW r, NEW policy, AddAuthority(w, x, c, p, k, r, policy)
        PROVE  LeftAlone
    BY <2>3 DEF AddAuthority, Landed, LeftAlone
  <2>4. ASSUME NEW t, RemoveAuthority(w, x, c, p, t)
        PROVE  LeftAlone
    BY <2>4 DEF RemoveAuthority, Landed, LeftAlone
  <2>5. ASSUME NEW k, TransferOwnership(w, x, c, p, k)
        PROVE  LeftAlone
    BY <2>5 DEF TransferOwnership, Landed, LeftAlone
  <2>6. ASSUME NEW sk, NEW e, CreateSession(w, x, c, p, sk, e)
        PROVE  LeftAlone
    BY <2>6 DEF CreateSession, Landed, LeftAlone
  <2>7. ASSUME NEW s, RevokeSession(w, x, c, p, s)
        PROVE  LeftAlone
    BY <2>7 DEF RevokeSession, Landed, LeftAlone
  <2>8. ASSUME NEW batch, ExecuteByAuthority(w, x, c, p, batch)
        PROVE  LeftAlone
    BY <2>8 DEF ExecuteByAuthority, Landed, LeftAlone
  <2> QED
    BY <1>1, <2>2, <2>3, <2>4, <2>5, <2>6, <2>7, <2>8 DEF Managed
<1>2. ASSUME NEW w \in Existing(wallet), NEW d \in Existing(deferred),
             NEW batch \in Batches, ExecuteDeferred(w, d, batch)
      PROVE  Goal
  <2>1. d \in DeferredPda
    BY DEF IInv, TypeOK, Existing
  <2>2. Closed(d, "ExecuteDeferred")
    BY <1>2, <2>1 DEF ExecuteDeferred, Landed, Closed, IInv, TypeOK
  <2> QED
    BY <2>1, <2>2
<1>3. ASSUME NEW p \in Payers, NEW d \in Existing(deferred),
             ReclaimDeferred(p, d)
      PROVE  Goal
  <2>1. d \in DeferredPda
    BY DEF IInv, TypeOK, Existing
  <2>2. Closed(d, "ReclaimDeferred")
    BY <1>3, <2>1 DEF ReclaimDeferred, Landed, Closed, IInv, TypeOK
  <2> QED
    BY <2>1, <2>2
<1>4. CASE Unmanaged
  <2>1. ASSUME NEW w, NEW k, CreateWallet(w, k) PROVE LeftAlone
    BY <2>1 DEF CreateWallet, Landed, LeftAlone
  <2>2. ASSUME NEW s, CloseExpiredSession(s) PROVE LeftAlone
    BY <2>2 DEF CloseExpiredSession, Landed, LeftAlone
  <2>3. ASSUME NEW w, NEW s, NEW sk, ExecuteBySession(w, s, sk) PROVE LeftAlone
    BY <2>3 DEF ExecuteBySession, Landed, LeftAlone
  <2> QED
    BY <1>2, <1>3, <1>4, <2>1, <2>2, <2>3 DEF Unmanaged
<1>5. ASSUME NEW w, NEW k, Sign(w, k) PROVE LeftAlone
  BY <1>5 DEF Sign, Nobody, LeftAlone
<1>6. CASE Tick
  BY <1>6 DEF Tick, Nobody, LeftAlone
<1> QED
  BY <1>1, <1>4, <1>5, <1>6 DEF Next

\* There are finitely many addresses, so the open accounts can be counted.
LEMMA OpenFinite ==
    ASSUME NEW w, NEW b
    PROVE  IsFiniteSet(Open(w, b)) /\ Cardinality(Open(w, b)) \in Nat
<1>1. IsFiniteSet(AuthorityPda)
  BY ConstantsAssumption, FS_Product DEF AuthorityPda
<1>2. IsFiniteSet(1 .. U32_MAX)
  BY ConstantsAssumption, FS_Interval
<1>3. IsFiniteSet(DeferredPda)
  BY Zenon, <1>1, <1>2, FS_Product DEF DeferredPda
<1>4. IsFiniteSet(Open(w, b))
  BY <1>3, FS_Subset DEF Open
<1> QED
  BY <1>4, FS_CardinalityType

\* Each open account stays owed to its wallet.
LEMMA OwedStep ==
    ASSUME IInv, OpenOwed, Next, Record
    PROVE  OpenOwed'
<1>1. CASE LeftAlone
  <2>1. owed' = owed
    BY <1>1 DEF Record, LeftAlone
  <2>2. \A w \in Wallets, b \in Batches : Open(w, b)' = Open(w, b)
    BY <1>1 DEF LeftAlone, Open
  <2> QED
    BY <2>1, <2>2 DEF OpenOwed
<1>2. ASSUME NEW d \in DeferredPda, NEW b \in Batches, Opened(d, b)
      PROVE  OpenOwed'
  <2> DEFINE v == d[1][1]
  <2>1. v \in Wallets
    BY DEF DeferredPda, AuthorityPda
  <2>2. owed' = [owed EXCEPT ![v][b] = @ + 1]
    BY <1>2 DEF Record, Opened
  <2>3. Open(v, b)' = Open(v, b) \cup {d} /\ d \notin Open(v, b)
    BY <1>2 DEF Opened, Open
  <2>4. \A w \in Wallets, a \in Batches : w # v \/ a # b =>
           Open(w, a)' = Open(w, a)
    BY <1>2 DEF Opened, Open
  <2>5. Cardinality(Open(v, b)') = Cardinality(Open(v, b)) + 1
    BY Zenon, <2>3, OpenFinite, FS_AddElement
  <2> HIDE DEF v
  <2>6. /\ owed' \in [Wallets -> [Batches -> Int]]
        /\ owed'[v][b] = owed[v][b] + 1
        /\ \A w \in Wallets, a \in Batches : w # v \/ a # b =>
             owed'[w][a] = owed[w][a]
    BY <2>1, <2>2 DEF OpenOwed
  <2>7. Cardinality(Open(v, b)') <= owed'[v][b]
    BY <2>1, <2>5, <2>6, OpenFinite DEF OpenOwed
  <2>8. \A w \in Wallets, a \in Batches : w # v \/ a # b =>
           Cardinality(Open(w, a)') <= owed'[w][a]
    BY <2>4, <2>6 DEF OpenOwed
  <2> QED
    BY <2>6, <2>7, <2>8 DEF OpenOwed
<1>3. ASSUME NEW d \in DeferredPda, Closed(d, "ExecuteDeferred")
      PROVE  OpenOwed'
  <2> DEFINE v == d[1][1]
  <2>0. PICK b \in Batches : deferred[d].batch = b
    BY <1>3 DEF Closed, IInv, TypeOK, DeferredExecAccount
  <2>1. v \in Wallets
    BY DEF DeferredPda, AuthorityPda
  <2>2. owed' = [owed EXCEPT ![v][b] = @ - 1]
    BY <1>3, <2>0 DEF Record, Closed
  <2>3. Open(v, b)' = Open(v, b) \ {d} /\ d \in Open(v, b)
    BY <1>3, <2>0 DEF Closed, Open
  <2>4. \A w \in Wallets, a \in Batches : w # v \/ a # b =>
           Open(w, a)' = Open(w, a)
    BY <1>3, <2>0 DEF Closed, Open
  <2>5. Cardinality(Open(v, b)') = Cardinality(Open(v, b)) - 1
    <3>1. ASSUME NEW S, IsFiniteSet(S), NEW e \in S
          PROVE  Cardinality(S \ {e}) = Cardinality(S) - 1
      BY Zenon, <3>1, FS_RemoveElement
    <3>2. IsFiniteSet(Open(v, b))
      BY OpenFinite
    <3>3. Cardinality(Open(v, b) \ {d}) = Cardinality(Open(v, b)) - 1
      BY <2>3, <3>1, <3>2
    <3> QED
      BY <2>3, <3>3
  <2> HIDE DEF v
  <2>6. /\ owed' \in [Wallets -> [Batches -> Int]]
        /\ owed'[v][b] = owed[v][b] - 1
        /\ \A w \in Wallets, a \in Batches : w # v \/ a # b =>
             owed'[w][a] = owed[w][a]
    BY <2>1, <2>2 DEF OpenOwed
  <2>7. Cardinality(Open(v, b)') <= owed'[v][b]
    BY <2>1, <2>5, <2>6, OpenFinite DEF OpenOwed
  <2>8. \A w \in Wallets, a \in Batches : w # v \/ a # b =>
           Cardinality(Open(w, a)') <= owed'[w][a]
    BY <2>4, <2>6 DEF OpenOwed
  <2> QED
    BY <2>6, <2>7, <2>8 DEF OpenOwed
<1>4. ASSUME NEW d \in DeferredPda, Closed(d, "ReclaimDeferred")
      PROVE  OpenOwed'
  <2>1. owed' = owed
    BY <1>4 DEF Record, Closed
  <2>2. ASSUME NEW w \in Wallets, NEW b \in Batches
        PROVE  Cardinality(Open(w, b)') <= owed[w][b]
    <3>1. Open(w, b)' \subseteq Open(w, b)
      BY <1>4 DEF Closed, Open
    <3>2. /\ Cardinality(Open(w, b)') <= Cardinality(Open(w, b))
          /\ Cardinality(Open(w, b)') \in Nat
      BY <3>1, OpenFinite, FS_Subset, FS_CardinalityType
    <3> QED
      BY <3>2, OpenFinite DEF OpenOwed
  <2> QED
    BY <2>1, <2>2 DEF OpenOwed
<1> QED
  BY <1>1, <1>2, <1>3, <1>4, NextDeferred

\* The clock does not move while an account is opened or closed, and never
\* goes back.
LEMMA NextSlot ==
    ASSUME IInv, IInv', Next
    PROVE  /\ slot \in Nat /\ slot' \in Nat /\ slot <= slot'
           /\ slot' # slot => auth' = auth
<1>1. slot \in Nat /\ slot' \in Nat
  BY ConstantsAssumption DEF IInv, TypeOK
<1>2. ASSUME NEW w \in Existing(wallet), NEW x \in Existing(auth),
             NEW p \in Payers, NEW c \in Credentials(x), Managed(w, x, c, p)
      PROVE  slot' = slot
  <2>1. w \in Wallets /\ x \in AuthorityPda
    BY DEF IInv, TypeOK, Existing
  <2> QED
    BY <1>2, <2>1, ManagedCounts
<1>3. Unmanaged => slot' = slot
  BY Zenon DEF Unmanaged, CreateWallet, CloseExpiredSession, ExecuteBySession,
         ExecuteDeferred, ReclaimDeferred
<1>4. \A w, k : Sign(w, k) => slot' = slot
  BY DEF Sign
<1>5. Tick => slot' = slot + 1 /\ auth' = auth
  BY DEF Tick
<1> QED
  BY <1>1, <1>2, <1>3, <1>4, <1>5 DEF Next

\* A deferred authorization keeps ending within MAX_EXPIRY_SLOTS of the last
\* slot its authority was in place.
LEMMA EndsStep ==
    ASSUME IInv, IInv', OpenEnds, Next, Record
    PROVE  OpenEnds'
<1>1. /\ slot \in Nat /\ slot' \in Nat /\ slot <= slot'
      /\ MAX_EXPIRY_SLOTS \in Nat
  BY NextSlot, ConstantsAssumption
<1>2. gone' = [x \in AuthorityPda |->
                 IF auth'[x] # NoAccount THEN Never
                 ELSE IF auth[x] # NoAccount THEN slot ELSE gone[x]]
  BY DEF Record
<1>3. gone' \in [AuthorityPda -> Nat \cup {Never}]
  BY <1>1, <1>2 DEF OpenEnds
<1>4. \A d \in DeferredPda : /\ d[1] \in AuthorityPda
                             /\ deferred[d] # NoAccount =>
                                  deferred[d].expires_at \in Nat
  BY DEF DeferredPda, IInv, TypeOK, DeferredExecAccount
<1> DEFINE Ends(d) == /\ deferred'[d].expires_at <= slot' + MAX_EXPIRY_SLOTS
                      /\ gone'[d[1]] # Never =>
                           deferred'[d].expires_at
                             <= gone'[d[1]] + MAX_EXPIRY_SLOTS
<1>5. ASSUME NEW d \in DeferredPda, deferred'[d] = deferred[d],
             deferred'[d] # NoAccount
      PROVE  Ends(d)
  <2>1. /\ deferred[d].expires_at <= slot + MAX_EXPIRY_SLOTS
        /\ gone[d[1]] # Never =>
             deferred[d].expires_at <= gone[d[1]] + MAX_EXPIRY_SLOTS
    BY <1>5 DEF OpenEnds
  <2>2. gone'[d[1]] # Never => gone'[d[1]] = slot \/ gone'[d[1]] = gone[d[1]]
    BY <1>2, <1>4
  <2>3. deferred[d].expires_at <= slot' + MAX_EXPIRY_SLOTS
    BY <1>1, <1>4, <1>5, <2>1
  <2> QED
    BY <1>5, <2>1, <2>2, <2>3
<1>6. ASSUME NEW d \in DeferredPda, NEW b \in Batches, Opened(d, b)
      PROVE  Ends(d)
  <2>1. gone'[d[1]] = Never
    BY <1>2, <1>4, <1>6 DEF Opened
  <2>2. deferred'[d].expires_at \in Nat
    BY <1>6 DEF Opened, IInv, TypeOK, DeferredExecAccount
  <2>3. deferred'[d].expires_at <= slot + MAX_EXPIRY_SLOTS
    BY <1>6 DEF Opened
  <2> QED
    BY <1>1, <2>1, <2>2, <2>3
<1>7. ASSUME NEW d \in DeferredPda, deferred'[d] # NoAccount
      PROVE  Ends(d)
  BY <1>5, <1>6, <1>7, NextDeferred DEF LeftAlone, Opened, Closed
<1> QED
  BY <1>3, <1>7 DEF OpenEnds

-----------------------------------------------------------------------------
(***************************************************************************)
(* The theorems.                                                           *)
(***************************************************************************)
\* The record starts empty, with nothing owed and nobody gone.
LEMMA InitHInv == HInit => HInv
<1> SUFFICES ASSUME HInit PROVE HInv
  OBVIOUS
<1>1. IInv
  BY InitIInv DEF HInit
<1>2. SignedTyped /\ AcceptedCounted /\ FirstNotEarly
  BY DEF HInit, Init, SignedTyped, AcceptedCounted, FirstNotEarly
<1>3. OpenOwed
  <2>1. \A w \in Wallets, b \in Batches : Open(w, b) = {}
    BY DEF HInit, Init, Open
  <2>2. \A w \in Wallets, b \in Batches : Cardinality(Open(w, b)) = 0
    BY <2>1, FS_EmptySet
  <2>3. owed = [w \in Wallets |-> [b \in Batches |-> 0]]
    BY DEF HInit
  <2> QED
    BY <2>2, <2>3 DEF OpenOwed
<1>4. OpenEnds
  BY DEF HInit, Init, OpenEnds
<1> QED
  BY <1>1, <1>2, <1>3, <1>4 DEF HInv

\* Every step of the chain, with what the observer notes of it.
LEMMA NextHInv == HInv /\ [HNext]_hvars => HInv'
<1> SUFFICES ASSUME HInv, [HNext]_hvars PROVE HInv'
  OBVIOUS
<1>1. CASE HNext
  <2>1. IInv'
    BY <1>1, NextIInv DEF HInv, HNext
  <2>2. SignedTyped' /\ AcceptedCounted' /\ FirstNotEarly'
    BY <1>1, <2>1, NextCounts, AcceptedStep, FirstStep DEF HInv, HNext
  <2>3. OpenOwed' /\ OpenEnds'
    BY <1>1, <2>1, OwedStep, EndsStep DEF HInv, HNext
  <2> QED
    BY <2>1, <2>2, <2>3 DEF HInv
<1>2. CASE UNCHANGED hvars
  <2>1. IInv'
    BY <1>2, NextIInv DEF HInv, hvars, vars
  <2>2. SignedTyped' /\ AcceptedCounted' /\ FirstNotEarly'
    BY <1>2 DEF HInv, hvars, SignedTyped, AcceptedCounted, FirstNotEarly
  <2>3. OpenOwed' /\ OpenEnds'
    BY <1>2 DEF HInv, hvars, OpenOwed, OpenEnds, Open
  <2> QED
    BY <2>1, <2>2, <2>3 DEF HInv
<1> QED
  BY <1>1, <1>2

\* The inductive invariant: counters dominate what was accepted, no
\* assertion is accepted early, every open deferred authorization is owed
\* and ends in time.
THEOREM HistoryInductive == HSpec => []HInv
<1> QED
  BY InitHInv, NextHInv, PTL DEF HSpec

\* The odometer: an authority account accepts each assertion at most once in
\* its life, and only those its own key signed for its own wallet.
THEOREM NoReplay == HSpec => AcceptedOncePerLife
<1>1. HInv /\ HNext => AcceptsNew
  <2> SUFFICES ASSUME HInv, HNext, NEW a \in Assertion
               PROVE  /\ <<landed'.by, a>> \notin accepted
                      /\ landed'.by = <<a.wallet, a.key>>
    BY Zenon DEF AcceptsNew
  <2>1. Consumes(landed'.by, a)
    BY NextCounts DEF HInv, HNext
  <2>2. a.counter \in Nat /\ a.counter = auth[landed'.by].counter + 1
    BY <2>1 DEF Consumes, HInv, SignedTyped
  <2>3. ASSUME <<landed'.by, a>> \in accepted PROVE FALSE
    <3>1. /\ auth[landed'.by] # NoAccount
          /\ a.counter <= auth[landed'.by].counter
      BY <2>3 DEF HInv, AcceptedCounted
    <3>2. auth[landed'.by].counter \in Nat
      BY <2>1, <3>1, ConstantsAssumption
         DEF Consumes, HInv, IInv, TypeOK, AuthorityAccountHeader
    <3> QED
      BY <2>2, <3>1, <3>2
  <2> QED
    BY <2>1, <2>3 DEF Consumes
<1>2. HInv /\ [HNext]_hvars => [AcceptsNew]_hvars
  BY <1>1
<1> QED
  BY <1>2, HistoryInductive, PTL DEF HSpec, AcceptedOncePerLife

\* When a passkey was removed and added again, its old assertions can be
\* accepted a second time for less than MAX_SLOT_AGE slots.
THEOREM ReplayIsBrief == HSpec => ReplayBounded
<1>1. HInv /\ HNext => ReplaysSoon
  <2> SUFFICES ASSUME HInv, HNext, NEW a \in Assertion, a \in DOMAIN first
               PROVE  slot - first[a] < MAX_SLOT_AGE
    BY DEF ReplaysSoon
  <2>1. slot - a.slot < MAX_SLOT_AGE
    BY NextCounts DEF HInv, HNext, Consumes, FreshSlot
  <2>2. first[a] \in Nat /\ a.slot \in Nat /\ a.slot <= first[a]
    BY DEF HInv, FirstNotEarly
  <2>3. slot \in Nat /\ MAX_SLOT_AGE \in Nat
    BY ConstantsAssumption DEF HInv, IInv, TypeOK
  <2> QED
    BY <2>1, <2>2, <2>3
<1>2. HInv /\ [HNext]_hvars => [ReplaysSoon]_hvars
  BY <1>1
<1> QED
  BY <1>2, HistoryInductive, PTL DEF HSpec, ReplayBounded

\* No batch is run by ExecuteDeferred more often than Authorize was signed
\* for it, however addresses are closed and used again.
THEOREM DeferredRunsOnce == HSpec => []DeferredAtMostOnce
<1>1. HInv => DeferredAtMostOnce
  <2> SUFFICES ASSUME HInv, NEW w \in Wallets, NEW b \in Batches
               PROVE  owed[w][b] >= 0
    BY DEF DeferredAtMostOnce
  <2>1. Cardinality(Open(w, b)) \in Nat
    BY OpenFinite
  <2>2. Cardinality(Open(w, b)) <= owed[w][b] /\ owed[w][b] \in Int
    BY DEF HInv, OpenOwed
  <2> QED
    BY <2>1, <2>2
<1> QED
  BY <1>1, HistoryInductive, PTL

\* ExecuteDeferred runs a removed authority's batch at most
\* MAX_EXPIRY_SLOTS after the removal.
THEOREM DeferredEnds == HSpec => DeferredOutlivesBounded
<1>1. HInv /\ HNext => OutlivesBriefly
  <2> SUFFICES ASSUME HInv, HNext, landed'.op = "ExecuteDeferred",
                      gone[landed'.by[1]] # Never
               PROVE  slot - gone[landed'.by[1]] <= MAX_EXPIRY_SLOTS
    BY DEF OutlivesBriefly
  <2>1. PICK d \in DeferredPda : Closed(d, "ExecuteDeferred")
    BY NextDeferred DEF HInv, HNext, LeftAlone, Opened, Closed
  <2>2. /\ slot <= deferred[d].expires_at
        /\ deferred[d].expires_at <= gone[d[1]] + MAX_EXPIRY_SLOTS
        /\ landed'.by = d
    BY <2>1 DEF Closed, HInv, OpenEnds
  <2>3. gone[d[1]] \in Nat
    BY <2>2 DEF HInv, OpenEnds, DeferredPda
  <2>4. deferred[d].expires_at \in Nat /\ slot \in Nat
        /\ MAX_EXPIRY_SLOTS \in Nat
    BY <2>1, ConstantsAssumption
       DEF Closed, HInv, IInv, TypeOK, DeferredExecAccount
  <2> QED
    BY <2>2, <2>3, <2>4
<1>2. HInv /\ [HNext]_hvars => [OutlivesBriefly]_hvars
  BY <1>1
<1> QED
  BY <1>2, HistoryInductive, PTL DEF HSpec, DeferredOutlivesBounded
=============================================================================
