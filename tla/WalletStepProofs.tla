-------------------------- MODULE WalletStepProofs --------------------------
(***************************************************************************)
(* What one step of Wallet may do: an instruction keeps to the ranks its   *)
(* signer may manage, and to the accounts of one wallet.                   *)
(***************************************************************************)
EXTENDS WalletProofs

\* An instruction that only commits its signer's counter leaves every rank,
\* and every other authority, as it was.
LEMMA CountedShape ==
    ASSUME AInv, NEW w \in Wallets, NEW x \in AuthorityPda, ActsOn(x, w),
           NEW c, NEW op, NEW body, NEW p, Authenticate(x, c, op, body, p),
           auth' = [auth EXCEPT ![x] = Counted(@)]
    PROVE  /\ SameExcept({})
           /\ x[1] = w
           /\ \A y \in AuthorityPda \ {x} : auth'[y] = auth[y]
<1>1. auth[x] \in AuthorityAccountHeader
  BY DEF AInv, ActsOn
<1>2. /\ Counted(auth[x]) \in AuthorityAccountHeader
      /\ Counted(auth[x]).wallet = auth[x].wallet
      /\ Counted(auth[x]).role = auth[x].role
      /\ Counted(auth[x]).policy = auth[x].policy
  BY <1>1, CountedHeader, AuthenticatedRoom
<1>3. Counted(auth[x]) # NoAccount
  BY <1>2, ConstantsAssumption
<1> QED
  BY <1>2, <1>3 DEF SameExcept, AInv, ActsOn

\* AddAuthority: the new authority, and the signer's counter.
LEMMA AddedShape ==
    ASSUME AInv, NEW w \in Wallets, NEW x \in AuthorityPda, NEW c, NEW p,
           NEW k \in Keys, NEW r, NEW t, t = <<w, k>>,
           \E policy \in BOOLEAN : AddAuthority(w, x, c, p, k, r, policy)
    PROVE  /\ SameExcept({t}) /\ x[1] = w /\ t[1] = w
           /\ auth[t] = NoAccount /\ auth'[t].role = r
<1> PICK policy \in BOOLEAN : AddAuthority(w, x, c, p, k, r, policy)
  OBVIOUS
<1> DEFINE h == NewHeader(w, k, r, policy)
<1>1. /\ t \in AuthorityPda /\ auth[t] = NoAccount /\ t # x
      /\ x[1] = w /\ t[1] = w
  BY DEF AuthorityPda, AddAuthority, ActsOn, AInv
<1>2. auth[x] \in AuthorityAccountHeader /\ auth[x] # NoAccount
  BY DEF AInv, ActsOn, AddAuthority
<1>3. /\ Counted(auth[x]) \in AuthorityAccountHeader
      /\ Counted(auth[x]).wallet = auth[x].wallet
      /\ Counted(auth[x]).role = auth[x].role
      /\ Counted(auth[x]).policy = auth[x].policy
  BY <1>2, CountedHeader, AuthenticatedRoom DEF AddAuthority
<1>4. Counted(auth[x]) # NoAccount
  BY <1>3, ConstantsAssumption
<1>5. h.role = r
  BY DEF NewHeader
<1> HIDE DEF h
<1>6. auth' = [auth EXCEPT ![x] = Counted(@), ![t] = h]
  BY Zenon DEF AddAuthority, h
<1>7. /\ auth'[t] = h /\ auth'[x] = Counted(auth[x])
      /\ \A y \in AuthorityPda \ {x, t} : auth'[y] = auth[y]
  BY <1>1, <1>6 DEF AInv
<1>8. SameExcept({t})
  BY <1>2, <1>3, <1>4, <1>7 DEF SameExcept
<1> QED
  BY <1>1, <1>5, <1>7, <1>8

\* Neither is of another wallet.
LEMMA AddedInside ==
    ASSUME AInv, NEW w \in Wallets, NEW x \in AuthorityPda, NEW k \in Keys,
           ActsOn(x, w), NEW h, NEW g, auth' = [auth EXCEPT ![x] = g, ![<<w, k>>] = h]
    PROVE  x[1] = w /\ \A y \in AuthorityPda : y[1] # w => auth'[y] = auth[y]
<1> DEFINE t == <<w, k>>
<1>1. t[1] = w /\ auth' = [auth EXCEPT ![x] = g, ![t] = h]
  OBVIOUS
<1> HIDE DEF t
<1> QED
  BY <1>1 DEF ActsOn, AInv

\* RemoveAuthority: the target, and the signer's counter.
LEMMA RemovedShape ==
    ASSUME AInv, NEW w \in Wallets, NEW x \in AuthorityPda, NEW c, NEW p,
           NEW t \in AuthorityPda, RemoveAuthority(w, x, c, p, t)
    PROVE  /\ SameExcept({t})
           /\ x[1] = w /\ t[1] = w /\ t # x
           /\ auth'[t] = NoAccount
           /\ \A y \in AuthorityPda \ {x, t} : auth'[y] = auth[y]
<1>1. /\ auth[x] \in AuthorityAccountHeader /\ auth[x] # NoAccount
      /\ t # x /\ x[1] = w /\ t[1] = w
  BY DEF AInv, ActsOn, RemoveAuthority
<1>2. /\ Counted(auth[x]) \in AuthorityAccountHeader
      /\ Counted(auth[x]).wallet = auth[x].wallet
      /\ Counted(auth[x]).role = auth[x].role
      /\ Counted(auth[x]).policy = auth[x].policy
  BY <1>1, CountedHeader, AuthenticatedRoom DEF RemoveAuthority
<1>3. Counted(auth[x]) # NoAccount
  BY <1>2, ConstantsAssumption
<1>4. auth' = [auth EXCEPT ![x] = Counted(@), ![t] = NoAccount]
  BY DEF RemoveAuthority
<1>5. /\ auth'[t] = NoAccount /\ auth'[x] = Counted(auth[x])
      /\ \A y \in AuthorityPda \ {x, t} : auth'[y] = auth[y]
  BY <1>1, <1>4 DEF AInv
<1>6. SameExcept({t})
  BY <1>1, <1>2, <1>3, <1>5 DEF SameExcept
<1> QED
  BY <1>1, <1>5, <1>6

\* TransferOwnership: the signer's account gives way to the new Owner's.
LEMMA TransferShape ==
    ASSUME AInv, NEW w \in Wallets, NEW x \in AuthorityPda, NEW c, NEW p,
           NEW k \in Keys, TransferOwnership(w, x, c, p, k)
    PROVE  /\ x[1] = w /\ <<w, k>> \in AuthorityPda /\ <<w, k>> # x
           /\ auth[<<w, k>>] = NoAccount
           /\ auth'[<<w, k>>] # NoAccount
           /\ auth'[<<w, k>>].role = RANK_OWNER
           /\ \A y \in AuthorityPda : y # x /\ y # <<w, k>> => auth'[y] = auth[y]
           /\ \A y \in AuthorityPda : y[1] # w => auth'[y] = auth[y]
<1> DEFINE t == <<w, k>>
           h == NewHeader(w, k, RANK_OWNER, FALSE)
<1>1. /\ t \in AuthorityPda /\ auth[t] = NoAccount /\ t # x
      /\ x[1] = w /\ t[1] = w
  BY DEF AuthorityPda, TransferOwnership, ActsOn, AInv
<1>2. h \in AuthorityAccountHeader /\ h.role = RANK_OWNER
  BY Zenon, OwnerHeader
<1>3. h # NoAccount
  BY Zenon, <1>2, ConstantsAssumption
<1> HIDE DEF h
<1>4. auth' = [auth EXCEPT ![t] = h, ![x] = NoAccount]
  BY DEF TransferOwnership, h
<1> HIDE DEF t
<1>5. /\ auth'[t] = h
      /\ \A y \in AuthorityPda : y # x /\ y # t => auth'[y] = auth[y]
  BY <1>1, <1>4 DEF AInv
<1> QED
  BY <1>1, <1>2, <1>3, <1>5 DEF t
\* Every instruction an authority signs goes by the rank table.
LEMMA ManagedRanks ==
    ASSUME IInv, NEW w \in Wallets, NEW x \in AuthorityPda, NEW c,
           NEW p \in Payers, Managed(w, x, c, p)
    PROVE  RanksRespected
<1>0. AInv /\ SInv
  BY IInvParts
<1>1. ASSUME SameExcept({}) PROVE RanksRespected
  BY <1>1 DEF RanksRespected, SameExcept, Appears, Disappears
<1>2. ASSUME NEW k \in Keys, NEW r \in 0 .. RANK_MAX + 1,
             NEW policy \in BOOLEAN, AddAuthority(w, x, c, p, k, r, policy)
      PROVE  RanksRespected
  <2> DEFINE t == <<w, k>>
  <2>0. (\E b \in BOOLEAN : AddAuthority(w, x, c, p, k, r, b)) /\ t = <<w, k>>
    BY Zenon, <1>2
  <2> HIDE DEF t
  <2>1. /\ SameExcept({t}) /\ x[1] = w /\ t[1] = w
        /\ auth[t] = NoAccount /\ auth'[t].role = r
    BY <1>0, <2>0, AddedShape
  <2>2. can_add(auth[x].role, r) /\ auth[x] # NoAccount /\ landed'.by = x
    BY <1>2 DEF AddAuthority, ActsOn, Landed
  <2>3. \A y \in AuthorityPda : Appears(y) \/ Disappears(y) => y = t
    BY <2>1 DEF SameExcept, Appears, Disappears
  <2>4. Appears(t) => MayChange(x, t)
    BY <2>1, <2>2 DEF MayChange, can_add, Appears, Disappears
  <2> QED
    BY <2>1, <2>2, <2>3, <2>4 DEF RanksRespected, Disappears
<1>3. ASSUME NEW t \in AuthorityPda, RemoveAuthority(w, x, c, p, t)
      PROVE  RanksRespected
  <2>1. /\ SameExcept({t}) /\ x[1] = w /\ t[1] = w /\ t # x
        /\ auth'[t] = NoAccount
    BY <1>0, <1>3, RemovedShape
  <2>2. /\ can_remove(auth[x].role, auth[t].role, wallet[w])
        /\ auth[x] # NoAccount /\ landed'.by = x
    BY <1>3 DEF RemoveAuthority, ActsOn, Landed
  <2>3. \A y \in AuthorityPda : Appears(y) \/ Disappears(y) => y = t
    BY <2>1 DEF SameExcept, Appears, Disappears
  <2>4. Disappears(t) => MayChange(x, t)
    BY <2>1, <2>2 DEF MayChange, can_remove, Appears, Disappears
  <2> QED
    BY <2>1, <2>2, <2>3, <2>4 DEF RanksRespected, Appears
<1>4. ASSUME NEW k \in Keys, TransferOwnership(w, x, c, p, k)
      PROVE  RanksRespected
  <2> DEFINE t == <<w, k>>
  <2>1. /\ x[1] = w /\ t[1] = w /\ t \in AuthorityPda /\ t # x
        /\ auth[t] = NoAccount /\ auth'[t] # NoAccount
        /\ auth'[t].role = RANK_OWNER
        /\ \A y \in AuthorityPda : y # x /\ y # t => auth'[y] = auth[y]
    BY <1>0, <1>4, TransferShape
  <2>2. auth[x].role = RANK_OWNER /\ auth[x] # NoAccount /\ landed'.by = x
    BY <1>4 DEF TransferOwnership, ActsOn, Landed
  <2> HIDE DEF t
  <2>3. \A y \in AuthorityPda : Appears(y) \/ Disappears(y) => y \in {x, t}
    BY <2>1 DEF Appears, Disappears
  <2>4. Appears(t)
    BY <2>1 DEF Appears
  <2>5. MayChange(x, t) /\ MayChange(x, x)
    BY <2>1, <2>2, <2>4 DEF MayChange
  <2> QED
    BY <2>2, <2>3, <2>5 DEF RanksRespected
<1>5. ASSUME NEW op, NEW body, ActsOn(x, w), Authenticate(x, c, op, body, p),
             auth' = [auth EXCEPT ![x] = Counted(@)]
      PROVE  RanksRespected
  BY Zenon, <1>0, <1>1, <1>5, CountedShape
<1> QED
  BY Zenon, <1>2, <1>3, <1>4, <1>5
     DEF Managed, CreateSession, RevokeSession, ExecuteByAuthority, Authorize,
         Existing, AInv, IInv, TypeOK

\* Every step goes by the rank table: only the instructions that authorities
\* sign, and CreateWallet on an address without a wallet, touch authorities.
LEMMA NextRanks == IInv /\ Next => RanksRespected
<1> SUFFICES ASSUME IInv, Next PROVE RanksRespected
  OBVIOUS
<1>0. AInv
  BY IInvParts
<1>1. ASSUME UNCHANGED auth PROVE RanksRespected
  BY <1>1 DEF RanksRespected, Appears, Disappears
<1>2. ASSUME NEW w \in Existing(wallet), NEW x \in Existing(auth),
             NEW p \in Payers, NEW c \in Credentials(x), Managed(w, x, c, p)
      PROVE  RanksRespected
  <2>1. w \in Wallets /\ x \in AuthorityPda
    BY <1>0 DEF Existing, AInv
  <2> QED
    BY <1>2, <2>1, ManagedRanks
<1>3. ASSUME NEW w \in Wallets, NEW k \in Keys, CreateWallet(w, k)
      PROVE  RanksRespected
  <2>1. \A y \in AuthorityPda : y # <<w, k>> => auth'[y] = auth[y]
    BY Zenon, <1>0, <1>3 DEF CreateWallet, AInv
  <2>2. <<w, k>>[1] = w /\ wallet[w] = NoAccount
    BY <1>3 DEF CreateWallet
  <2> QED
    BY <2>1, <2>2 DEF RanksRespected, Appears, Disappears
<1>4. CASE Unmanaged
  BY <1>1, <1>3, <1>4
     DEF Unmanaged, CloseExpiredSession, ExecuteBySession, ExecuteDeferred,
         ReclaimDeferred
<1>5. ASSUME NEW w \in Wallets, NEW k \in Passkeys, Sign(w, k)
      PROVE  RanksRespected
  BY <1>1, <1>5 DEF Sign
<1>6. CASE Tick
  BY <1>1, <1>6 DEF Tick
<1> QED
  BY <1>2, <1>4, <1>5, <1>6 DEF Next

\* Whatever instructions interleave, an authority of an existing wallet
\* appears or disappears only by the signature of one whose rank allows it.
THEOREM RanksKept == Spec => RankDiscipline
<1>1. IInv /\ [Next]_vars => [RanksRespected]_vars
  BY NextRanks
<1> QED
  BY <1>1, Inductive, PTL DEF Spec, RankDiscipline
\* No account of wallet v changes.
Untouched(v) ==
    /\ wallet'[v] = wallet[v]
    /\ \A k \in Keys : auth'[<<v, k>>] = auth[<<v, k>>]
    /\ \A k \in SessionKeys : session'[<<v, k>>] = session[<<v, k>>]
    /\ \A k \in Keys, n \in 1 .. U32_MAX :
          deferred'[<<<<v, k>>, n>>] = deferred[<<<<v, k>>, n>>]

\* Then what AccountsOf collects is the same.
LEMMA UntouchedSame ==
    ASSUME NEW v \in Wallets, Untouched(v)
    PROVE  AccountsOf(v)' = AccountsOf(v)
BY DEF AccountsOf, Untouched

\* A step that leaves the authorities of other wallets, and touches at most
\* one session and one DeferredExec of w, leaves the other wallets alone.
LEMMA OthersUntouched ==
    ASSUME IInv, NEW w \in Wallets,
           \A v \in Wallets \ {w} : wallet'[v] = wallet[v],
           \A y \in AuthorityPda : y[1] # w => auth'[y] = auth[y],
           \A s \in SessionPda : s[1] # w => session'[s] = session[s],
           \A d \in DeferredPda : d[1][1] # w => deferred'[d] = deferred[d]
    PROVE  \A v \in Wallets \ {w} : AccountsOf(v)' = AccountsOf(v)
<1> SUFFICES ASSUME NEW v \in Wallets \ {w}
             PROVE  AccountsOf(v)' = AccountsOf(v)
  OBVIOUS
<1>1. \A k \in Keys : auth'[<<v, k>>] = auth[<<v, k>>]
  BY DEF AuthorityPda
<1>2. \A k \in SessionKeys : session'[<<v, k>>] = session[<<v, k>>]
  BY DEF SessionPda
<1>3. \A k \in Keys, n \in 1 .. U32_MAX :
         deferred'[<<<<v, k>>, n>>] = deferred[<<<<v, k>>, n>>]
  BY DEF DeferredPda, AuthorityPda
<1> QED
  BY <1>1, <1>2, <1>3, UntouchedSame DEF Untouched

\* Every instruction an authority signs stays within the authority's wallet.
LEMMA ManagedIsolated ==
    ASSUME IInv, NEW w \in Wallets, NEW x \in AuthorityPda, NEW c,
           NEW p \in Payers, Managed(w, x, c, p)
    PROVE  /\ \A v \in Wallets \ {w} : AccountsOf(v)' = AccountsOf(v)
           /\ \E op \in {"AddAuthority", "RemoveAuthority",
                         "TransferOwnership", "CreateSession",
                         "RevokeSession", "Execute", "Authorize"} :
                 landed' = [op |-> op, by |-> x, with |-> c]
           /\ x[1] = w
<1> DEFINE Goal == /\ \A v \in Wallets \ {w} : AccountsOf(v)' = AccountsOf(v)
                   /\ \E op \in {"AddAuthority", "RemoveAuthority",
                                 "TransferOwnership", "CreateSession",
                                 "RevokeSession", "Execute", "Authorize"} :
                         landed' = [op |-> op, by |-> x, with |-> c]
                   /\ x[1] = w
<1>0. AInv /\ SInv /\ DInv /\ slot \in 0 .. MaxSlot
  BY IInvParts
<1>1. ASSUME NEW k \in Keys, NEW r \in 0 .. RANK_MAX + 1,
             NEW policy \in BOOLEAN, AddAuthority(w, x, c, p, k, r, policy)
      PROVE  Goal
  <2>0. /\ ActsOn(x, w)
        /\ auth' = [auth EXCEPT ![x] = Counted(@),
                               ![<<w, k>>] = NewHeader(w, k, r, policy)]
    BY Zenon, <1>1 DEF AddAuthority
  <2>1. x[1] = w /\ \A y \in AuthorityPda : y[1] # w => auth'[y] = auth[y]
    BY Zenon, <1>0, <2>0, AddedInside
  <2>2. \A v \in Wallets \ {w} : wallet'[v] = wallet[v]
    BY <1>0, <1>1 DEF AddAuthority, AInv
  <2>3. session' = session /\ deferred' = deferred
        /\ landed' = [op |-> "AddAuthority", by |-> x, with |-> c]
    BY <1>1 DEF AddAuthority, Landed
  <2> QED
    BY Zenon, <2>1, <2>2, <2>3, OthersUntouched
<1>2. ASSUME NEW t \in AuthorityPda, RemoveAuthority(w, x, c, p, t)
      PROVE  Goal
  <2>1. x[1] = w /\ \A y \in AuthorityPda : y[1] # w => auth'[y] = auth[y]
    BY Zenon, <1>0, <1>2, RemovedShape
  <2>2. \A v \in Wallets \ {w} : wallet'[v] = wallet[v]
    BY <1>0, <1>2 DEF RemoveAuthority, AInv
  <2>3. session' = session /\ deferred' = deferred
        /\ landed' = [op |-> "RemoveAuthority", by |-> x, with |-> c]
    BY <1>2 DEF RemoveAuthority, Landed
  <2> QED
    BY Zenon, <2>1, <2>2, <2>3, OthersUntouched
<1>3. ASSUME NEW k \in Keys, TransferOwnership(w, x, c, p, k)
      PROVE  Goal
  <2>1. x[1] = w /\ \A y \in AuthorityPda : y[1] # w => auth'[y] = auth[y]
    BY Zenon, <1>0, <1>3, TransferShape
  <2>2. wallet' = wallet /\ session' = session /\ deferred' = deferred
        /\ landed' = [op |-> "TransferOwnership", by |-> x, with |-> c]
    BY <1>3 DEF TransferOwnership, Landed
  <2> QED
    BY Zenon, <2>1, <2>2, OthersUntouched
<1>4. ASSUME NEW op, NEW body, ActsOn(x, w), Authenticate(x, c, op, body, p),
             auth' = [auth EXCEPT ![x] = Counted(@)]
      PROVE  x[1] = w /\ \A y \in AuthorityPda : y[1] # w => auth'[y] = auth[y]
  BY Zenon, <1>0, <1>4, CountedShape
<1>5. ASSUME NEW sk \in SessionKeys,
             NEW e \in 0 .. MaxSlot + MAX_SESSION_SLOTS + 1,
             CreateSession(w, x, c, p, sk, e)
      PROVE  Goal
  <2>1. x[1] = w /\ \A y \in AuthorityPda : y[1] # w => auth'[y] = auth[y]
    BY <1>4, <1>5 DEF CreateSession
  <2>2. \A s \in SessionPda : s[1] # w => session'[s] = session[s]
    BY <1>0, <1>5 DEF CreateSession, SInv
  <2>3. wallet' = wallet /\ deferred' = deferred
        /\ landed' = [op |-> "CreateSession", by |-> x, with |-> c]
    BY <1>5 DEF CreateSession, Landed
  <2> QED
    BY Zenon, <2>1, <2>2, <2>3, OthersUntouched
<1>6. ASSUME NEW s \in SessionPda, RevokeSession(w, x, c, p, s)
      PROVE  Goal
  <2>1. x[1] = w /\ \A y \in AuthorityPda : y[1] # w => auth'[y] = auth[y]
    BY <1>4, <1>6 DEF RevokeSession
  <2>2. s[1] = w
    BY <1>0, <1>6 DEF RevokeSession, SInv
  <2>3. \A z \in SessionPda : z[1] # w => session'[z] = session[z]
    BY <1>0, <1>6, <2>2 DEF RevokeSession, SInv
  <2>4. wallet' = wallet /\ deferred' = deferred
        /\ landed' = [op |-> "RevokeSession", by |-> x, with |-> c]
    BY <1>6 DEF RevokeSession, Landed
  <2> QED
    BY Zenon, <2>1, <2>3, <2>4, OthersUntouched
<1>7. ASSUME NEW batch \in Batches, ExecuteByAuthority(w, x, c, p, batch)
      PROVE  Goal
  <2>1. x[1] = w /\ \A y \in AuthorityPda : y[1] # w => auth'[y] = auth[y]
    BY <1>4, <1>7 DEF ExecuteByAuthority
  <2>2. wallet' = wallet /\ session' = session /\ deferred' = deferred
        /\ landed' = [op |-> "Execute", by |-> x, with |-> c]
    BY <1>7 DEF ExecuteByAuthority, Landed
  <2> QED
    BY Zenon, <2>1, <2>2, OthersUntouched
<1>8. ASSUME NEW batch \in Batches, NEW offset \in 0 .. MAX_EXPIRY_SLOTS + 1,
             Authorize(w, x, c, p, batch, offset)
      PROVE  Goal
  <2>1. x[1] = w /\ \A y \in AuthorityPda : y[1] # w => auth'[y] = auth[y]
    BY <1>4, <1>8 DEF Authorize
  <2>2. \A d \in DeferredPda : d[1][1] # w => deferred'[d] = deferred[d]
    BY <1>0, <1>8, <2>1 DEF Authorize, DInv
  <2>3. wallet' = wallet /\ session' = session
        /\ landed' = [op |-> "Authorize", by |-> x, with |-> c]
    BY <1>8 DEF Authorize, Landed
  <2> QED
    BY Zenon, <2>1, <2>2, <2>3, OthersUntouched
<1> QED
  <2>1. Existing(auth) \subseteq AuthorityPda
          /\ Existing(session) \subseteq SessionPda
    BY <1>0 DEF Existing, AInv, SInv
  <2> QED
    BY <1>1, <1>2, <1>3, <1>5, <1>6, <1>7, <1>8, <2>1 DEF Managed
\* Every step changes accounts of one wallet only.
LEMMA NextIsolated == IInv /\ Next => OneWalletOnly
<1> SUFFICES ASSUME IInv, Next PROVE OneWalletOnly
  OBVIOUS
<1>0. AInv /\ SInv /\ DInv
  BY IInvParts
<1>1. ASSUME UNCHANGED <<wallet, auth, session, deferred>>
      PROVE  OneWalletOnly
  BY <1>1, UntouchedSame DEF OneWalletOnly, Untouched
<1>2. ASSUME NEW w \in Wallets, WalletOf(landed') = w,
             \A v \in Wallets \ {w} : AccountsOf(v)' = AccountsOf(v)
      PROVE  OneWalletOnly
  BY <1>2 DEF OneWalletOnly
<1>3. ASSUME NEW w \in Existing(wallet), NEW x \in Existing(auth),
             NEW p \in Payers, NEW c \in Credentials(x), Managed(w, x, c, p)
      PROVE  OneWalletOnly
  <2>1. w \in Wallets /\ x \in AuthorityPda
    BY <1>0 DEF Existing, AInv
  <2>2. PICK op \in {"AddAuthority", "RemoveAuthority", "TransferOwnership",
                     "CreateSession", "RevokeSession", "Execute",
                     "Authorize"} :
           landed' = [op |-> op, by |-> x, with |-> c]
    BY <1>3, <2>1, ManagedIsolated
  <2>3. WalletOf(landed') = x[1]
    BY <2>2 DEF WalletOf
  <2>4. x[1] = w /\ \A v \in Wallets \ {w} : AccountsOf(v)' = AccountsOf(v)
    BY <1>3, <2>1, ManagedIsolated
  <2> QED
    BY <1>2, <2>1, <2>3, <2>4
<1>4. ASSUME NEW w \in Wallets, NEW k \in Keys, CreateWallet(w, k)
      PROVE  OneWalletOnly
  <2> DEFINE t == <<w, k>>
  <2>0. \A y \in AuthorityPda : y # t => auth'[y] = auth[y]
    BY Zenon, <1>0, <1>4 DEF CreateWallet, AInv
  <2>a. t[1] = w
    OBVIOUS
  <2> HIDE DEF t
  <2>1. \A y \in AuthorityPda : y[1] # w => auth'[y] = auth[y]
    BY <2>0, <2>a
  <2>2. \A v \in Wallets \ {w} : wallet'[v] = wallet[v]
    BY <1>0, <1>4 DEF CreateWallet, AInv
  <2>3. WalletOf(landed') = w
    BY <1>4 DEF CreateWallet, Landed, WalletOf
  <2>4. \A v \in Wallets \ {w} : AccountsOf(v)' = AccountsOf(v)
    BY Zenon, <1>4, <2>1, <2>2, OthersUntouched DEF CreateWallet
  <2> QED
    BY <1>2, <2>3, <2>4
<1>5. ASSUME NEW s \in SessionPda, CloseExpiredSession(s)
      PROVE  OneWalletOnly
  <2>1. s[1] \in Wallets /\ WalletOf(landed') = s[1]
    BY <1>5 DEF CloseExpiredSession, Landed, WalletOf, SessionPda
  <2>2. \A z \in SessionPda : z[1] # s[1] => session'[z] = session[z]
    BY <1>0, <1>5 DEF CloseExpiredSession, SInv
  <2>3. \A v \in Wallets \ {s[1]} : AccountsOf(v)' = AccountsOf(v)
    BY <1>5, <2>1, <2>2, OthersUntouched DEF CloseExpiredSession
  <2> QED
    BY <1>2, <2>1, <2>3
<1>6. ASSUME NEW d \in DeferredPda, NEW op \in {"ExecuteDeferred",
             "ReclaimDeferred"}, Landed(op, d, TxSigner),
             deferred' = [deferred EXCEPT ![d] = NoAccount],
             UNCHANGED <<wallet, auth, session>>
      PROVE  OneWalletOnly
  <2>1. d[1][1] \in Wallets
    BY DEF DeferredPda, AuthorityPda
  <2>2. WalletOf(landed') = d[1][1]
    BY <1>6 DEF Landed, WalletOf
  <2>3. \A e \in DeferredPda : e[1][1] # d[1][1] => deferred'[e] = deferred[e]
    BY <1>0, <1>6 DEF DInv
  <2>4. \A v \in Wallets \ {d[1][1]} : AccountsOf(v)' = AccountsOf(v)
    BY <1>6, <2>1, <2>3, OthersUntouched
  <2> QED
    BY <1>2, <2>1, <2>2, <2>4
<1>7. CASE Unmanaged
  <2>1. Existing(session) \subseteq SessionPda
          /\ Existing(deferred) \subseteq DeferredPda
    BY <1>0 DEF Existing, SInv, DInv
  <2> QED
    BY <1>1, <1>4, <1>5, <1>6, <1>7, <2>1
       DEF Unmanaged, ExecuteBySession, ExecuteDeferred, ReclaimDeferred
<1>8. ASSUME NEW w \in Wallets, NEW k \in Passkeys, Sign(w, k)
      PROVE  OneWalletOnly
  BY <1>1, <1>8 DEF Sign
<1>9. CASE Tick
  BY <1>1, <1>9 DEF Tick
<1> QED
  BY <1>3, <1>7, <1>8, <1>9 DEF Next

\* No instruction reaches from one wallet into another, for any number of
\* wallets that share their keys.
THEOREM Isolated == Spec => WalletIsolation
<1>1. IInv /\ [Next]_vars => [OneWalletOnly]_vars
  BY NextIsolated
<1> QED
  BY <1>1, Inductive, PTL DEF Spec, WalletIsolation
=============================================================================
