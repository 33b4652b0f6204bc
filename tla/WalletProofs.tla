---------------------------- MODULE WalletProofs ----------------------------
(***************************************************************************)
(* Proofs about Wallet: type correctness, the binding of accounts to their *)
(* wallets, the policy rule, and that owner_count is exact and positive.   *)
(***************************************************************************)
EXTENDS Wallet, FiniteSetTheorems, TLAPS

\* The count is exact, and RemoveAuthority's rank table keeps it positive.
AtLeastOne == \A w \in Wallets : wallet[w] # NoAccount => wallet[w] >= 1

IInv == /\ TypeOK
        /\ AccountsBound
        /\ PolicyIffDelegate
        /\ OwnerCountExact
        /\ AtLeastOne

-----------------------------------------------------------------------------
(***************************************************************************)
(* Lemmas about the operators.                                             *)
(***************************************************************************)
\* Committing a passkey's counter changes the counter and nothing else.
LEMMA CountedHeader ==
    ASSUME NEW h \in AuthorityAccountHeader,
           h.authority_type = SECP256R1 => h.counter < U32_MAX
    PROVE  /\ Counted(h) \in AuthorityAccountHeader
           /\ Counted(h).wallet = h.wallet
           /\ Counted(h).role = h.role
           /\ Counted(h).policy = h.policy
BY ConstantsAssumption
   DEF Counted, AuthorityAccountHeader, ED25519, SECP256R1, Ranks, RANK_OWNER,
       RANK_MAX, RANK_DELEGATE

\* RANK_OWNER is one of the ranks an account may hold.
LEMMA OwnerRank == RANK_OWNER \in Ranks
BY DEF Ranks, RANK_OWNER, RANK_MAX, RANK_DELEGATE

\* A freshly written header is well formed and starts at counter zero.
LEMMA NewHeaderType ==
    ASSUME NEW w \in Wallets, NEW k \in Keys, NEW r \in Ranks,
           NEW policy \in BOOLEAN
    PROVE  /\ NewHeader(w, k, r, policy) \in AuthorityAccountHeader
           /\ NewHeader(w, k, r, policy).wallet = w
           /\ NewHeader(w, k, r, policy).role = r
           /\ NewHeader(w, k, r, policy).policy = policy
BY ConstantsAssumption
   DEF NewHeader, AuthorityAccountHeader, ED25519, SECP256R1

\* So is that of an Owner.
LEMMA OwnerHeader ==
    ASSUME NEW w \in Wallets, NEW k \in Keys
    PROVE  /\ NewHeader(w, k, RANK_OWNER, FALSE) \in AuthorityAccountHeader
           /\ NewHeader(w, k, RANK_OWNER, FALSE).wallet = w
           /\ NewHeader(w, k, RANK_OWNER, FALSE).role = RANK_OWNER
           /\ NewHeader(w, k, RANK_OWNER, FALSE).policy = FALSE
BY ConstantsAssumption, OwnerRank
   DEF NewHeader, AuthorityAccountHeader, ED25519, SECP256R1

\* Authentication of a passkey leaves room for its counter.
LEMMA AuthenticatedRoom ==
    ASSUME NEW x, NEW c, NEW op, NEW body, NEW p,
           Authenticate(x, c, op, body, p)
    PROVE  auth[x].authority_type = SECP256R1 => auth[x].counter < U32_MAX
BY DEF Authenticate, ED25519, SECP256R1

\* A wallet has finitely many owners, so their number is a natural number
\* and changes by one when one key joins or leaves.
LEMMA OwnerKeysFinite ==
    ASSUME NEW w \in Wallets
    PROVE  /\ IsFiniteSet(OwnerKeys(w))
           /\ Cardinality(OwnerKeys(w)) \in Nat
BY Zenon, ConstantsAssumption, FS_Subset, FS_CardinalityType DEF OwnerKeys

-----------------------------------------------------------------------------
(***************************************************************************)
(* What a step may do to the authorities, in three shapes.                 *)
(***************************************************************************)
\* auth' agrees with auth on rank, policy and wallet everywhere except at
\* the addresses in S.
SameExcept(S) ==
    \A y \in AuthorityPda \ S :
        /\ auth'[y] = NoAccount <=> auth[y] = NoAccount
        /\ auth[y] # NoAccount => /\ auth'[y].wallet = auth[y].wallet
                                  /\ auth'[y].role = auth[y].role
                                  /\ auth'[y].policy = auth[y].policy

\* The owners of a wallet none of whose authorities is in S are unchanged.
LEMMA SameOwners ==
    ASSUME NEW w \in Wallets, NEW S, SameExcept(S),
           \A k \in Keys : <<w, k>> \notin S
    PROVE  OwnerKeys(w)' = OwnerKeys(w)
BY DEF SameExcept, OwnerKeys, Holds, AuthorityPda

\* One address changes: the owners change by at most that address's key.
LEMMA OneOwnerChanges ==
    ASSUME NEW w \in Wallets, NEW k \in Keys, SameExcept({<<w, k>>})
    PROVE  OwnerKeys(w)' = IF Holds(<<w, k>>, RANK_OWNER)'
                           THEN OwnerKeys(w) \cup {k}
                           ELSE OwnerKeys(w) \ {k}
BY DEF SameExcept, OwnerKeys, Holds, AuthorityPda

-----------------------------------------------------------------------------
(***************************************************************************)
(* The invariant over auth and wallet is kept by a step of each shape.     *)
(***************************************************************************)
\* The part of IInv that only wallet and auth determine.
AInv == /\ wallet \in [Wallets -> Nat \cup {NoAccount}]
        /\ auth \in [AuthorityPda -> AuthorityAccountHeader \cup {NoAccount}]
        /\ \A x \in AuthorityPda : auth[x] # NoAccount =>
              auth[x].wallet = x[1] /\ wallet[x[1]] # NoAccount
        /\ PolicyIffDelegate
        /\ OwnerCountExact
        /\ AtLeastOne

\* An instruction that only commits its signer's counter.
LEMMA CountedStep ==
    ASSUME AInv, NEW w \in Wallets, NEW x \in AuthorityPda, ActsOn(x, w),
           NEW c, NEW op, NEW body, NEW p, Authenticate(x, c, op, body, p),
           auth' = [auth EXCEPT ![x] = Counted(@)],
           UNCHANGED wallet
    PROVE  AInv'
<1>1. auth[x] \in AuthorityAccountHeader
  BY DEF AInv, ActsOn
<1>2. /\ Counted(auth[x]) \in AuthorityAccountHeader
      /\ Counted(auth[x]).wallet = auth[x].wallet
      /\ Counted(auth[x]).role = auth[x].role
      /\ Counted(auth[x]).policy = auth[x].policy
  BY <1>1, CountedHeader, AuthenticatedRoom
<1>3. Counted(auth[x]) # NoAccount
  BY <1>2, ConstantsAssumption
<1>4. SameExcept({})
  BY <1>2, <1>3 DEF SameExcept, AInv, ActsOn
<1>5. \A v \in Wallets : OwnerKeys(v)' = OwnerKeys(v)
  BY <1>4, SameOwners
<1>6. auth' \in [AuthorityPda -> AuthorityAccountHeader \cup {NoAccount}]
  BY <1>2 DEF AInv
<1>7. PolicyIffDelegate'
  BY <1>4 DEF AInv, PolicyIffDelegate, SameExcept
<1>8. OwnerCountExact' /\ AtLeastOne'
  BY <1>5 DEF AInv, OwnerCountExact, AtLeastOne
<1>9. \A y \in AuthorityPda : auth'[y] # NoAccount =>
         auth'[y].wallet = y[1] /\ wallet'[y[1]] # NoAccount
  BY <1>4 DEF AInv, SameExcept
<1> QED
  BY <1>6, <1>7, <1>8, <1>9 DEF AInv

\* CreateWallet writes owner_count 1 next to the one authority it creates.
LEMMA CreateWalletStep ==
    ASSUME AInv, NEW w \in Wallets, NEW k \in Keys, CreateWallet(w, k)
    PROVE  AInv'
<1> DEFINE x == <<w, k>>
           h == NewHeader(w, k, RANK_OWNER, FALSE)
<1>1. x \in AuthorityPda /\ x[1] = w
  BY DEF AuthorityPda
<1>2. h \in AuthorityAccountHeader /\ h.wallet = w /\ h.role = RANK_OWNER
        /\ h.policy = FALSE
  BY Zenon, OwnerHeader
<1>3. h # NoAccount
  BY Zenon, <1>2, ConstantsAssumption
<1> HIDE DEF h
<1>4. auth' = [auth EXCEPT ![x] = h] /\ wallet' = [wallet EXCEPT ![w] = 1]
  BY DEF CreateWallet, h
<1> HIDE DEF x
<1>5. SameExcept({x})
  BY <1>1, <1>4 DEF SameExcept, AInv
<1>6. auth'[x] = h
  BY <1>1, <1>4 DEF AInv
<1>7. OwnerKeys(w) = {}
  BY DEF AInv, CreateWallet, OwnerKeys, Holds, AuthorityPda
<1>8. OwnerKeys(w)' = {k}
  <2>1. Holds(<<w, k>>, RANK_OWNER)'
    BY <1>2, <1>3, <1>6 DEF Holds, x
  <2> QED
    BY <1>5, <1>7, <2>1, OneOwnerChanges DEF x
<1>9. \A v \in Wallets \ {w} : OwnerKeys(v)' = OwnerKeys(v)
  BY <1>5, SameOwners DEF x
<1>10. OwnerCountExact' /\ AtLeastOne'
  <2>1. wallet'[w] = 1 /\ Cardinality(OwnerKeys(w)') = 1
    BY Zenon, <1>4, <1>8, FS_Singleton DEF AInv
  <2>2. \A v \in Wallets \ {w} : wallet'[v] = wallet[v]
    BY <1>4 DEF AInv
  <2> QED
    BY <1>9, <2>1, <2>2 DEF AInv, OwnerCountExact, AtLeastOne
<1>11. PolicyIffDelegate'
  BY <1>2, <1>5, <1>6
     DEF AInv, PolicyIffDelegate, SameExcept, RANK_OWNER, RANK_DELEGATE
<1>12. \A y \in AuthorityPda : auth'[y] # NoAccount =>
         auth'[y].wallet = y[1] /\ wallet'[y[1]] # NoAccount
  <2>1. \A v \in Wallets : wallet[v] # NoAccount => wallet'[v] # NoAccount
    BY <1>4, ConstantsAssumption DEF AInv
  <2>2. wallet'[w] # NoAccount
    BY <1>4, ConstantsAssumption DEF AInv
  <2>3. \A y \in AuthorityPda : y[1] \in Wallets
    BY DEF AuthorityPda
  <2> QED
    BY <1>1, <1>2, <1>5, <1>6, <2>1, <2>2, <2>3 DEF AInv, SameExcept
<1>13. /\ wallet' \in [Wallets -> Nat \cup {NoAccount}]
       /\ auth' \in [AuthorityPda -> AuthorityAccountHeader \cup {NoAccount}]
  BY <1>1, <1>2, <1>4 DEF AInv
<1> QED
  BY <1>10, <1>11, <1>12, <1>13 DEF AInv

\* A rank that can_add admits is one of the three.
LEMMA AddedRank ==
    ASSUME NEW actor \in Ranks, NEW r \in 0 .. RANK_MAX + 1,
           can_add(actor, r)
    PROVE  r \in Ranks
BY DEF can_add, Ranks, RANK_OWNER, RANK_MAX, RANK_DELEGATE

\* AddAuthority adds one authority, and counts it when it is an Owner.
LEMMA AddAuthorityStep ==
    ASSUME AInv, NEW w \in Wallets, NEW x \in AuthorityPda, NEW c, NEW p,
           NEW k \in Keys, NEW r \in 0 .. RANK_MAX + 1, NEW policy \in BOOLEAN,
           AddAuthority(w, x, c, p, k, r, policy)
    PROVE  AInv'
<1> DEFINE t == <<w, k>>
           h == NewHeader(w, k, r, policy)
<1>1. t \in AuthorityPda /\ t[1] = w /\ auth[t] = NoAccount /\ t # x
  BY DEF AuthorityPda, AddAuthority, ActsOn
<1>2. auth[x] \in AuthorityAccountHeader /\ wallet[w] \in Nat
        /\ wallet[w] # NoAccount
  BY DEF AInv, ActsOn, AddAuthority
<1>3. auth[x].role \in Ranks
  BY <1>2 DEF AuthorityAccountHeader
<1>4. r \in Ranks
  BY <1>3, AddedRank DEF AddAuthority
<1>5. h \in AuthorityAccountHeader /\ h.wallet = w /\ h.role = r
        /\ h.policy = policy
  BY <1>4, NewHeaderType
<1>6. h # NoAccount
  BY <1>5, ConstantsAssumption
<1> HIDE DEF h
<1>7. /\ auth' = [auth EXCEPT ![x] = Counted(@), ![t] = h]
      /\ wallet' = [wallet EXCEPT ![w] = IF r = RANK_OWNER
                                         THEN @ + 1 ELSE @]
      /\ policy <=> r = RANK_DELEGATE
  BY DEF AddAuthority, OwnersAfterAdd, PolicyFitsRank, h
<1>8. /\ Counted(auth[x]) \in AuthorityAccountHeader
      /\ Counted(auth[x]).wallet = auth[x].wallet
      /\ Counted(auth[x]).role = auth[x].role
      /\ Counted(auth[x]).policy = auth[x].policy
  BY <1>2, CountedHeader, AuthenticatedRoom DEF AddAuthority
<1>9. Counted(auth[x]) # NoAccount
  BY <1>8, ConstantsAssumption
<1> HIDE DEF t
<1>10. SameExcept({t}) /\ auth'[t] = h
  BY <1>1, <1>2, <1>7, <1>8, <1>9, ConstantsAssumption DEF SameExcept, AInv
<1>11. k \notin OwnerKeys(w)
  BY <1>1 DEF OwnerKeys, Holds, t
<1>12. OwnerKeys(w)' = IF r = RANK_OWNER THEN OwnerKeys(w) \cup {k}
                                         ELSE OwnerKeys(w)
  <2>1. Holds(<<w, k>>, RANK_OWNER)' <=> r = RANK_OWNER
    BY <1>5, <1>6, <1>10 DEF Holds, t
  <2> QED
    BY <1>10, <1>11, <2>1, OneOwnerChanges DEF t
<1>13. \A v \in Wallets \ {w} : OwnerKeys(v)' = OwnerKeys(v)
  BY <1>10, SameOwners DEF t
<1>14. OwnerCountExact' /\ AtLeastOne'
  <2>1. Cardinality(OwnerKeys(w)') = IF r = RANK_OWNER
                                     THEN Cardinality(OwnerKeys(w)) + 1
                                     ELSE Cardinality(OwnerKeys(w))
    BY Zenon, <1>11, <1>12, OwnerKeysFinite, FS_AddElement
  <2>2. wallet'[w] = IF r = RANK_OWNER THEN wallet[w] + 1 ELSE wallet[w]
    BY <1>7 DEF AInv
  <2>3. \A v \in Wallets \ {w} : wallet'[v] = wallet[v]
    BY <1>7 DEF AInv
  <2>4. wallet'[w] = Cardinality(OwnerKeys(w)') /\ wallet'[w] >= 1
    BY <1>2, <2>1, <2>2 DEF AInv, OwnerCountExact, AtLeastOne
  <2> QED
    BY <1>13, <2>3, <2>4 DEF AInv, OwnerCountExact, AtLeastOne
<1>15. PolicyIffDelegate'
  BY <1>5, <1>7, <1>10 DEF AInv, PolicyIffDelegate, SameExcept
<1>16. \A y \in AuthorityPda : auth'[y] # NoAccount =>
         auth'[y].wallet = y[1] /\ wallet'[y[1]] # NoAccount
  <2>1. \A v \in Wallets : wallet[v] # NoAccount => wallet'[v] # NoAccount
    BY <1>2, <1>7, ConstantsAssumption DEF AInv
  <2>2. \A y \in AuthorityPda : y[1] \in Wallets
    BY DEF AuthorityPda
  <2> QED
    BY <1>1, <1>2, <1>5, <1>10, <2>1, <2>2 DEF AInv, SameExcept
<1>17. /\ wallet' \in [Wallets -> Nat \cup {NoAccount}]
       /\ auth' \in [AuthorityPda -> AuthorityAccountHeader \cup {NoAccount}]
  BY <1>1, <1>2, <1>5, <1>7, <1>8 DEF AInv
<1> QED
  BY <1>14, <1>15, <1>16, <1>17 DEF AInv

\* RemoveAuthority closes one authority, and uncounts it when it was an Owner;
\* the last Owner is refused by can_remove.
LEMMA RemoveAuthorityStep ==
    ASSUME AInv, NEW w \in Wallets, NEW x \in AuthorityPda, NEW c, NEW p,
           NEW t \in AuthorityPda, RemoveAuthority(w, x, c, p, t)
    PROVE  AInv'
<1>1. /\ auth[x] \in AuthorityAccountHeader
      /\ auth[t] \in AuthorityAccountHeader
      /\ wallet[w] \in Nat /\ wallet[w] # NoAccount /\ t # x
  BY DEF AInv, ActsOn, RemoveAuthority
<1>2. PICK k \in Keys : t = <<w, k>>
  <2>1. t[1] = w
    BY DEF AInv, RemoveAuthority
  <2> QED
    BY <2>1 DEF AuthorityPda
<1>3. /\ auth' = [auth EXCEPT ![x] = Counted(@), ![t] = NoAccount]
      /\ wallet' = [wallet EXCEPT ![w] = IF auth[t].role = RANK_OWNER
                                         THEN @ - 1 ELSE @]
      /\ can_remove(auth[x].role, auth[t].role, wallet[w])
  BY DEF RemoveAuthority, OwnersAfterRemove
<1>4. /\ Counted(auth[x]) \in AuthorityAccountHeader
      /\ Counted(auth[x]).wallet = auth[x].wallet
      /\ Counted(auth[x]).role = auth[x].role
      /\ Counted(auth[x]).policy = auth[x].policy
  BY <1>1, CountedHeader, AuthenticatedRoom DEF RemoveAuthority
<1>5. Counted(auth[x]) # NoAccount /\ auth[x] # NoAccount
  BY <1>1, <1>4, ConstantsAssumption
<1>6. SameExcept({t}) /\ auth'[t] = NoAccount
  BY <1>1, <1>3, <1>4, <1>5 DEF SameExcept, AInv
<1>7. auth[t].role = RANK_OWNER => wallet[w] > 1
  BY <1>3 DEF can_remove, RANK_OWNER, RANK_ADMIN, RANK_DELEGATE
<1>8. k \in OwnerKeys(w) <=> auth[t].role = RANK_OWNER
  BY <1>1, <1>2, ConstantsAssumption DEF OwnerKeys, Holds
<1>9. OwnerKeys(w)' = OwnerKeys(w) \ {k}
  <2>1. ~Holds(<<w, k>>, RANK_OWNER)'
    BY <1>2, <1>6 DEF Holds
  <2> QED
    BY <1>2, <1>6, <2>1, OneOwnerChanges
<1>10. \A v \in Wallets \ {w} : OwnerKeys(v)' = OwnerKeys(v)
  BY <1>2, <1>6, SameOwners
<1>11. OwnerCountExact' /\ AtLeastOne'
  <2>1. Cardinality(OwnerKeys(w)') = IF auth[t].role = RANK_OWNER
                                     THEN Cardinality(OwnerKeys(w)) - 1
                                     ELSE Cardinality(OwnerKeys(w))
    BY Zenon, <1>8, <1>9, OwnerKeysFinite, FS_RemoveElement
  <2>2. wallet'[w] = IF auth[t].role = RANK_OWNER
                     THEN wallet[w] - 1 ELSE wallet[w]
    BY <1>3 DEF AInv
  <2>3. \A v \in Wallets \ {w} : wallet'[v] = wallet[v]
    BY <1>3 DEF AInv
  <2>4. wallet'[w] = Cardinality(OwnerKeys(w)') /\ wallet'[w] >= 1
    BY <1>1, <1>7, <2>1, <2>2 DEF AInv, OwnerCountExact, AtLeastOne
  <2> QED
    BY <1>10, <2>3, <2>4 DEF AInv, OwnerCountExact, AtLeastOne
<1>12. PolicyIffDelegate'
  BY <1>6 DEF AInv, PolicyIffDelegate, SameExcept
<1>13. \A y \in AuthorityPda : auth'[y] # NoAccount =>
         auth'[y].wallet = y[1] /\ wallet'[y[1]] # NoAccount
  <2>1. \A v \in Wallets : wallet[v] # NoAccount => wallet'[v] # NoAccount
    BY <1>1, <1>3, <1>7, ConstantsAssumption DEF AInv
  <2>2. \A y \in AuthorityPda : y[1] \in Wallets
    BY DEF AuthorityPda
  <2> QED
    BY <1>6, <2>1, <2>2 DEF AInv, SameExcept
<1>14. /\ wallet' \in [Wallets -> Nat \cup {NoAccount}]
       /\ auth' \in [AuthorityPda -> AuthorityAccountHeader \cup {NoAccount}]
  BY <1>1, <1>3, <1>4, <1>7 DEF AInv
<1> QED
  BY <1>11, <1>12, <1>13, <1>14 DEF AInv

\* TransferOwnership exchanges one Owner for another and leaves owner_count.
LEMMA TransferOwnershipStep ==
    ASSUME AInv, NEW w \in Wallets, NEW x \in AuthorityPda, NEW c, NEW p,
           NEW k \in Keys, TransferOwnership(w, x, c, p, k)
    PROVE  AInv'
<1> DEFINE t == <<w, k>>
           h == NewHeader(w, k, RANK_OWNER, FALSE)
<1>1. t \in AuthorityPda /\ t[1] = w /\ auth[t] = NoAccount /\ t # x
  BY DEF AuthorityPda, TransferOwnership, ActsOn
<1>2. PICK j \in Keys : x = <<w, j>>
  <2>1. x[1] = w
    BY DEF AInv, TransferOwnership, ActsOn
  <2> QED
    BY <2>1 DEF AuthorityPda
<1>3. h \in AuthorityAccountHeader /\ h.wallet = w /\ h.role = RANK_OWNER
        /\ h.policy = FALSE
  BY Zenon, OwnerHeader
<1>4. h # NoAccount
  BY Zenon, <1>3, ConstantsAssumption
<1> HIDE DEF h
<1>5. /\ auth' = [auth EXCEPT ![t] = h, ![x] = NoAccount]
      /\ wallet' = wallet /\ wallet[w] # NoAccount
      /\ auth[x] # NoAccount /\ auth[x].role = RANK_OWNER
  BY DEF TransferOwnership, ActsOn, h
<1> HIDE DEF t
<1>6. SameExcept({t, x}) /\ auth'[t] = h /\ auth'[x] = NoAccount
  BY <1>1, <1>5 DEF SameExcept, AInv
<1>7. j # k /\ j \in OwnerKeys(w) /\ k \notin OwnerKeys(w)
  BY <1>1, <1>2, <1>5 DEF OwnerKeys, Holds, t
<1>8. OwnerKeys(w)' = (OwnerKeys(w) \ {j}) \cup {k}
  <2>1. k \in OwnerKeys(w)' /\ j \notin OwnerKeys(w)'
    BY <1>2, <1>3, <1>4, <1>6 DEF OwnerKeys, Holds, t
  <2>2. \A i \in Keys \ {j, k} : i \in OwnerKeys(w)' <=> i \in OwnerKeys(w)
    BY <1>2, <1>6 DEF OwnerKeys, Holds, SameExcept, AuthorityPda, t
  <2>3. OwnerKeys(w)' \subseteq Keys /\ OwnerKeys(w) \subseteq Keys
    BY DEF OwnerKeys
  <2> QED
    BY <1>7, <2>1, <2>2, <2>3
<1>9. \A v \in Wallets \ {w} : OwnerKeys(v)' = OwnerKeys(v)
  BY <1>2, <1>6, SameOwners DEF t
<1>10. Cardinality(OwnerKeys(w)') = Cardinality(OwnerKeys(w))
  <2> DEFINE S == OwnerKeys(w)
             R == S \ {j}
  <2>1. IsFiniteSet(S) /\ Cardinality(S) \in Nat
    BY OwnerKeysFinite
  <2>2. IsFiniteSet(R) /\ Cardinality(R) = Cardinality(S) - 1
    BY <1>7, <2>1, FS_RemoveElement
  <2>3. Cardinality(R \cup {k}) = Cardinality(R) + 1
    BY Zenon, <1>7, <2>2, FS_AddElement
  <2> QED
    BY <1>8, <2>1, <2>2, <2>3
<1>11. OwnerCountExact' /\ AtLeastOne'
  BY <1>5, <1>9, <1>10 DEF AInv, OwnerCountExact, AtLeastOne
<1>12. PolicyIffDelegate'
  BY <1>3, <1>6
     DEF AInv, PolicyIffDelegate, SameExcept, RANK_OWNER, RANK_DELEGATE
<1>13. \A y \in AuthorityPda : auth'[y] # NoAccount =>
         auth'[y].wallet = y[1] /\ wallet'[y[1]] # NoAccount
  BY <1>1, <1>3, <1>5, <1>6 DEF AInv, SameExcept
<1>14. /\ wallet' \in [Wallets -> Nat \cup {NoAccount}]
       /\ auth' \in [AuthorityPda -> AuthorityAccountHeader \cup {NoAccount}]
  BY <1>1, <1>3, <1>5 DEF AInv
<1> QED
  BY <1>11, <1>12, <1>13, <1>14 DEF AInv

-----------------------------------------------------------------------------
(***************************************************************************)
(* Sessions and deferred authorizations.                                   *)
(***************************************************************************)
SInv == /\ session \in [SessionPda -> SessionAccount \cup {NoAccount}]
        /\ \A s \in SessionPda : session[s] # NoAccount =>
              /\ session[s].wallet = s[1] /\ wallet[s[1]] # NoAccount
              /\ session[s].session_key = s[2]

DInv == /\ deferred \in [DeferredPda -> DeferredExecAccount \cup {NoAccount}]
        /\ \A d \in DeferredPda : deferred[d] # NoAccount =>
              /\ deferred[d].wallet = d[1][1] /\ wallet[d[1][1]] # NoAccount
              /\ deferred[d].authority = d[1]

\* The invariant, split by the accounts it speaks about.
LEMMA IInvParts == IInv <=> AInv /\ SInv /\ DInv /\ slot \in 0 .. MaxSlot
BY DEF IInv, AInv, SInv, DInv, TypeOK, AccountsBound

\* The same split in the state after a step.
LEMMA IInvJoined ==
    AInv' /\ SInv' /\ DInv' /\ slot' \in 0 .. MaxSlot => IInv'
BY DEF IInv, AInv, SInv, DInv, TypeOK, AccountsBound

\* No wallet is ever closed.
WalletsStay ==
    \A w \in Wallets : wallet[w] # NoAccount => wallet'[w] # NoAccount

\* A step that leaves the sessions and closes no wallet keeps the sessions'
\* part.
LEMMA SessionsKept ==
    ASSUME SInv, WalletsStay, UNCHANGED session
    PROVE  SInv'
BY DEF SInv, WalletsStay, SessionPda

\* A step that leaves the DeferredExec accounts and closes no wallet keeps
\* their part.
LEMMA DeferredKept ==
    ASSUME DInv, WalletsStay, UNCHANGED deferred
    PROVE  DInv'
BY DEF DInv, WalletsStay, DeferredPda, AuthorityPda

\* Closing one session (RevokeSession, CloseExpiredSession) keeps the
\* part about sessions.
LEMMA SessionClosed ==
    ASSUME SInv, UNCHANGED wallet, NEW s \in SessionPda,
           session' = [session EXCEPT ![s] = NoAccount]
    PROVE  SInv'
BY DEF SInv

\* Closing one DeferredExec account (ExecuteDeferred, ReclaimDeferred) keeps
\* the part about them.
LEMMA DeferredClosed ==
    ASSUME DInv, UNCHANGED wallet, NEW d \in DeferredPda,
           deferred' = [deferred EXCEPT ![d] = NoAccount]
    PROVE  DInv'
BY DEF DInv

\* CreateSession writes the wallet and the key its address was derived from.
LEMMA CreateSessionStep ==
    ASSUME AInv, SInv, slot \in Nat, NEW w \in Wallets,
           NEW x \in AuthorityPda, NEW c, NEW p, NEW sk \in SessionKeys,
           NEW e \in 0 .. MaxSlot + MAX_SESSION_SLOTS + 1,
           CreateSession(w, x, c, p, sk, e)
    PROVE  SInv'
<1> DEFINE s == <<w, sk>>
           new == [wallet |-> w, session_key |-> sk, expires_at |-> e]
<1>1. s \in SessionPda /\ s[1] = w /\ s[2] = sk
  BY DEF SessionPda
<1>2. e \in Nat
  BY ConstantsAssumption
<1>3. new \in SessionAccount /\ new.wallet = w /\ new.session_key = sk
  BY <1>2 DEF SessionAccount
<1> HIDE DEF new
<1>4. session' = [session EXCEPT ![s] = new] /\ wallet' = wallet
        /\ wallet[w] # NoAccount
  BY DEF CreateSession, ActsOn, new
<1> HIDE DEF s
<1> QED
  BY <1>1, <1>3, <1>4 DEF SInv

\* Authorize writes the wallet and the authority its address was derived from,
\* at a counter value that still fits a u32.
LEMMA AuthorizeStep ==
    ASSUME AInv, DInv, slot \in Nat, NEW w \in Wallets,
           NEW x \in AuthorityPda, NEW c, NEW p \in Payers,
           NEW batch \in Batches, NEW offset \in 0 .. MAX_EXPIRY_SLOTS + 1,
           Authorize(w, x, c, p, batch, offset)
    PROVE  DInv'
<1> DEFINE d == <<x, auth[x].counter + 1>>
           new == [batch |-> batch, wallet |-> w, authority |-> x,
                   payer |-> p, expires_at |-> slot + offset]
<1>1. auth[x] \in AuthorityAccountHeader /\ x[1] = w
        /\ auth[x].counter < U32_MAX
  BY AuthenticatedRoom DEF AInv, Authorize, ActsOn
<1>2. auth[x].counter + 1 \in 1 .. U32_MAX
  BY <1>1, ConstantsAssumption DEF AuthorityAccountHeader
<1>3. d \in DeferredPda /\ d[1] = x
  BY <1>2 DEF DeferredPda
<1>4. slot + offset \in Nat
  BY ConstantsAssumption
<1>5. new \in DeferredExecAccount /\ new.wallet = w /\ new.authority = x
  BY <1>4 DEF DeferredExecAccount
<1> HIDE DEF new
<1>6. deferred' = [deferred EXCEPT ![d] = new] /\ wallet' = wallet
        /\ wallet[w] # NoAccount
  BY DEF Authorize, ActsOn, new
<1> HIDE DEF d
<1> QED
  BY <1>1, <1>3, <1>5, <1>6 DEF DInv

-----------------------------------------------------------------------------
(***************************************************************************)
(* The theorems.                                                           *)
(***************************************************************************)
\* Before any instruction no account exists.
LEMMA InitIInv == Init => IInv
<1> SUFFICES ASSUME Init PROVE IInv
  OBVIOUS
<1>1. AInv
  BY DEF Init, AInv, PolicyIffDelegate, OwnerCountExact, AtLeastOne
<1>2. SInv /\ DInv
  BY DEF Init, SInv, DInv
<1>3. slot \in 0 .. MaxSlot
  BY ConstantsAssumption DEF Init
<1> QED
  BY <1>1, <1>2, <1>3, IInvParts

\* Every instruction an authority signs preserves the invariant.
LEMMA ManagedStep ==
    ASSUME IInv, NEW w \in Wallets, NEW x \in AuthorityPda, NEW c,
           NEW p \in Payers, Managed(w, x, c, p)
    PROVE  IInv'
<1>0. AInv /\ SInv /\ DInv /\ slot \in 0 .. MaxSlot /\ slot \in Nat
  BY IInvParts, ConstantsAssumption
<1>1. ASSUME NEW k \in Keys, NEW r \in 0 .. RANK_MAX + 1,
             NEW policy \in BOOLEAN, AddAuthority(w, x, c, p, k, r, policy)
      PROVE  IInv'
  <2>1. AInv'
    BY <1>0, <1>1, AddAuthorityStep
  <2>2. WalletsStay
    BY <1>0, <1>1, ConstantsAssumption
       DEF WalletsStay, AddAuthority, OwnersAfterAdd, AInv
  <2> QED
    BY <1>0, <1>1, <2>1, <2>2, SessionsKept, DeferredKept, IInvJoined
       DEF AddAuthority
<1>2. ASSUME NEW t \in AuthorityPda, RemoveAuthority(w, x, c, p, t)
      PROVE  IInv'
  <2>1. AInv'
    BY <1>0, <1>2, RemoveAuthorityStep
  <2>2. wallet[w] \in Nat
    BY <1>0, <1>2 DEF RemoveAuthority, ActsOn, AInv
  <2>3. WalletsStay
    <3>1. auth[t].role = RANK_OWNER => wallet[w] > 1
      BY <1>2 DEF RemoveAuthority, can_remove, RANK_OWNER, RANK_ADMIN,
                  RANK_DELEGATE
    <3> QED
      BY <1>0, <1>2, <2>2, <3>1, ConstantsAssumption
         DEF WalletsStay, RemoveAuthority, OwnersAfterRemove, AInv
  <2> QED
    BY <1>0, <1>2, <2>1, <2>3, SessionsKept, DeferredKept, IInvJoined
       DEF RemoveAuthority
<1>3. ASSUME NEW k \in Keys, TransferOwnership(w, x, c, p, k)
      PROVE  IInv'
  <2>1. AInv'
    BY <1>0, <1>3, TransferOwnershipStep
  <2>2. WalletsStay
    BY <1>3 DEF WalletsStay, TransferOwnership
  <2> QED
    BY <1>0, <1>3, <2>1, <2>2, SessionsKept, DeferredKept, IInvJoined
       DEF TransferOwnership
<1>4. ASSUME NEW sk \in SessionKeys,
             NEW e \in 0 .. MaxSlot + MAX_SESSION_SLOTS + 1,
             CreateSession(w, x, c, p, sk, e)
      PROVE  IInv'
  <2>1. AInv'
    BY Zenon, <1>0, <1>4, CountedStep DEF CreateSession
  <2>2. SInv'
    BY <1>0, <1>4, CreateSessionStep
  <2>3. WalletsStay
    BY <1>4 DEF WalletsStay, CreateSession
  <2> QED
    BY <1>0, <1>4, <2>1, <2>2, <2>3, DeferredKept, IInvJoined
       DEF CreateSession
<1>5. ASSUME NEW s \in SessionPda, RevokeSession(w, x, c, p, s)
      PROVE  IInv'
  <2>1. AInv'
    BY Zenon, <1>0, <1>5, CountedStep DEF RevokeSession
  <2>2. SInv'
    BY Zenon, <1>0, <1>5, SessionClosed DEF RevokeSession
  <2>3. WalletsStay
    BY <1>5 DEF WalletsStay, RevokeSession
  <2> QED
    BY <1>0, <1>5, <2>1, <2>2, <2>3, DeferredKept, IInvJoined
       DEF RevokeSession
<1>6. ASSUME NEW batch \in Batches, ExecuteByAuthority(w, x, c, p, batch)
      PROVE  IInv'
  <2>1. AInv'
    BY Zenon, <1>0, <1>6, CountedStep DEF ExecuteByAuthority
  <2>2. WalletsStay
    BY <1>6 DEF WalletsStay, ExecuteByAuthority
  <2> QED
    BY <1>0, <1>6, <2>1, <2>2, SessionsKept, DeferredKept, IInvJoined
       DEF ExecuteByAuthority
<1>7. ASSUME NEW batch \in Batches, NEW offset \in 0 .. MAX_EXPIRY_SLOTS + 1,
             Authorize(w, x, c, p, batch, offset)
      PROVE  IInv'
  <2>1. AInv'
    BY Zenon, <1>0, <1>7, CountedStep DEF Authorize
  <2>2. DInv'
    BY <1>0, <1>7, AuthorizeStep
  <2>3. WalletsStay
    BY <1>7 DEF WalletsStay, Authorize
  <2> QED
    BY <1>0, <1>7, <2>1, <2>2, <2>3, SessionsKept, IInvJoined DEF Authorize
<1> QED
  <2>1. Existing(auth) \subseteq AuthorityPda
          /\ Existing(session) \subseteq SessionPda
    BY <1>0 DEF Existing, AInv, SInv
  <2> QED
    BY <1>1, <1>2, <1>3, <1>4, <1>5, <1>6, <1>7, <2>1 DEF Managed

\* Every instruction that needs no authority preserves the invariant.
LEMMA UnmanagedStep ==
    ASSUME IInv, Unmanaged
    PROVE  IInv'
<1>0. AInv /\ SInv /\ DInv /\ slot \in 0 .. MaxSlot
  BY IInvParts
<1>1. ASSUME NEW w \in Wallets, NEW k \in Keys, CreateWallet(w, k)
      PROVE  IInv'
  <2>1. AInv'
    BY <1>0, <1>1, CreateWalletStep
  <2>2. WalletsStay
    BY <1>0, <1>1, ConstantsAssumption DEF WalletsStay, CreateWallet, AInv
  <2> QED
    BY <1>0, <1>1, <2>1, <2>2, SessionsKept, DeferredKept, IInvJoined
       DEF CreateWallet
<1>2. ASSUME UNCHANGED <<wallet, auth, slot>> PROVE AInv' /\ WalletsStay
  BY <1>0, <1>2
     DEF AInv, PolicyIffDelegate, OwnerCountExact, OwnerKeys, Holds,
         AtLeastOne, WalletsStay
<1>3. ASSUME NEW s \in SessionPda, CloseExpiredSession(s)
      PROVE  IInv'
  BY Zenon, <1>0, <1>2, <1>3, SessionClosed, DeferredKept, IInvJoined
     DEF CloseExpiredSession
<1>4. ASSUME NEW w \in Wallets, NEW s \in SessionPda,
             NEW sk \in SessionKeys, ExecuteBySession(w, s, sk)
      PROVE  IInv'
  BY <1>0, <1>2, <1>4, SessionsKept, DeferredKept, IInvJoined
     DEF ExecuteBySession
<1>5. ASSUME NEW w \in Wallets, NEW d \in DeferredPda, NEW batch \in Batches,
             ExecuteDeferred(w, d, batch)
      PROVE  IInv'
  BY Zenon, <1>0, <1>2, <1>5, SessionsKept, DeferredClosed, IInvJoined
     DEF ExecuteDeferred
<1>6. ASSUME NEW p \in Payers, NEW d \in DeferredPda, ReclaimDeferred(p, d)
      PROVE  IInv'
  BY Zenon, <1>0, <1>2, <1>6, SessionsKept, DeferredClosed, IInvJoined
     DEF ReclaimDeferred
<1> QED
  <2>1. /\ Existing(wallet) \subseteq Wallets
        /\ Existing(session) \subseteq SessionPda
        /\ Existing(deferred) \subseteq DeferredPda
    BY <1>0 DEF Existing, AInv, SInv, DInv
  <2> QED
    BY <1>1, <1>3, <1>4, <1>5, <1>6, <2>1 DEF Unmanaged

\* Every step, a stuttering one included, preserves the invariant.
LEMMA NextIInv == IInv /\ [Next]_vars => IInv'
<1> SUFFICES ASSUME IInv, [Next]_vars PROVE IInv'
  OBVIOUS
<1>0. AInv /\ SInv /\ DInv /\ slot \in 0 .. MaxSlot
  BY IInvParts
<1>1. ASSUME UNCHANGED <<wallet, auth, session, deferred>>,
             slot' \in 0 .. MaxSlot
      PROVE  IInv'
  <2>1. AInv' /\ WalletsStay
    BY <1>0, <1>1
       DEF AInv, PolicyIffDelegate, OwnerCountExact, OwnerKeys, Holds,
           AtLeastOne, WalletsStay
  <2> QED
    BY <1>0, <1>1, <2>1, SessionsKept, DeferredKept, IInvJoined
<1>2. ASSUME NEW w \in Existing(wallet), NEW x \in Existing(auth),
             NEW p \in Payers, NEW c \in Credentials(x), Managed(w, x, c, p)
      PROVE  IInv'
  <2>1. w \in Wallets /\ x \in AuthorityPda
    BY <1>0, <1>2 DEF Existing, AInv
  <2> QED
    BY <1>2, <2>1, ManagedStep
<1>3. CASE Unmanaged
  BY <1>3, UnmanagedStep
<1>4. ASSUME NEW w \in Wallets, NEW k \in Passkeys, Sign(w, k)
      PROVE  IInv'
  BY <1>0, <1>1, <1>4 DEF Sign
<1>5. CASE Tick
  <2>1. slot' \in 0 .. MaxSlot
    BY <1>0, <1>5, ConstantsAssumption DEF Tick
  <2> QED
    BY <1>1, <1>5, <2>1 DEF Tick
<1>6. CASE UNCHANGED vars
  BY <1>0, <1>1, <1>6 DEF vars
<1> QED
  BY <1>2, <1>3, <1>4, <1>5, <1>6 DEF Next

\* IInv is an inductive invariant of the program's account state machine, for
\* any number of wallets, keys, sessions, payers and slots.
THEOREM Inductive == Spec => []IInv
BY InitIInv, NextIInv, PTL DEF Spec

\* Every account keeps its layout: in particular no handler writes a rank
\* above Delegate or takes an authority's counter past u32::MAX.
THEOREM TypeCorrect == Spec => []TypeOK
<1>1. IInv => TypeOK
  BY DEF IInv
<1> QED
  BY <1>1, Inductive, PTL

\* owner_count equals the number of Owners after any sequence of
\* CreateWallet, AddAuthority, RemoveAuthority and TransferOwnership.
THEOREM OwnerCount == Spec => []OwnerCountExact
<1>1. IInv => OwnerCountExact
  BY DEF IInv
<1> QED
  BY <1>1, Inductive, PTL

\* A wallet, once created, has an Owner for ever.
THEOREM AlwaysOwned == Spec => []OwnersRemain
<1>1. IInv => OwnersRemain
  BY FS_EmptySet DEF IInv, OwnersRemain, OwnerCountExact, AtLeastOne
<1> QED
  BY <1>1, Inductive, PTL

\* policy_len # 0 means exactly rank Delegate, for every authority the
\* program ever writes.
THEOREM PolicyRank == Spec => []PolicyIffDelegate
<1>1. IInv => PolicyIffDelegate
  BY DEF IInv
<1> QED
  BY <1>1, Inductive, PTL

\* An account's wallet field names the wallet of its address, which exists.
THEOREM Bound == Spec => []AccountsBound
<1>1. IInv => AccountsBound
  BY DEF IInv
<1> QED
  BY <1>1, Inductive, PTL
=============================================================================
