------------------------------- MODULE Wallet -------------------------------
(***************************************************************************)
(* The account state machine of the LazorKit program: wallets, their       *)
(* authorities, their sessions and their deferred authorizations, driven   *)
(* by the instructions that create, change and close those accounts.       *)
(*                                                                         *)
(* One step is one landed instruction, one passkey signature produced by a *)
(* client, or one slot of the chain's clock.  A passkey assertion, once    *)
(* signed, stays in signed: it may be submitted late, twice, out of order  *)
(* or never.  A rejected instruction reverts and changes nothing, so only  *)
(* the accepted ones are steps; the guards of an action are the checks the *)
(* handler makes, in their order.                                          *)
(*                                                                         *)
(* Lamports, rent and fees are left out here, and so is what the inner     *)
(* instructions of an Execute do to the vault: the program refuses itself  *)
(* as an inner program, so they cannot touch the accounts of this module.  *)
(***************************************************************************)
EXTENDS Integers, FiniteSets

CONSTANTS
    Wallets,            \* wallet PDAs (one per user_seed)
    Ed25519Keys,        \* Ed25519 public keys that may become authorities
    Passkeys,           \* Secp256r1 credentials that may become authorities
    SessionKeys,        \* keys a session may be opened for
    Payers,             \* fee payers: relayers, paymasters
    Batches,            \* lists of inner instructions with their accounts
    MAX_SLOT_AGE,       \* slots an assertion stays acceptable (150)
    MAX_SESSION_SLOTS,  \* longest session (6_480_000)
    MIN_EXPIRY_SLOTS,   \* shortest deferred authorization (10)
    MAX_EXPIRY_SLOTS,   \* longest deferred authorization (9000)
    U32_MAX,            \* largest value of an authority's counter
    MaxSlot,            \* bound: the clock stops here
    MaxSigned,          \* bound: passkey signatures ever produced
    Requests,           \* bound: the <<instruction, body>> pairs clients sign
    NoAccount,          \* an address that holds no data
    TxSigner            \* an Ed25519 key signing the transaction itself

Keys == Ed25519Keys \cup Passkeys

RANK_OWNER == 0
RANK_ADMIN == 1
RANK_DELEGATE == 2
RANK_MAX == RANK_DELEGATE
Ranks == RANK_OWNER .. RANK_MAX

ED25519 == 0
SECP256R1 == 1

\* Account addresses: the seeds a PDA is derived from.
AuthorityPda == Wallets \X Keys
SessionPda == Wallets \X SessionKeys
DeferredPda == AuthorityPda \X (1 .. U32_MAX)

AuthorityAccountHeader ==
    [wallet: Wallets, authority_type: {ED25519, SECP256R1}, role: Ranks,
     counter: 0 .. U32_MAX, policy: BOOLEAN]
SessionAccount == [wallet: Wallets, session_key: SessionKeys, expires_at: Nat]
DeferredExecAccount ==
    [batch: Batches, wallet: Wallets, authority: AuthorityPda,
     payer: Payers, expires_at: Nat]

ASSUME ConstantsAssumption ==
    /\ IsFiniteSet(Wallets) /\ IsFiniteSet(Keys)
    /\ Ed25519Keys \cap Passkeys = {}
    /\ NoAccount \notin AuthorityAccountHeader \cup SessionAccount
                          \cup DeferredExecAccount \cup Nat
    /\ U32_MAX \in Nat /\ MaxSlot \in Nat /\ MAX_SLOT_AGE \in Nat
    /\ MAX_SESSION_SLOTS \in Nat
    /\ MIN_EXPIRY_SLOTS \in Nat /\ MAX_EXPIRY_SLOTS \in Nat

VARIABLES
    slot,       \* the Clock sysvar
    wallet,     \* WalletAccount: its owner_count, or NoAccount
    auth,       \* authority accounts, by address
    session,    \* session accounts, by address
    deferred,   \* DeferredExec accounts, by address
    signed,     \* assertions the passkeys have produced
    landed      \* observer: the instruction of the last step, who signed it

vars == <<slot, wallet, auth, session, deferred, signed, landed>>

\* No instruction landed in the last step.
Nobody == [op |-> "nothing", by |-> TxSigner, with |-> TxSigner]

-----------------------------------------------------------------------------
(***************************************************************************)
(* The rank tables.                                                        *)
(***************************************************************************)
\* Mutant: an Admin may add anyone but an Owner, its own rank included.
can_add_Peers(actor, new_rank) ==
    /\ new_rank <= RANK_MAX
    /\ \/ actor = RANK_OWNER
       \/ actor = RANK_ADMIN /\ new_rank # RANK_OWNER

can_add(actor, new_rank) ==
    /\ new_rank <= RANK_MAX
    /\ \/ actor = RANK_OWNER
       \/ actor = RANK_ADMIN /\ new_rank = RANK_DELEGATE

can_remove(actor, target, owner_count) ==
    \/ actor = RANK_OWNER /\ target = RANK_OWNER /\ owner_count > 1
    \/ actor = RANK_OWNER /\ target # RANK_OWNER /\ target <= RANK_MAX
    \/ actor = RANK_ADMIN /\ target = RANK_DELEGATE

\* A Delegate must come with a policy, and only a Delegate may.
PolicyFitsRank(new_role, policy) ==
    /\ new_role = RANK_DELEGATE => policy
    /\ new_role # RANK_DELEGATE => ~policy

\* owner_count after an authority of this rank was added.
OwnersAfterAdd(owner_count, rank) ==
    IF rank = RANK_OWNER THEN owner_count + 1 ELSE owner_count

\* owner_count after an authority of this rank was removed.
OwnersAfterRemove(owner_count, rank) ==
    IF rank = RANK_OWNER THEN owner_count - 1 ELSE owner_count

-----------------------------------------------------------------------------
(***************************************************************************)
(* Authentication.                                                         *)
(***************************************************************************)
\* The header a new authority account is written with.
NewHeader(w, k, rank, policy) ==
    [wallet |-> w,
     authority_type |-> IF k \in Ed25519Keys THEN ED25519 ELSE SECP256R1,
     role |-> rank, counter |-> 0, policy |-> policy]

\* What a passkey signs: the hash input of the challenge.
Challenge(op, body, payer, w, k, at, counter) ==
    [op |-> op, body |-> body, payer |-> payer, wallet |-> w, key |-> k,
     slot |-> at, counter |-> counter]

\* Mutant: an assertion does not age.
FreshSlot_Ageless(at) == at <= slot

\* The slot an assertion names is not in the future and not too old.
FreshSlot(at) == at <= slot /\ slot - at < MAX_SLOT_AGE

\* The authority account x accepts credential c for this instruction.
Authenticate(x, c, op, body, payer) ==
    \/ /\ auth[x].authority_type = ED25519
       /\ c = TxSigner
    \/ /\ auth[x].authority_type = SECP256R1
       /\ c \in signed /\ c.op = op
       /\ FreshSlot(c.slot)
       /\ auth[x].counter < U32_MAX
       /\ c = Challenge(op, body, payer, auth[x].wallet, x[2],
                        c.slot, auth[x].counter + 1)

\* Mutant: the counter is checked but not written back.
Counted_NotSaved(h) == h

\* The account after Authenticate: a passkey's counter has been committed.
Counted(h) ==
    IF h.authority_type = SECP256R1 THEN [h EXCEPT !.counter = @ + 1] ELSE h

Landed(op, by, c) == landed' = [op |-> op, by |-> by, with |-> c]

\* Mutant: the authority's wallet field is not compared.
ActsOn_AnyWallet(x, w) ==
    /\ wallet[w] # NoAccount
    /\ auth[x] # NoAccount

\* The wallet account and the authority account an instruction names belong
\* together.
ActsOn(x, w) ==
    /\ wallet[w] # NoAccount
    /\ auth[x] # NoAccount
    /\ auth[x].wallet = w

-----------------------------------------------------------------------------
(***************************************************************************)
(* Wallet and authority instructions.                                      *)
(***************************************************************************)
\* The first owner is plain data: its key signs nothing.
CreateWallet(w, k) ==
    /\ wallet[w] = NoAccount
    /\ auth[<<w, k>>] = NoAccount
    /\ wallet' = [wallet EXCEPT ![w] = 1]
    /\ auth' = [auth EXCEPT ![<<w, k>>] = NewHeader(w, k, RANK_OWNER, FALSE)]
    /\ Landed("CreateWallet", w, TxSigner)
    /\ UNCHANGED <<slot, session, deferred, signed>>

AddAuthority(w, x, c, p, k, new_role, policy) ==
    /\ ActsOn(x, w)
    /\ Authenticate(x, c, "AddAuthority", <<k, new_role, policy>>, p)
    /\ can_add(auth[x].role, new_role)
    /\ PolicyFitsRank(new_role, policy)
    /\ ~auth[x].policy
    /\ auth[<<w, k>>] = NoAccount
    /\ wallet' = [wallet EXCEPT ![w] = OwnersAfterAdd(@, new_role)]
    /\ auth' = [auth EXCEPT ![x] = Counted(@),
                            ![<<w, k>>] = NewHeader(w, k, new_role, policy)]
    /\ Landed("AddAuthority", x, c)
    /\ UNCHANGED <<slot, session, deferred, signed>>

RemoveAuthority(w, x, c, p, target) ==
    /\ ActsOn(x, w)
    /\ auth[target] # NoAccount
    /\ Authenticate(x, c, "RemoveAuthority", <<target>>, p)
    /\ auth[target].wallet = w
    /\ target # x
    /\ can_remove(auth[x].role, auth[target].role, wallet[w])
    /\ wallet' = [wallet EXCEPT ![w] = OwnersAfterRemove(@, auth[target].role)]
    /\ auth' = [auth EXCEPT ![x] = Counted(@), ![target] = NoAccount]
    /\ Landed("RemoveAuthority", x, c)
    /\ UNCHANGED <<slot, session, deferred, signed>>

\* Mutant: the new owner's address may hold an account already.
TransferOwnership_InPlace(w, x, c, p, k) ==
    /\ ActsOn(x, w)
    /\ auth[x].role = RANK_OWNER
    /\ ~auth[x].policy
    /\ Authenticate(x, c, "TransferOwnership", <<k>>, p)
    /\ auth' = [auth EXCEPT ![<<w, k>>] = NewHeader(w, k, RANK_OWNER, FALSE),
                            ![x] = NoAccount]
    /\ Landed("TransferOwnership", x, c)
    /\ UNCHANGED <<slot, wallet, session, deferred, signed>>

TransferOwnership(w, x, c, p, k) ==
    /\ ActsOn(x, w)
    /\ auth[x].role = RANK_OWNER
    /\ ~auth[x].policy
    /\ Authenticate(x, c, "TransferOwnership", <<k>>, p)
    /\ auth[<<w, k>>] = NoAccount
    /\ auth' = [auth EXCEPT ![<<w, k>>] = NewHeader(w, k, RANK_OWNER, FALSE),
                            ![x] = NoAccount]
    /\ Landed("TransferOwnership", x, c)
    /\ UNCHANGED <<slot, wallet, session, deferred, signed>>

-----------------------------------------------------------------------------
(***************************************************************************)
(* Session instructions.                                                   *)
(***************************************************************************)
CreateSession(w, x, c, p, sk, expires_at) ==
    /\ ActsOn(x, w)
    /\ auth[x].role \in {RANK_OWNER, RANK_ADMIN}
    /\ ~auth[x].policy
    /\ slot < expires_at /\ expires_at <= slot + MAX_SESSION_SLOTS
    /\ Authenticate(x, c, "CreateSession", <<sk, expires_at>>, p)
    /\ session[<<w, sk>>] = NoAccount
    /\ auth' = [auth EXCEPT ![x] = Counted(@)]
    /\ session' = [session EXCEPT ![<<w, sk>>] =
          [wallet |-> w, session_key |-> sk, expires_at |-> expires_at]]
    /\ Landed("CreateSession", x, c)
    /\ UNCHANGED <<slot, wallet, deferred, signed>>

RevokeSession(w, x, c, p, s) ==
    /\ ActsOn(x, w)
    /\ session[s] # NoAccount
    /\ auth[x].role <= RANK_ADMIN
    /\ Authenticate(x, c, "RevokeSession", <<s>>, p)
    /\ session[s].wallet = w
    /\ auth' = [auth EXCEPT ![x] = Counted(@)]
    /\ session' = [session EXCEPT ![s] = NoAccount]
    /\ Landed("RevokeSession", x, c)
    /\ UNCHANGED <<slot, wallet, deferred, signed>>

\* Mutant: one slot early.
CloseExpiredSession_Early(s) ==
    /\ session[s] # NoAccount
    /\ slot >= session[s].expires_at
    /\ session' = [session EXCEPT ![s] = NoAccount]
    /\ Landed("CloseExpiredSession", s, TxSigner)
    /\ UNCHANGED <<slot, wallet, auth, deferred, signed>>

\* Anyone may close a session that has expired.
CloseExpiredSession(s) ==
    /\ session[s] # NoAccount
    /\ slot > session[s].expires_at
    /\ session' = [session EXCEPT ![s] = NoAccount]
    /\ Landed("CloseExpiredSession", s, TxSigner)
    /\ UNCHANGED <<slot, wallet, auth, deferred, signed>>

-----------------------------------------------------------------------------
(***************************************************************************)
(* Execution: at once by an authority, at once by a session, or deferred.  *)
(***************************************************************************)
ExecuteByAuthority(w, x, c, p, batch) ==
    /\ ActsOn(x, w)
    /\ Authenticate(x, c, "Execute", <<batch>>, p)
    /\ auth' = [auth EXCEPT ![x] = Counted(@)]
    /\ Landed("Execute", x, c)
    /\ UNCHANGED <<slot, wallet, session, deferred, signed>>

\* The session key sk signs the transaction.
ExecuteBySession(w, s, sk) ==
    /\ wallet[w] # NoAccount
    /\ session[s] # NoAccount
    /\ session[s].wallet = w
    /\ slot <= session[s].expires_at
    /\ session[s].session_key = sk
    /\ Landed("SessionExecute", s, TxSigner)
    /\ UNCHANGED <<slot, wallet, auth, session, deferred, signed>>

\* The DeferredExec address is derived from the counter just committed; an
\* address already in use fails the allocation and with it the instruction.
Authorize(w, x, c, p, batch, expiry_offset) ==
    /\ ActsOn(x, w)
    /\ expiry_offset \in MIN_EXPIRY_SLOTS .. MAX_EXPIRY_SLOTS
    /\ auth[x].authority_type = SECP256R1
    /\ auth[x].role <= RANK_ADMIN
    /\ ~auth[x].policy
    /\ Authenticate(x, c, "Authorize", <<batch, expiry_offset>>, p)
    /\ LET pda == <<x, auth[x].counter + 1>> IN
         /\ deferred[pda] = NoAccount
         /\ deferred' = [deferred EXCEPT ![pda] =
               [batch |-> batch, wallet |-> w, authority |-> x, payer |-> p,
                expires_at |-> slot + expiry_offset]]
    /\ auth' = [auth EXCEPT ![x] = Counted(@)]
    /\ Landed("Authorize", x, c)
    /\ UNCHANGED <<slot, wallet, session, signed>>

\* Mutant: the account is left open.
ExecuteDeferred_Kept(w, d, batch) ==
    /\ wallet[w] # NoAccount
    /\ deferred[d] # NoAccount
    /\ deferred[d].wallet = w
    /\ slot <= deferred[d].expires_at
    /\ deferred[d].batch = batch
    /\ Landed("ExecuteDeferred", d, TxSigner)
    /\ UNCHANGED <<slot, wallet, auth, session, deferred, signed>>

\* Any payer may submit the batch; the authority is not consulted again.
ExecuteDeferred(w, d, batch) ==
    /\ wallet[w] # NoAccount
    /\ deferred[d] # NoAccount
    /\ deferred[d].wallet = w
    /\ slot <= deferred[d].expires_at
    /\ deferred[d].batch = batch
    /\ deferred' = [deferred EXCEPT ![d] = NoAccount]
    /\ Landed("ExecuteDeferred", d, TxSigner)
    /\ UNCHANGED <<slot, wallet, auth, session, signed>>

ReclaimDeferred(p, d) ==
    /\ deferred[d] # NoAccount
    /\ deferred[d].payer = p
    /\ slot > deferred[d].expires_at
    /\ deferred' = [deferred EXCEPT ![d] = NoAccount]
    /\ Landed("ReclaimDeferred", d, TxSigner)
    /\ UNCHANGED <<slot, wallet, auth, session, signed>>

-----------------------------------------------------------------------------
(***************************************************************************)
(* The client and the chain.                                               *)
(***************************************************************************)
\* A client reads the slot and the authority's counter and has the passkey
\* sign; the assertion is then out of the client's hands.
Sign(w, k) ==
    /\ Cardinality(signed) < MaxSigned
    /\ auth[<<w, k>>] # NoAccount
    /\ auth[<<w, k>>].authority_type = SECP256R1
    /\ \E req \in Requests, p \in Payers :
         signed' = signed \cup {Challenge(req[1], req[2], p, w, k, slot,
                                          auth[<<w, k>>].counter + 1)}
    /\ landed' = Nobody
    /\ UNCHANGED <<slot, wallet, auth, session, deferred>>

Tick ==
    /\ slot < MaxSlot
    /\ slot' = slot + 1
    /\ landed' = Nobody
    /\ UNCHANGED <<wallet, auth, session, deferred, signed>>

Init ==
    /\ slot = 0
    /\ wallet = [w \in Wallets |-> NoAccount]
    /\ auth = [x \in AuthorityPda |-> NoAccount]
    /\ session = [s \in SessionPda |-> NoAccount]
    /\ deferred = [d \in DeferredPda |-> NoAccount]
    /\ signed = {}
    /\ landed = Nobody

\* The addresses that hold an account: any other fails the owner check with
\* which every handler starts.
Existing(accounts) == {a \in DOMAIN accounts : accounts[a] # NoAccount}

\* What can be presented for an authority, by its type.
Credentials(x) == IF auth[x].authority_type = ED25519 THEN {TxSigner} ELSE signed

\* The instructions an authority of the wallet signs.
Managed(w, x, c, p) ==
    \/ \E k \in Keys, r \in 0 .. RANK_MAX + 1, policy \in BOOLEAN :
          AddAuthority(w, x, c, p, k, r, policy)
    \/ \E target \in Existing(auth) : RemoveAuthority(w, x, c, p, target)
    \/ \E k \in Keys : TransferOwnership(w, x, c, p, k)
    \/ \E sk \in SessionKeys, e \in 0 .. MaxSlot + MAX_SESSION_SLOTS + 1 :
          CreateSession(w, x, c, p, sk, e)
    \/ \E s \in Existing(session) : RevokeSession(w, x, c, p, s)
    \/ \E batch \in Batches : ExecuteByAuthority(w, x, c, p, batch)
    \/ \E batch \in Batches, offset \in 0 .. MAX_EXPIRY_SLOTS + 1 :
          Authorize(w, x, c, p, batch, offset)

\* The instructions that need no authority's signature.
Unmanaged ==
    \/ \E w \in Wallets, k \in Keys : CreateWallet(w, k)
    \/ \E s \in Existing(session) : CloseExpiredSession(s)
    \/ \E w \in Existing(wallet), s \in Existing(session), sk \in SessionKeys :
          ExecuteBySession(w, s, sk)
    \/ \E w \in Existing(wallet), d \in Existing(deferred), batch \in Batches :
          ExecuteDeferred(w, d, batch)
    \/ \E p \in Payers, d \in Existing(deferred) : ReclaimDeferred(p, d)

Next ==
    \/ \E w \in Existing(wallet), x \in Existing(auth), p \in Payers :
          \E c \in Credentials(x) : Managed(w, x, c, p)
    \/ Unmanaged
    \/ \E w \in Wallets, k \in Passkeys : Sign(w, k)
    \/ Tick

Spec == Init /\ [][Next]_vars

-----------------------------------------------------------------------------
(***************************************************************************)
(* Properties.                                                             *)
(***************************************************************************)
\* Every account holds a value of its layout and every counter fits a u32.
TypeOK ==
    /\ slot \in 0 .. MaxSlot
    /\ wallet \in [Wallets -> Nat \cup {NoAccount}]
    /\ auth \in [AuthorityPda -> AuthorityAccountHeader \cup {NoAccount}]
    /\ session \in [SessionPda -> SessionAccount \cup {NoAccount}]
    /\ deferred \in [DeferredPda -> DeferredExecAccount \cup {NoAccount}]

Holds(x, rank) == auth[x] # NoAccount /\ auth[x].role = rank

OwnerKeys(w) == {k \in Keys : Holds(<<w, k>>, RANK_OWNER)}

\* owner_count is the number of authorities of the wallet with rank Owner,
\* through every add, removal and transfer.
OwnerCountExact ==
    \A w \in Wallets :
        wallet[w] # NoAccount => wallet[w] = Cardinality(OwnerKeys(w))

\* A wallet that exists has an Owner: no sequence of removals and transfers,
\* by whatever interleaving of Owners and Admins, leaves it without one.
OwnersRemain ==
    \A w \in Wallets : wallet[w] # NoAccount => OwnerKeys(w) # {}

\* A policy is attached to exactly the authorities of rank Delegate, the
\* equivalence AddAuthority's two policy checks are there to establish.
PolicyIffDelegate ==
    \A x \in AuthorityPda :
        auth[x] # NoAccount =>
            (auth[x].policy <=> auth[x].role = RANK_DELEGATE)

\* An account belongs to the wallet its address was derived from, and that
\* wallet exists: the fact every `header.wallet == wallet` check relies on.
AccountsBound ==
    /\ \A x \in AuthorityPda : auth[x] # NoAccount =>
          auth[x].wallet = x[1] /\ wallet[x[1]] # NoAccount
    /\ \A s \in SessionPda : session[s] # NoAccount =>
          /\ session[s].wallet = s[1] /\ wallet[s[1]] # NoAccount
          /\ session[s].session_key = s[2]
    /\ \A d \in DeferredPda : deferred[d] # NoAccount =>
          /\ deferred[d].wallet = d[1][1] /\ wallet[d[1][1]] # NoAccount
          /\ deferred[d].authority = d[1]

\* While an account lives it is either usable or closable, never both and
\* never neither: Execute and CloseExpiredSession split a session's life at
\* expires_at, ExecuteDeferred and ReclaimDeferred a deferred
\* authorization's.  One slot of disagreement between the two handlers would
\* close a session still authorised, or strand its rent.
ExpiryPartition ==
    /\ \A s \in SessionPda : session[s] # NoAccount =>
          (ENABLED ExecuteBySession(s[1], s, s[2])
             <=> ~ ENABLED CloseExpiredSession(s))
    /\ \A d \in DeferredPda : deferred[d] # NoAccount =>
          ((\E b \in Batches : ENABLED ExecuteDeferred(d[1][1], d, b))
             <=> ~ \E p \in Payers : ENABLED ReclaimDeferred(p, d))

Appears(x) == auth[x] = NoAccount /\ auth'[x] # NoAccount
Disappears(x) == auth[x] # NoAccount /\ auth'[x] = NoAccount

\* y, in place before the step, may have x appear or disappear; whoever is
\* removed is not the remover, except the Owner who hands over.
MayChange(y, x) ==
    LET rank == IF Appears(x) THEN auth'[x].role ELSE auth[x].role IN
    /\ y[1] = x[1] /\ auth[y] # NoAccount
    /\ \/ auth[y].role = RANK_OWNER
       \/ auth[y].role = RANK_ADMIN /\ rank = RANK_DELEGATE
    /\ Disappears(x) /\ x = y =>
         \E z \in AuthorityPda : Appears(z) /\ z[1] = y[1]
                                /\ auth'[z].role = RANK_OWNER

RanksRespected ==
    \A x \in AuthorityPda :
        (Appears(x) \/ Disappears(x)) /\ wallet[x[1]] # NoAccount =>
            \E y \in AuthorityPda : landed'.by = y /\ MayChange(y, x)

\* On a wallet that exists, an authority appears or disappears only when an
\* authority of that same wallet, itself in place before the step and
\* outranking or equal Owner, signed for it; and whoever is removed is not
\* the remover, except the Owner who hands over in TransferOwnership.
RankDiscipline == [][RanksRespected]_vars

AccountsOf(w) ==
    <<wallet[w], [k \in Keys |-> auth[<<w, k>>]],
      [k \in SessionKeys |-> session[<<w, k>>]],
      [k \in Keys |-> [n \in 1 .. U32_MAX |-> deferred[<<<<w, k>>, n>>]]]>>

\* The wallet of the account an instruction is signed with or spends.
WalletOf(instruction) ==
    CASE instruction.op = "CreateWallet" -> instruction.by
      [] instruction.op \in {"ExecuteDeferred", "ReclaimDeferred"} ->
           instruction.by[1][1]
      [] OTHER -> instruction.by[1]

OneWalletOnly ==
    \A w \in Wallets : AccountsOf(w)' # AccountsOf(w) => WalletOf(landed') = w

\* An instruction changes accounts of one wallet only, the one whose
\* authority, session or deferred authorization it goes by, although a
\* passkey may serve several wallets with equal counters.
WalletIsolation == [][OneWalletOnly]_vars

\* "The authority's odometer counter is used as a seed nonce, so each
\* authorization gets a unique PDA": the address the next Authorize of an
\* authority derives is never one that is still in use.
DeferredPdaFree ==
    \A x \in AuthorityPda :
        /\ auth[x] # NoAccount
        /\ auth[x].authority_type = SECP256R1
        /\ auth[x].counter < U32_MAX
        => deferred[<<x, auth[x].counter + 1>>] = NoAccount
=============================================================================
