--------------------------- MODULE PasskeyExecute ---------------------------
(***************************************************************************)
(* Spending through sdk-kit/src/client.ts: execute with each kind of       *)
(* signer, and the two-transaction flow authorize, then                    *)
(* executeDeferredFromPayload or reclaimDeferred, against the program's    *)
(* Execute, Authorize, ExecuteDeferred and ReclaimDeferred.  The caller's  *)
(* inner instructions go through the compact encoding of CompactLayout and *)
(* come out as CPIs.                                                       *)
(***************************************************************************)
EXTENDS PasskeySigning, TLC

CONSTANTS
    Payers,         \* keys that pay, send and sponsor transactions
    None,
    SessionKey,
    Wallet,
    InnerIxs,       \* the lists of inner instructions a caller may ask for
    ConfigPda, ShardPda,
    MaxAlterations  \* changes made to transactions on their way

VARIABLES
    request,    \* what the caller asked for
    tx,         \* the transaction on its way: its instructions and its fee payer
    signed,     \* challenges the passkey has answered
    payload,    \* the DeferredPayload authorize returned, kept by the caller
    deferred,   \* the deferred-execution account
    expired,    \* whether its expiry has passed
    altered,    \* how many transactions were changed on their way
    outcome     \* what happened last

vars == <<request, tx, signed, payload, deferred, expired, altered, outcome>>

Nothing == [op |-> "none"]
Refused == [op |-> "refused"]
Rejected == [op |-> "rejected"]
NoTx == [ixs |-> <<>>, feePayer |-> None]

Default(x, otherwise) == IF x = None THEN otherwise ELSE x

Requests ==
    [op : {"execute"}, payer : Payers, feePayer : {None}, signer : {"ed25519", "session"},
     ixs : InnerIxs, register : BOOLEAN]
    \cup [op : {"execute"}, payer : Payers, feePayer : Payers \cup {None}, signer : {"passkey"},
          ixs : InnerIxs, register : BOOLEAN]
    \cup [op : {"authorize"}, payer : Payers, feePayer : Payers \cup {None}, signer : {"passkey"},
          executor : Payers \cup {None}, expiryOffset : {300}, ixs : InnerIxs]

-----------------------------------------------------------------------------
(* The client.                                                             *)

FeeRecordPda(payer) == <<"record", payer, None>>

(* appendProtocolFeeAccounts                                               *)
FeeSuffix(payer) ==
    <<RO(ConfigPda), RW(FeeRecordPda(payer)), RW(ShardPda), RO(SystemProgram)>>

(* createRegisterPayerIx, put first when the payer has no fee record.      *)
RegisterIxs(payer, needed) ==
    IF needed
    THEN <<[program |-> Program,
            accounts |-> <<SIGNER_RW(payer), RW(FeeRecordPda(payer)), RO(SystemProgram),
                           RO(SysvarRent)>>,
            data |-> <<<<"disc", 12>>>>]>>
    ELSE <<>>

SpenderPda(signer) ==
    IF signer = "session" THEN SessionPda(Wallet, SessionKey) ELSE SignerPda(Wallet, signer)

CreateExecuteIx(payer, signer, packed, authPayload, remaining) ==
    [program |-> Program,
     accounts |-> <<SIGNER_RW(payer), RO(Wallet), RW(SpenderPda(signer)), RW(VaultPda(Wallet))>>
                  \o (IF signer = "session" THEN <<>> ELSE Authorizer(signer))
                  \o remaining \o FeeSuffix(payer),
     data |-> <<<<"disc", 4>>>> \o packed \o authPayload]

NextDeferredPda == DeferredPda(Wallet, SpenderPda("passkey"), Counter + 1)

CreateAuthorizeIx(payer, hashes, authPayload) ==
    [program |-> Program,
     accounts |-> <<SIGNER_RW(payer), RO(Wallet), RW(SpenderPda("passkey")),
                    RW(NextDeferredPda),
                    RO(SystemProgram), RO(SysvarRent), RO(SysvarInstructions)>>,
     data |-> <<<<"disc", 6>>>> \o hashes \o authPayload]

CreateExecuteDeferredIx(payer, p, refund) ==
    [program |-> Program,
     accounts |-> <<SIGNER_RW(payer), RO(Wallet), RW(VaultPda(Wallet)), RW(p.deferredExecPda),
                    RW(refund)>> \o p.remainingAccounts \o FeeSuffix(payer),
     data |-> <<<<"disc", 7>>>> \o PackCompactInstructions(p.compactInstructions)]

CreateReclaimDeferredIx(payer, deferredExecPda, refund) ==
    [program |-> Program,
     accounts |-> <<SIGNER_RO(payer), RW(deferredExecPda), RW(refund)>>,
     data |-> <<<<"disc", 8>>>>]

(* buildCompactLayoutAndHash                                               *)
WithAccountsHash(fixed, layout, feePayer) ==
    [compact |-> layout.compact, remaining |-> layout.remaining,
     accountsHash |->
        ComputeAccountsHash(WithRuntimeRoles(fixed \o layout.remaining, {feePayer} \ {None}),
                            layout.compact)]

BuildCompactLayoutAndHash(fixed, ixs, payer, feePayer) ==
    WithAccountsHash(fixed, BuildCompactLayout(KeysOf(fixed), ixs, payer), feePayer)

(* prepareExecute: the accounts as createExecuteIx lists them.             *)
ExecuteFixedAccounts(payer, signer) ==
    SubSeq(CreateExecuteIx(payer, signer, <<>>, <<>>,
                           IF signer = "session" THEN <<SIGNER_RO(SessionKey)>> ELSE <<>>).accounts,
           1, 5)

ExecuteChallenge(r, layout) ==
    LET packed == PackCompactInstructions(layout.compact)
    IN  [packed |-> packed, remaining |-> layout.remaining,
         signing |-> PrepareSecp256r1(4, 4, packed \o <<<<"hash", layout.accountsHash>>>>,
                                      Now, r.payer, Wallet)]

PrepareExecute(r) ==
    ExecuteChallenge(r, BuildCompactLayoutAndHash(ExecuteFixedAccounts(r.payer, "passkey"),
                                                  r.ixs, r.payer, r.feePayer))

FinalizeExecute(r, p) ==
    [tx |-> RegisterIxs(r.payer, r.register)
            \o <<PrecompileIx(p.signing),
                 CreateExecuteIx(r.payer, "passkey", p.packed, AuthPayload(p.signing),
                                 p.remaining)>>,
     challenges |-> {p.signing.challenge}]

(* execute's branches for an Ed25519 authority and for a session key.      *)
ExecuteUnprepared(r, layout) ==
    [tx |-> RegisterIxs(r.payer, r.register)
            \o <<CreateExecuteIx(r.payer, r.signer, PackCompactInstructions(layout.compact), <<>>,
                   (IF r.signer = "session" THEN <<SIGNER_RO(SessionKey)>> ELSE <<>>)
                   \o layout.remaining)>>,
     challenges |-> {}]

(* execute; a table too large for the index bits makes it throw.           *)
Execute(r) ==
    LET fixed == KeysOf(ExecuteFixedAccounts(r.payer, r.signer))
    IN  IF ~TableFits(fixed, r.ixs) THEN [tx |-> <<>>, challenges |-> {}]
        ELSE IF r.signer = "passkey" THEN FinalizeExecute(r, PrepareExecute(r))
        ELSE ExecuteUnprepared(r, BuildCompactLayout(fixed, r.ixs, r.payer))

(* prepareAuthorize: it hashes the accounts of the second transaction.     *)
DeferredFixedAccounts(r) ==
    <<SIGNER_RW(Default(r.executor, r.payer)), RO(Wallet), RW(VaultPda(Wallet)),
      RW(NextDeferredPda), RW(r.payer)>>

AuthorizeChallenge(r, layout) ==
    LET hashes == <<<<"hash", PackCompactInstructions(layout.compact)>>,
                    <<"hash", layout.accountsHash>>, <<"expiry", r.expiryOffset>>>>
    IN  [executor |-> Default(r.executor, r.payer), deferredExecPda |-> NextDeferredPda,
         layout |-> layout, hashes |-> hashes,
         signing |-> PrepareSecp256r1(6, 6, hashes, Now, r.payer, Wallet)]

PrepareAuthorize(r) ==
    AuthorizeChallenge(r, BuildCompactLayoutAndHash(DeferredFixedAccounts(r), r.ixs,
                                                    Default(r.executor, r.payer), r.feePayer))

FinalizeAuthorize(r, p) ==
    [tx |-> <<PrecompileIx(p.signing), CreateAuthorizeIx(r.payer, p.hashes, AuthPayload(p.signing))>>,
     challenges |-> {p.signing.challenge},
     payload |-> [deferredExecPda |-> p.deferredExecPda, executor |-> p.executor,
                  compactInstructions |-> p.layout.compact,
                  remainingAccounts |-> p.layout.remaining, refundDestination |-> r.payer]]

Authorize(r) ==
    IF ~TableFits(KeysOf(DeferredFixedAccounts(r)), r.ixs)
    THEN [tx |-> <<>>, challenges |-> {}, payload |-> None]
    ELSE FinalizeAuthorize(r, PrepareAuthorize(r))

(* namesDeferredPayerSlot: the second transaction's payer is at index 0,   *)
(* its refund destination at index 4.                                      *)
NamesDeferredPayerSlot(compact) ==
    \E i \in DOMAIN compact :
        \E byte \in {compact[i].program} \cup Range(compact[i].accounts) :
            DecodedIndex(byte) \in {0, 4}

(* executeDeferredFromPayload                                              *)
DeferredRefused(payer, p) == p.executor # payer /\ NamesDeferredPayerSlot(p.compactInstructions)

ExecuteDeferredFromPayload(payer, p, refund, register) ==
    IF DeferredRefused(payer, p) THEN <<>>
    ELSE RegisterIxs(payer, register)
         \o <<CreateExecuteDeferredIx(payer, p, Default(refund, p.refundDestination))>>

ReclaimDeferred(payer, deferredExecPda, refund) ==
    <<CreateReclaimDeferredIx(payer, deferredExecPda, Default(refund, payer))>>

-----------------------------------------------------------------------------
(* The program.                                                            *)

(* decompress refuses an index past the accounts, and the handlers a call  *)
(* of the wallet program itself.                                           *)
Runnable(compact, runtime) ==
    \A i \in DOMAIN compact :
        /\ \A byte \in {compact[i].program} \cup Range(compact[i].accounts) :
              DecodedIndex(byte) + 1 \in DOMAIN runtime
        /\ compact[i].program[2] <= MaxAccountIndex
        /\ runtime[1 + compact[i].program[2]].key # Program

ExecuteParsed(t, at, runtime, bytes, parsed) ==
    LET compact == parsed.ixs
        packed == SubSeq(bytes, 1, parsed.next - 1)
        session == IF runtime[3].key = SessionPda(Wallet, SessionKey) THEN {SessionKey} ELSE {}
    IN  IF /\ Parses(bytes, parsed)
           /\ runtime[1].signer
           /\ runtime[2].key = Wallet /\ runtime[3].writable
           /\ Runnable(compact, runtime)
           /\ IF session # {}
              THEN \E m \in Range(runtime) : m.signer /\ m.key = SessionKey
              ELSE Authenticate(t, at, runtime, runtime[3], SubSeq(bytes, parsed.next, Len(bytes)),
                                packed \o <<<<"hash", AccountsHashPreimage(runtime, compact)>>>>,
                                4, signed)
           /\ runtime[4].key = VaultPda(Wallet)
        THEN [op |-> "execute", payer |-> runtime[1].key,
              cpis |-> InnerCpis(runtime, compact, VaultPda(Wallet), runtime[1].key, session)]
        ELSE Rejected

ProcessExecute(t, at, runtime) ==
    LET bytes == Tail(t[at].data)
    IN  ExecuteParsed(t, at, runtime, bytes, ParseCompactInstructions(bytes))

(* authorize.rs process; a deferred account is what it stores.             *)
ProcessAuthorize(t, at, runtime) ==
    LET fields == Tail(t[at].data)
    IN  IF /\ Len(fields) >= 3
           /\ fields[3][2] \in 10 .. 9000
           /\ runtime[1].signer /\ runtime[3].writable
           /\ runtime[3].key \in Authorities /\ IsPasskey(runtime[3].key)
           /\ Authenticate(t, at, runtime, runtime[3], SubSeq(fields, 4, Len(fields)),
                           SubSeq(fields, 1, 3), 6, signed)
           /\ runtime[4].key = DeferredPda(Wallet, runtime[3].key, Counter + 1)
           /\ runtime[1].writable /\ runtime[4].writable
        THEN [op |-> "authorize", account |-> runtime[4].key, instructionsHash |-> fields[1][2],
              accountsHash |-> fields[2][2], payer |-> runtime[1].key]
        ELSE Rejected

(* deferred.rs process                                                     *)
ExecuteDeferredParsed(runtime, bytes, parsed) ==
    LET compact == parsed.ixs
    IN  IF /\ Parses(bytes, parsed)
           /\ runtime[1].signer
           /\ runtime[2].key = Wallet
           /\ deferred # None /\ runtime[4].key = deferred.account
           /\ runtime[5].key = deferred.payer
           /\ ~expired
           /\ SubSeq(bytes, 1, parsed.next - 1) = deferred.instructionsHash
           /\ Runnable(compact, runtime)
           /\ AccountsHashPreimage(runtime, compact) = deferred.accountsHash
           /\ runtime[3].key = VaultPda(Wallet)
           /\ runtime[4].writable /\ runtime[5].writable
        THEN [op |-> "executeDeferred", payer |-> runtime[1].key, refund |-> runtime[5].key,
              cpis |-> InnerCpis(runtime, compact, VaultPda(Wallet), runtime[1].key, {})]
        ELSE Rejected

ProcessExecuteDeferred(t, at, runtime) ==
    LET bytes == Tail(t[at].data)
    IN  ExecuteDeferredParsed(runtime, bytes, ParseCompactInstructions(bytes))

(* reclaim.rs process                                                      *)
ProcessReclaimDeferred(runtime) ==
    IF /\ runtime[1].signer
       /\ deferred # None /\ runtime[2].key = deferred.account
       /\ runtime[1].key = deferred.payer /\ runtime[3].key = deferred.payer
       /\ expired
       /\ runtime[2].writable /\ runtime[3].writable
    THEN [op |-> "reclaim", refund |-> runtime[3].key]
    ELSE Rejected

(* process_instruction on the last instruction.  try_collect_fee strips    *)
(* the fee suffix of Execute and ExecuteDeferred.                          *)
ProcessInstruction(t, feePayer) ==
    LET at == Len(t)
        disc == t[at].data[1][2]
        suffix == IF disc \in {4, 7} THEN 4 ELSE 0
        listed == UNION {Range(t[i].accounts) : i \in DOMAIN t}
        runtime == SubSeq(RuntimeAccounts(t[at].accounts, listed, feePayer),
                          1, Len(t[at].accounts) - suffix)
    IN  CASE disc = 4 -> ProcessExecute(t, at, runtime)
          [] disc = 6 -> ProcessAuthorize(t, at, runtime)
          [] disc = 7 -> ProcessExecuteDeferred(t, at, runtime)
          [] disc = 8 -> ProcessReclaimDeferred(runtime)

-----------------------------------------------------------------------------
Init ==
    /\ request = Nothing /\ tx = NoTx /\ signed = {} /\ payload = None
    /\ deferred = None /\ expired = FALSE /\ altered = 0 /\ outcome = Nothing

(* A caller asks, and the passkey, if it is one, answers.                  *)
AskExecute ==
    /\ request = Nothing
    /\ \E r \in {r \in Requests : r.op = "execute"} : \E built \in {Execute(r)} :
          /\ request' = r
          /\ signed' = built.challenges
          /\ tx' = [ixs |-> built.tx, feePayer |-> Default(r.feePayer, r.payer)]
          /\ outcome' = IF built.tx = <<>> THEN Refused ELSE Nothing
    /\ UNCHANGED <<payload, deferred, expired, altered>>

AskAuthorize ==
    /\ request = Nothing
    /\ \E r \in {r \in Requests : r.op = "authorize"} : \E built \in {Authorize(r)} :
          /\ request' = r
          /\ signed' = built.challenges
          /\ payload' = built.payload
          /\ tx' = [ixs |-> built.tx, feePayer |-> r.payer]
          /\ outcome' = IF built.tx = <<>> THEN Refused ELSE Nothing
    /\ UNCHANGED <<deferred, expired, altered>>

(* Anyone holding the payload builds the second transaction.  Its fee      *)
(* payer is the one named in prepareAuthorize, if one was.                 *)
AskDeferred ==
    /\ payload # None /\ outcome.op = "authorize"
    /\ \E payer \in Payers, refund \in {None, request.payer}, register \in BOOLEAN :
       \E ixs \in {ExecuteDeferredFromPayload(payer, payload, refund, register)} :
          /\ tx' = [ixs |-> ixs, feePayer |-> Default(request.feePayer, payer)]
          /\ outcome' = IF ixs = <<>> THEN Refused ELSE Nothing
    /\ UNCHANGED <<request, signed, payload, deferred, expired, altered>>

AskReclaim ==
    /\ payload # None /\ outcome.op = "authorize"
    /\ \E payer \in Payers, refund \in Payers \cup {None} :
          tx' = [ixs |-> ReclaimDeferred(payer, payload.deferredExecPda, refund), feePayer |-> payer]
    /\ outcome' = Nothing
    /\ UNCHANGED <<request, signed, payload, deferred, expired, altered>>

Expire ==
    /\ deferred # None /\ ~expired
    /\ expired' = TRUE
    /\ UNCHANGED <<request, tx, signed, payload, deferred, altered, outcome>>

Land ==
    /\ tx # NoTx /\ outcome = Nothing
    /\ \E o \in {ProcessInstruction(tx.ixs, tx.feePayer)} :
          /\ outcome' = o
          /\ deferred' = CASE o.op = "authorize" -> o
                           [] o.op \in {"executeDeferred", "reclaim"} -> None
                           [] OTHER -> deferred
    /\ UNCHANGED <<request, tx, signed, payload, expired, altered>>
-----------------------------------------------------------------------------
(* What can become of a passkey's transaction on its way: another account  *)
(* or other flags at a position, another byte or field, another fee payer, *)
(* or an instruction listed besides it that raises an account's flags.     *)
OtherKeys == Payers \cup {Wallet, VaultPda(Wallet), SpenderPda("passkey"), SpenderPda("ed25519"),
                          SysvarInstructions, Program}
             \cup {m.key : m \in UNION {Range(i.accounts) : i \in Range(request.ixs)}}

Main == Len(tx.ixs)
WithMain(ix) == [tx.ixs EXCEPT ![Main] = ix]

Relisted ==
    {WithMain([tx.ixs[Main] EXCEPT !.accounts[i] = Meta(k, s, w)]) :
        i \in DOMAIN tx.ixs[Main].accounts, k \in OtherKeys, s \in BOOLEAN, w \in BOOLEAN}

Rewritten ==
    {WithMain([tx.ixs[Main] EXCEPT !.data[i] = U8(n)]) :
        i \in {i \in DOMAIN tx.ixs[Main].data : tx.ixs[Main].data[i][1] = "u8"},
        n \in 0 .. 2 * MaxAccountIndex + 1}

Accompanied ==
    {<<[program |-> SystemProgram, accounts |-> <<SIGNER_RW(p)>>, data |-> <<>>]>> \o tx.ixs :
        p \in Payers}

Signable(ixs) ==
    \A i \in DOMAIN ixs : \A m \in Range(ixs[i].accounts) :
        m.signer => m.key \in Payers \cup {a.key : a \in {a \in UNION {Range(tx.ixs[j].accounts) :
                                                               j \in DOMAIN tx.ixs} : a.signer}}

Alter ==
    /\ altered < MaxAlterations
    /\ tx # NoTx /\ outcome = Nothing /\ request.signer = "passkey"
    /\ altered' = altered + 1
    /\ \E p \in Payers, ixs \in Relisted \cup Rewritten \cup Accompanied \cup {tx.ixs} :
          /\ Signable(ixs)
          /\ tx' = [ixs |-> ixs, feePayer |-> p]
    /\ UNCHANGED <<request, signed, payload, deferred, expired, outcome>>

Step == AskExecute \/ AskAuthorize \/ AskDeferred \/ AskReclaim \/ Expire \/ Land

Next == Step \/ Alter

Spec == Init /\ [][Next]_vars

-----------------------------------------------------------------------------
(* The CPIs the caller asked for, run under payer: the same programs,      *)
(* accounts and data in the same order, each signer that was asked for     *)
(* except the payer (and the executor a deferred one was meant for), the   *)
(* session key alone in a session, and the vault.                          *)
(* The payer of an Authorize signs the second transaction only when it     *)
(* pays for it (prepareAuthorize's comment).                               *)
Mentions(key) == {m \in UNION {Range(i.accounts) : i \in Range(request.ixs)} : m.key = key}

SignsFor(m, payer) ==
    \/ m.key = VaultPda(Wallet)
    \/ /\ m.signer /\ m.key # payer
       /\ request.signer = "session" => m.key = SessionKey
       /\ request.op = "authorize" =>
             /\ m.key # Default(request.executor, request.payer)
             /\ m.key # request.payer \/ m.key = request.feePayer

AsAsked(cpis, payer) ==
    /\ Len(cpis) = Len(request.ixs)
    /\ \A i \in DOMAIN cpis :
          /\ cpis[i].program = request.ixs[i].program
          /\ cpis[i].data = request.ixs[i].data
          /\ Len(cpis[i].accounts) = Len(request.ixs[i].accounts)
          /\ \A a \in DOMAIN cpis[i].accounts :
                /\ cpis[i].accounts[a].key = request.ixs[i].accounts[a].key
                /\ cpis[i].accounts[a].signer = SignsFor(request.ixs[i].accounts[a], payer)

(* Whatever is done to a transaction on its way, and whoever sends the     *)
(* second one, the CPIs the program runs are those the passkey (or the     *)
(* Ed25519 or session key) approved, with exactly the signatures the       *)
(* caller asked for and never the payer's (compact.ts's table, the two     *)
(* hashes and the forwarding bit against immediate.rs and deferred.rs),    *)
(* and the rent of a deferred authorization returns to the payer that      *)
(* asked for it, whoever executes or reclaims it.                          *)
RunsWhatWasAsked ==
    /\ outcome.op \in {"execute", "executeDeferred"} => AsAsked(outcome.cpis, outcome.payer)
    /\ outcome.op \in {"executeDeferred", "reclaim"} => outcome.refund = request.payer

(* A transaction that lands as the client built it is not rejected: the    *)
(* bytes and the accounts hash it had signed are those the program         *)
(* computes from the runtime's flags (withRuntimeRoles), also for an       *)
(* ExecuteDeferred built by another sender, which                          *)
(* executeDeferredFromPayload refuses where the flags would differ.  The   *)
(* exceptions are its caller's: an inner call of the wallet program, a     *)
(* late second transaction, an early or foreign reclaim, and an inner      *)
(* instruction that names, as an ordinary account, whoever sends the       *)
(* second transaction in the executor's place.                             *)
UnalteredRuns ==
    (outcome = Rejected /\ altered = 0) =>
        \/ \E i \in Range(request.ixs) : i.program = Program
        \/ expired
        \/ tx.ixs[Main].data = <<<<"disc", 8>>>>
        \/ /\ payload # None /\ deferred # None
           /\ tx.ixs[Main].accounts[1].key # payload.executor
           /\ Mentions(tx.ixs[Main].accounts[1].key) # {}
=============================================================================
