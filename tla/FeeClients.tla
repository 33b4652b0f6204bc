----------------------------- MODULE FeeClients -----------------------------
(***************************************************************************)
(* Clients in front of the fee layer of Protocol: how the SDK finds the    *)
(* fee accounts it appends to CreateWallet, Execute and ExecuteDeferred,   *)
(* when it prepends RegisterPayer, and what the program makes of the       *)
(* transaction once it lands.                                              *)
(*                                                                         *)
(* A client is one LazorKitClient object: it caches the protocol config    *)
(* until told to forget it, and the payers it has seen registered for as   *)
(* long as it lives.  Its calls overlap; every read is answered by a node  *)
(* that may be behind, and between the last read and the landing there may *)
(* be a passkey prompt, so that anything can happen in between.            *)
(***************************************************************************)
EXTENDS Protocol, Sequences

CONSTANTS
    Clients,        \* LazorKitClient objects
    Calls,          \* slots for calls under way, of any client
    CallKinds,      \* the builders that are called
    Payers,         \* the fee payers the clients build for
    NumShards,      \* shard counts an admin may ask for
    FeePairs,       \* creation and execution fees an admin may ask for
    MaxCalls,       \* bound: calls ever made
    None            \* no value

VARIABLES
    cached,         \* _protocolConfig of each client; None while undefined
    registered,     \* _registeredPayers of each client
    seen,           \* every config a node may still answer with
    call,           \* the call in each slot, or None
    calls,          \* number of calls made
    outcome,        \* observer: what became of the last transaction to land
    races           \* observer: registrations of each client refused

clientVars == <<cached, registered, seen, call, calls, outcome, races>>
allVars == <<vars, clientVars>>

-----------------------------------------------------------------------------
(***************************************************************************)
(* Instructions: account keys with what the caller says of them.           *)
(***************************************************************************)
Account(key, signer, writable) ==
    [key |-> key, signer |-> signer, writable |-> writable]
SystemProgram == Account("system_program", FALSE, FALSE)
Rent == Account("rent", FALSE, FALSE)
Instructions == Account("instructions", FALSE, FALSE)

FeeAccounts(payer, shard) ==
    [protocolConfigPda |-> ConfigPda, feeRecordPda |-> Record(payer),
     treasuryShardPda |-> Shard(shard)]

appendProtocolFeeAccounts(keys, fee) ==
    keys \o << Account(fee.protocolConfigPda, FALSE, FALSE),
               Account(fee.feeRecordPda, FALSE, TRUE),
               Account(fee.treasuryShardPda, FALSE, TRUE), SystemProgram >>

createCreateWalletIx(payer, fee) ==
    [op |-> "CreateWallet",
     keys |-> appendProtocolFeeAccounts(
        << Account(payer, TRUE, TRUE), Account("wallet", FALSE, TRUE),
           Account("vault", FALSE, TRUE), Account("authority", FALSE, TRUE),
           SystemProgram, Rent >>, fee)]

\* What follows the sysvar is what the inner instructions name.
createExecuteIx(payer, remaining, fee) ==
    [op |-> "Execute",
     keys |-> appendProtocolFeeAccounts(
        << Account(payer, TRUE, TRUE), Account("wallet", FALSE, FALSE),
           Account("authority", FALSE, TRUE), Account("vault", FALSE, TRUE),
           Instructions >> \o remaining, fee)]

createExecuteDeferredIx(payer, remaining, fee) ==
    [op |-> "ExecuteDeferred",
     keys |-> appendProtocolFeeAccounts(
        << Account(payer, TRUE, TRUE), Account("wallet", FALSE, FALSE),
           Account("vault", FALSE, TRUE), Account("deferred", FALSE, TRUE),
           Account("refund", FALSE, TRUE) >> \o remaining, fee)]

\* An inner transfer to somebody: two accounts after the fixed ones.
Inner == << Account("recipient", FALSE, TRUE), SystemProgram >>

createRegisterPayerIx(payer) ==
    [op |-> "RegisterPayer",
     keys |-> << Account(payer, TRUE, TRUE), Account(Record(payer), FALSE, TRUE),
                 SystemProgram, Rent >>]

Main(kind, payer, fee) ==
    CASE kind = "createWallet" -> createCreateWalletIx(payer, fee)
      [] kind = "executeDeferredFromPayload" ->
            createExecuteDeferredIx(payer, Inner, fee)
      [] OTHER -> createExecuteIx(payer, Inner, fee)

-----------------------------------------------------------------------------
(***************************************************************************)
(* The client.                                                             *)
(***************************************************************************)
\* What getProtocolConfig makes of the account.
ConfigView ==
    IF config = NoAccount THEN [live |-> FALSE, numShards |-> 0]
    ELSE [live |-> config.enabled # 0, numShards |-> config.num_shards]

\* Mutant: one shard too many.
ShardChoices_OneMore(v) == IF v.live THEN 0 .. v.numShards ELSE {0}

\* The shards resolveProtocolFee draws from.
ShardChoices(v) ==
    IF v.live /\ v.numShards > 0 THEN 0 .. v.numShards - 1 ELSE {0}

\* The transaction is built, or, in execute() under a passkey, what has been
\* resolved is dropped and prepareExecute resolves again.
Resolved(k, shard, register) ==
    IF call[k].again
    THEN [call[k] EXCEPT !.again = FALSE, !.at = "start"]
    ELSE [call[k] EXCEPT !.at = "built", !.tx =
            (IF register THEN <<createRegisterPayerIx(call[k].payer)>> ELSE <<>>)
              \o <<Main(call[k].kind, call[k].payer,
                        FeeAccounts(call[k].payer, shard))>>]

\* Both resolvers once the config is known.
WithConfig(k, v) ==
    \E shard \in ShardChoices(v) :
        call' = [call EXCEPT ![k] =
            IF ~v.live \/ call[k].payer \in registered[call[k].client]
            THEN Resolved(k, shard, FALSE)
            ELSE [call[k] EXCEPT !.at = "record", !.shard = shard]]

\* One of the four builders is called.  Calling prepareExecute and
\* finalizeExecute oneself resolves once, as the other signers do.
Begin(k, c, kind, payer) ==
    /\ call[k] = None /\ calls < MaxCalls
    /\ calls' = calls + 1
    /\ call' = [call EXCEPT ![k] =
                    [client |-> c, kind |-> kind, payer |-> payer,
                     at |-> "start", again |-> kind = "execute passkey",
                     shard |-> 0, tx |-> <<>>]]
    /\ UNCHANGED <<vars, cached, registered, seen, outcome, races>>

resolveProtocolFee(k) ==
    /\ call[k] # None /\ call[k].at = "start"
    /\ LET c == call[k].client IN
       \/ /\ cached[c] # None
          /\ WithConfig(k, cached[c])
          /\ UNCHANGED cached
       \/ /\ cached[c] = None
          /\ call' = [call EXCEPT ![k].at = "config"]
          /\ UNCHANGED cached
    /\ UNCHANGED <<vars, registered, seen, calls, outcome, races>>

\* getAccountInfo of the config answers, from a node as far behind as may be.
getProtocolConfig(k) ==
    /\ call[k] # None /\ call[k].at = "config"
    /\ \E v \in seen :
          /\ cached' = [cached EXCEPT ![call[k].client] = v]
          /\ WithConfig(k, v)
    /\ UNCHANGED <<vars, registered, seen, calls, outcome, races>>

\* Mutant: only a record that is there is remembered.
Remembered_IfExists(s, payer, exists) == IF exists THEN s \cup {payer} ELSE s

\* The payer is remembered whether the record was there or is about to be.
Remembered(s, payer, exists) == s \cup {payer}

\* getAccountInfo of the fee record answers; a node behind has not got it yet.
resolveProtocolFeeWithRegister(k) ==
    /\ call[k] # None /\ call[k].at = "record"
    /\ \E exists \in {record[call[k].payer] # NoAccount, FALSE} :
          /\ registered' = [registered EXCEPT ![call[k].client] =
                               Remembered(@, call[k].payer, exists)]
          /\ call' = [call EXCEPT ![k] = Resolved(k, call[k].shard, ~exists)]
    /\ UNCHANGED <<vars, cached, seen, calls, outcome, races>>

invalidateProtocolCache(c) ==
    /\ cached[c] # None
    /\ cached' = [cached EXCEPT ![c] = None]
    /\ UNCHANGED <<vars, registered, seen, call, calls, outcome, races>>

-----------------------------------------------------------------------------
(***************************************************************************)
(* Landing: the instructions of the transaction, all or none.              *)
(***************************************************************************)
Registers(tx) == tx[1].op = "RegisterPayer"
Charged(tx) == tx[Len(tx)]
Suffix(keys) == SubSeq(keys, Len(keys) - 3, Len(keys))
Payer(ix) == ix.keys[1].key
ShardOf(ix) == Suffix(ix.keys)[3].key

\* Why the program refuses the transaction, in the order it looks; "" if not.
\* RegisterPayer in front leaves a record behind, which collection then finds;
\* rent and balances come out as if collection had made it.
Refusal(tx) ==
    LET ix == Charged(tx)
        s == Suffix(ix.keys)
        p == Payer(ix)
        rent == IF record[p] = NoAccount THEN SatSub(RENT, lamports[Record(p)]) ELSE 0
    IN  CASE Registers(tx) /\ record[p] # NoAccount -> "IntegratorAlreadyRegistered"
          [] s[4].key # "system_program" -> "FeeAccountsRequired"
          [] s[1].key # ConfigPda -> "ProtocolNotInitialized"
          [] Fee(ix.op) # 0 /\ ShardOf(ix) \notin {Shard(i) : i \in shards} ->
                "InvalidTreasuryShard"
          [] Fee(ix.op) # 0 /\ s[2].key # Record(p) -> "InvalidFeeRecord"
          [] \/ Fee(ix.op) # 0 /\ Fee(ix.op) + rent > lamports[p]
             \/ Registers(tx) /\ rent > lamports[p] -> "InsufficientFunds"
          [] OTHER -> ""

Effect(tx) ==
    LET ix == Charged(tx) p == Payer(ix) IN
    \/ /\ Registers(tx) /\ Fee(ix.op) = 0
       /\ RegisterIntegrator(p)
    \/ /\ ~Registers(tx) \/ Fee(ix.op) # 0
       /\ \E i \in ShardIds :
             /\ ShardOf(ix) = Shard(i) /\ try_collect_fee(ix.op, p, i)

\* Every shard the config speaks of is open.
AllShards ==
    config # NoAccount /\ \A i \in 0 .. config.num_shards - 1 : i \in shards

LandTx(k) ==
    /\ call[k] # None /\ call[k].at = "built"
    /\ LET tx == call[k].tx why == Refusal(tx) IN
       /\ outcome' = [why |-> why, open |-> AllShards]
       /\ IF why = "" THEN Effect(tx) ELSE UNCHANGED vars
       /\ races' = IF why = "IntegratorAlreadyRegistered"
                   THEN [races EXCEPT ![call[k].client] = @ + 1] ELSE races
    /\ call' = [call EXCEPT ![k] = None]
    /\ UNCHANGED <<cached, registered, seen, calls>>

\* A read fails, the passkey prompt is dismissed, or the transaction expires.
Abandon(k) ==
    /\ call[k] # None /\ call[k].at # "start"
    /\ call' = [call EXCEPT ![k] = None]
    /\ UNCHANGED <<vars, cached, registered, seen, calls, outcome, races>>

-----------------------------------------------------------------------------
(***************************************************************************)
(* The admin, through the same client.                                     *)
(***************************************************************************)
\* The byte a number is written as.
U8(n) == n % 256

initializeProtocol(admin, n) ==
    \E fees \in FeePairs, t \in Treasuries :
        InitializeProtocol(PROTOCOL_INIT_AUTHORITY, admin, t, fees[1], fees[2], U8(n))

updateProtocol(admin, enabled) ==
    \E fees \in FeePairs, t \in Treasuries :
        UpdateProtocol(admin, fees[1], fees[2], IF enabled THEN 1 ELSE 0, t)

initializeTreasuryShard(payer, admin, i) == InitializeTreasuryShard(payer, admin, U8(i))

withdrawTreasury(admin, i) ==
    \E t \in Treasuries : WithdrawTreasury(admin, U8(i), t)

registerPayer(payer) == RegisterIntegrator(payer)

\* After an admin's step a node may answer with the new config, or still with
\* an old one.
Administration ==
    /\ \/ \E admin \in Admins :
            \/ \E n \in NumShards : initializeProtocol(admin, n)
            \/ \E enabled \in BOOLEAN : updateProtocol(admin, enabled)
            \/ \E i \in ShardIds : initializeTreasuryShard(admin, admin, i)
            \/ \E i \in ShardIds : withdrawTreasury(admin, i)
       \/ \E payer \in Payers : registerPayer(payer)
    /\ seen' = seen \cup {ConfigView'}
    /\ UNCHANGED <<cached, registered, call, calls, outcome, races>>

ClientsInit ==
    /\ Init
    /\ cached = [c \in Clients |-> None]
    /\ registered = [c \in Clients |-> {}]
    /\ seen = {ConfigView}
    /\ call = [k \in Calls |-> None]
    /\ calls = 0
    /\ outcome = None
    /\ races = [c \in Clients |-> 0]

Step(k) ==
    \/ \E c \in Clients, kind \in CallKinds, p \in Payers : Begin(k, c, kind, p)
    \/ resolveProtocolFee(k) \/ getProtocolConfig(k)
    \/ resolveProtocolFeeWithRegister(k)
    \/ LandTx(k) \/ Abandon(k)

ClientsNext ==
    \/ \E k \in Calls : Step(k)
    \/ \E c \in Clients : invalidateProtocolCache(c)
    \/ Administration

ClientsSpec == ClientsInit /\ [][ClientsNext]_allVars

-----------------------------------------------------------------------------
(***************************************************************************)
(* Properties.                                                             *)
(***************************************************************************)
\* The fee accounts a client appends are never the reason its transaction
\* fails once every shard of the protocol is open, however old the config it
\* cached: built before the protocol was initialised, while it was disabled or
\* with other fees, the suffix is found where the program looks, its shard is
\* one that exists, and the record needs no registration.  What remains is a
\* RegisterPayer that came second, and a payer out of lamports.
StaleConfigServes ==
    outcome # None =>
        \/ outcome.why \in {"", "IntegratorAlreadyRegistered", "InsufficientFunds"}
        \/ outcome.why = "InvalidTreasuryShard" /\ ~outcome.open

\* A client loses the race to register a payer at most once for each call it
\* had under way at the time: what it remembers of the payer outlives the
\* refusal, so the retry carries no RegisterPayer, even when the node it asks
\* has not seen the record.
RacesBounded == \A c \in Clients : races[c] <= Cardinality(Calls)

=============================================================================
