------------------------------ MODULE Protocol ------------------------------
(***************************************************************************)
(* The fee layer of the LazorKit program: the ProtocolConfig with its      *)
(* two-step admin rotation, the treasury shards fees are paid into, the    *)
(* fee record of every payer, and the collection that runs in front of     *)
(* CreateWallet, Execute and ExecuteDeferred.                              *)
(*                                                                         *)
(* One step is one landed instruction, or a transfer between users, or an  *)
(* upgrade of the program to a binary with a newer account version.  The   *)
(* processor behind the fee layer is modelled elsewhere; when it fails the *)
(* fee is reverted with it, so here it succeeds.                           *)
(***************************************************************************)
EXTENDS Integers, FiniteSets

CONSTANTS
    Users,                      \* keys: payers, admins, treasuries
    PROTOCOL_INIT_AUTHORITY,    \* the key that may initialise the protocol
    ShardIds,                   \* shard ids an instruction may name
    Treasuries,                 \* addresses an admin may name as treasury
    MAX_PROTOCOL_FEE_LAMPORTS,  \* ceiling on either fee
    RENT,                       \* rent-exempt minimum of an account
    U32_MAX, U64_MAX,           \* largest counter, largest fee total
    Funds,                      \* bound: lamports each user starts with
    MaxVersion,                 \* bound: newest account version
    MaxSwept,                   \* bound: lamports ever withdrawn
    Admins,                     \* bound: keys ever named as admin
    Gifts,                      \* bound: addresses users send lamports to
    NoAccount,                  \* an address that holds no data
    NoKey                       \* the all-zero key

ConfigPda == <<"protocol_config">>
ShardPda == {"treasury_shard"} \X ShardIds
RecordPda == {"fee_record"} \X Users
Shard(i) == <<"treasury_shard", i>>
Record(p) == <<"fee_record", p>>
Pdas == {ConfigPda} \cup ShardPda \cup RecordPda
Addresses == Users \cup Pdas

Versions == 1 .. MaxVersion
FEE_ELIGIBLE == {"CreateWallet", "Execute", "ExecuteDeferred"}

ProtocolConfig ==
    [version: Versions, enabled: 0 .. 1, num_shards: Nat \ {0},
     admin: Admins \cup {NoKey}, treasury: Treasuries,
     creation_fee: Nat, execution_fee: Nat,
     pending_admin: Admins \cup {NoKey}]
FeeRecord ==
    [version: Versions, total_fees_paid: 0 .. U64_MAX,
     tx_count: 0 .. U32_MAX, wallet_count: 0 .. U32_MAX]

ASSUME ProtocolAssumption ==
    /\ IsFiniteSet(Users) /\ PROTOCOL_INIT_AUTHORITY \in Users
    /\ Users \cap Pdas = {}
    /\ NoKey \notin Users /\ Admins \subseteq Users
    /\ Gifts \subseteq Addresses
    /\ ShardIds \subseteq Nat /\ IsFiniteSet(ShardIds)
    /\ Treasuries \subseteq Addresses
    /\ NoAccount \notin ProtocolConfig \cup FeeRecord
    /\ MAX_PROTOCOL_FEE_LAMPORTS \in Nat /\ RENT \in Nat
    /\ U32_MAX \in Nat /\ U64_MAX \in Nat /\ Funds \in Nat /\ MaxSwept \in Nat
    /\ MaxVersion \in Nat \ {0}

VARIABLES
    binary,     \* CURRENT_ACCOUNT_VERSION of the deployed program
    config,     \* the ProtocolConfig account, or NoAccount
    shards,     \* ids of the treasury shards that exist
    record,     \* the FeeRecord of each payer, or NoAccount
    lamports,   \* balance of every address
    proposer,   \* observer: the admin who made the pending proposal
    swept,      \* observer: lamports ever withdrawn from shards
    paid        \* observer: fees ever collected

vars == <<binary, config, shards, record, lamports, proposer, swept, paid>>

SatSub(m, n) == IF m > n THEN m - n ELSE 0

-----------------------------------------------------------------------------
(***************************************************************************)
(* Shared checks.                                                          *)
(***************************************************************************)
\* ProtocolConfig::load: a config of this binary's layout is there.
Loaded == config # NoAccount /\ config.version = binary

\* The balances after the payer has topped an address up to its rent: somebody
\* may have sent it lamports before.
initialize_pda_account(l, payer, pda) ==
    [l EXCEPT ![payer] = @ - SatSub(RENT, l[pda]),
              ![pda] = @ + SatSub(RENT, l[pda])]

CanFund(l, payer, pda) == SatSub(RENT, l[pda]) <= l[payer]

NewRecord == [version |-> binary, total_fees_paid |-> 0,
              tx_count |-> 0, wallet_count |-> 0]

-----------------------------------------------------------------------------
(***************************************************************************)
(* Administration.                                                         *)
(***************************************************************************)
WithinCeiling(creation_fee, execution_fee) ==
    /\ creation_fee <= MAX_PROTOCOL_FEE_LAMPORTS
    /\ execution_fee <= MAX_PROTOCOL_FEE_LAMPORTS

InitializeProtocol(payer, admin, treasury, creation_fee, execution_fee, n) ==
    /\ n # 0
    /\ WithinCeiling(creation_fee, execution_fee)
    /\ payer = PROTOCOL_INIT_AUTHORITY
    /\ config = NoAccount
    /\ CanFund(lamports, payer, ConfigPda)
    /\ lamports' = initialize_pda_account(lamports, payer, ConfigPda)
    /\ config' = [version |-> binary, enabled |-> 1, num_shards |-> n,
                  admin |-> admin, treasury |-> treasury,
                  creation_fee |-> creation_fee,
                  execution_fee |-> execution_fee, pending_admin |-> NoKey]
    /\ UNCHANGED <<binary, shards, record, proposer, swept, paid>>

UpdateProtocol(admin, creation_fee, execution_fee, enabled, treasury) ==
    /\ WithinCeiling(creation_fee, execution_fee)
    /\ enabled <= 1
    /\ Loaded
    /\ admin = config.admin
    /\ config' = [config EXCEPT !.creation_fee = creation_fee,
                                !.execution_fee = execution_fee,
                                !.enabled = enabled, !.treasury = treasury]
    /\ UNCHANGED <<binary, shards, record, lamports, proposer, swept, paid>>

\* Proposing NoKey cancels.
ProposeProtocolAdmin(admin, new_admin) ==
    /\ Loaded
    /\ admin = config.admin
    /\ config' = [config EXCEPT !.pending_admin = new_admin]
    /\ proposer' = admin
    /\ UNCHANGED <<binary, shards, record, lamports, swept, paid>>

\* Mutant: the proposal stays pending after it was accepted.
AcceptProtocolAdmin_Kept(new_admin) ==
    /\ Loaded
    /\ config.pending_admin # NoKey /\ new_admin = config.pending_admin
    /\ config' = [config EXCEPT !.admin = config.pending_admin]
    /\ UNCHANGED <<binary, shards, record, lamports, proposer, swept, paid>>

AcceptProtocolAdmin(new_admin) ==
    /\ Loaded
    /\ config.pending_admin # NoKey /\ new_admin = config.pending_admin
    /\ config' = [config EXCEPT !.admin = config.pending_admin,
                                !.pending_admin = NoKey]
    /\ UNCHANGED <<binary, shards, record, lamports, proposer, swept, paid>>

InitializeTreasuryShard(payer, admin, i) ==
    /\ Loaded
    /\ admin = config.admin
    /\ i < config.num_shards
    /\ i \notin shards
    /\ CanFund(lamports, payer, Shard(i))
    /\ lamports' = initialize_pda_account(lamports, payer, Shard(i))
    /\ shards' = shards \cup {i}
    /\ UNCHANGED <<binary, config, record, proposer, swept, paid>>

\* The shard is written first and the treasury read after, which matters when
\* the treasury is that shard.
Sweep(i, treasury) ==
    LET excess == SatSub(lamports[Shard(i)], RENT)
        written == [lamports EXCEPT ![Shard(i)] = RENT]
    IN  IF excess = 0 THEN lamports
        ELSE [written EXCEPT ![treasury] = @ + excess]

WithdrawTreasury(admin, i, treasury) ==
    /\ Loaded
    /\ i \in shards
    /\ admin = config.admin
    /\ treasury = config.treasury
    /\ swept + SatSub(lamports[Shard(i)], RENT) <= MaxSwept
    /\ lamports' = Sweep(i, treasury)
    /\ swept' = swept + SatSub(lamports[Shard(i)], RENT)
    /\ UNCHANGED <<binary, config, shards, record, proposer, paid>>

-----------------------------------------------------------------------------
(***************************************************************************)
(* Payers.                                                                 *)
(***************************************************************************)
RegisterIntegrator(payer) ==
    /\ record[payer] = NoAccount
    /\ CanFund(lamports, payer, Record(payer))
    /\ lamports' = initialize_pda_account(lamports, payer, Record(payer))
    /\ record' = [record EXCEPT ![payer] = NewRecord]
    /\ UNCHANGED <<binary, config, shards, proposer, swept, paid>>

\* The fee an instruction owes: none while the protocol is not initialised,
\* not readable by this binary, or disabled.
Fee(op) ==
    IF ~Loaded \/ config.enabled # 1 THEN 0
    ELSE IF op = "CreateWallet" THEN config.creation_fee
    ELSE config.execution_fee

\* Mutant: an unconfigured or disabled protocol refuses the instruction.
SkipFee_Refused(op, payer) ==
    /\ Loaded /\ config.enabled = 1
    /\ Fee(op) = 0
    /\ UNCHANGED <<binary, config, shards, record, lamports, proposer, swept, paid>>

\* Nothing to charge: whatever shard and record were passed go unread.
SkipFee(op, payer) ==
    /\ Fee(op) = 0
    /\ UNCHANGED <<binary, config, shards, record, lamports, proposer, swept, paid>>

\* Mutant: the rent of a new record is recorded as a fee.
Bumped_WithRent(r, op) ==
    [r EXCEPT !.total_fees_paid = @ + Fee(op)
                                    + (IF r = NewRecord THEN RENT ELSE 0),
              !.wallet_count = IF op = "CreateWallet" /\ @ < U32_MAX
                               THEN @ + 1 ELSE @,
              !.tx_count = IF op # "CreateWallet" /\ @ < U32_MAX
                           THEN @ + 1 ELSE @]

\* The record after a fee: the two counters saturate.
Bumped(r, op) ==
    [r EXCEPT !.total_fees_paid = @ + Fee(op),
              !.wallet_count = IF op = "CreateWallet" /\ @ < U32_MAX
                               THEN @ + 1 ELSE @,
              !.tx_count = IF op # "CreateWallet" /\ @ < U32_MAX
                           THEN @ + 1 ELSE @]

\* A first-time payer's record is created on the way.
CollectFee(op, payer, i) ==
    LET first == record[payer] = NoAccount
        r == IF first THEN NewRecord ELSE record[payer]
        l == IF first
             THEN initialize_pda_account(lamports, payer, Record(payer))
             ELSE lamports
    IN  /\ Fee(op) # 0
        /\ i \in shards
        /\ first => CanFund(lamports, payer, Record(payer))
        /\ r.version = binary
        /\ Fee(op) <= l[payer]
        /\ r.total_fees_paid + Fee(op) <= U64_MAX
        /\ lamports' = [l EXCEPT ![payer] = @ - Fee(op),
                                 ![Shard(i)] = @ + Fee(op)]
        /\ record' = [record EXCEPT ![payer] = Bumped(r, op)]
        /\ paid' = paid + Fee(op)
        /\ UNCHANGED <<binary, config, shards, proposer, swept>>

try_collect_fee(op, payer, i) == SkipFee(op, payer) \/ CollectFee(op, payer, i)

-----------------------------------------------------------------------------
(***************************************************************************)
(* The world.                                                              *)
(***************************************************************************)
\* Anybody may send lamports to any address, an account's or a future one's.
Transfer(from, to) ==
    /\ from # to /\ lamports[from] > 0
    /\ lamports' = [lamports EXCEPT ![from] = @ - 1, ![to] = @ + 1]
    /\ UNCHANGED <<binary, config, shards, record, proposer, swept, paid>>

\* A deploy whose CURRENT_ACCOUNT_VERSION the accounts were not migrated to.
Upgrade ==
    /\ binary < MaxVersion
    /\ binary' = binary + 1
    /\ UNCHANGED <<config, shards, record, lamports, proposer, swept, paid>>

Init ==
    /\ binary = 1
    /\ config = NoAccount
    /\ shards = {}
    /\ record = [p \in Users |-> NoAccount]
    /\ lamports = [a \in Addresses |-> IF a \in Users THEN Funds ELSE 0]
    /\ proposer = NoKey
    /\ swept = 0 /\ paid = 0

Fees == 0 .. MAX_PROTOCOL_FEE_LAMPORTS + 1

Administer(admin) ==
    \/ \E treasury \in Treasuries, cf, ef \in Fees, n \in 0 .. 1,
          new \in Admins \cup {NoKey} :
            InitializeProtocol(admin, new, treasury, cf, ef,
                               n * Cardinality(ShardIds))
    \/ \E cf, ef \in Fees, enabled \in 0 .. 2, treasury \in Treasuries :
            UpdateProtocol(admin, cf, ef, enabled, treasury)
    \/ \E new \in Admins \cup {NoKey} : ProposeProtocolAdmin(admin, new)
    \/ AcceptProtocolAdmin(admin)
    \/ \E payer \in Users, i \in ShardIds :
            InitializeTreasuryShard(payer, admin, i)
    \/ \E i \in ShardIds, treasury \in Treasuries :
            WithdrawTreasury(admin, i, treasury)

Next ==
    \/ \E admin \in Users : Administer(admin)
    \/ \E payer \in Users : RegisterIntegrator(payer)
    \/ \E op \in FEE_ELIGIBLE, payer \in Users, i \in ShardIds :
            try_collect_fee(op, payer, i)
    \/ \E from \in Users, to \in Gifts : Transfer(from, to)
    \/ Upgrade

Spec == Init /\ [][Next]_vars

-----------------------------------------------------------------------------
(***************************************************************************)
(* Properties.                                                             *)
(***************************************************************************)
\* Every account keeps its layout: the fees stay under the ceiling, the
\* counters within their width.
TypeOK ==
    /\ binary \in Versions
    /\ config \in ProtocolConfig \cup {NoAccount}
    /\ config # NoAccount =>
          /\ config.creation_fee <= MAX_PROTOCOL_FEE_LAMPORTS
          /\ config.execution_fee <= MAX_PROTOCOL_FEE_LAMPORTS
    /\ shards \subseteq ShardIds
    /\ record \in [Users -> FeeRecord \cup {NoAccount}]
    /\ lamports \in [Addresses -> Nat]

\* An account of the program keeps its rent: no sweep takes a shard below it
\* and no account is opened short of it.
RentKept ==
    /\ config # NoAccount => lamports[ConfigPda] >= RENT
    /\ \A i \in shards : lamports[Shard(i)] >= RENT
    /\ \A p \in Users : record[p] # NoAccount => lamports[Record(p)] >= RENT

\* A sum, as the number of lamports in it.
Units(f) == UNION {{x} \X (1 .. f[x]) : x \in DOMAIN f}
Total(f) == Cardinality(Units(f))

\* What each payer's record claims was paid, and what each shard holds above
\* its rent.
Claimed ==
    [p \in Users |-> IF record[p] = NoAccount THEN 0 ELSE record[p].total_fees_paid]
InShards ==
    [i \in ShardIds |-> IF i \in shards THEN SatSub(lamports[Shard(i)], RENT) ELSE 0]

\* The fee records claim together exactly what was collected, whichever of
\* RegisterIntegrator and the inline creation opened them, and every lamport of
\* it is in a shard above its rent or has been withdrawn.
FeesAccounted ==
    /\ Total(Claimed) = paid
    /\ paid <= swept + Total(InShards)

\* A rotation that can still be accepted was proposed by the admin of now,
\* never by one who has been replaced since.
PendingIsCurrent ==
    config # NoAccount /\ config.pending_admin # NoKey
      => proposer = config.admin

\* A payer the fee layer has no quarrel with: it can pay the highest fee and a
\* record's rent, its record if any is of this binary's layout, and its total
\* is not at the end of its u64.
Solvent(p) ==
    /\ lamports[p] >= MAX_PROTOCOL_FEE_LAMPORTS + RENT
    /\ record[p] # NoAccount =>
          /\ record[p].version = binary
          /\ record[p].total_fees_paid + MAX_PROTOCOL_FEE_LAMPORTS <= U64_MAX

CanPass(p) ==
    \A op \in FEE_ELIGIBLE : \E i \in ShardIds :
        ENABLED try_collect_fee(op, p, i)

\* With one shard in place, whatever the admin configures, however often a
\* payer has paid and whichever account version is deployed, a solvent payer
\* gets every fee-eligible instruction past the fee layer.
NoFreeze == shards # {} => \A p \in Users : Solvent(p) => CanPass(p)

\* One fee-eligible instruction costs its payer the ceiling at most, and once
\* in its life the rent of its record.
CostBounded ==
    [][\A op \in FEE_ELIGIBLE, p \in Users, i \in ShardIds :
         try_collect_fee(op, p, i) =>
           lamports[p] - lamports'[p] <=
             MAX_PROTOCOL_FEE_LAMPORTS
               + (IF record[p] = NoAccount THEN RENT ELSE 0)]_vars

RecordKept(p) ==
    /\ record'[p] # NoAccount
    /\ record'[p].total_fees_paid >= record[p].total_fees_paid
    /\ record'[p].tx_count >= record[p].tx_count
    /\ record'[p].wallet_count >= record[p].wallet_count

\* A payer's record is never lost and never starts over, whichever of
\* RegisterIntegrator and the inline creation came first.
RecordsGrow ==
    [][\A p \in Users : record[p] # NoAccount => RecordKept(p)]_vars
=============================================================================
