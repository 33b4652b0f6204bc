--------------------------- MODULE ProtocolProofs ---------------------------
(***************************************************************************)
(* Proofs about Protocol: every account keeps its layout and its rent, a   *)
(* proposal that can be accepted is the present admin's, a payer's record  *)
(* only grows, every fee on record is in a shard or withdrawn, and no      *)
(* instruction costs more than the ceiling and a record's rent, for any    *)
(* users, shards, fees and account versions.                               *)
(*                                                                         *)
(* The first three are inductive together: the rent of an account is kept  *)
(* because whatever takes lamports takes them from a user, who is not a    *)
(* program address, or from a shard down to its rent.  The fees on record  *)
(* are accounted for on top of them: a fee paid into a shard counts in     *)
(* full only because the rent was there before.                            *)
(***************************************************************************)
EXTENDS Protocol, FiniteSetTheorems, TLAPS

Balances == [Addresses -> Nat]

IInv == TypeOK /\ RentKept /\ PendingIsCurrent

\* Program addresses are addresses, and no user's.
LEMMA PdaAddresses ==
    /\ ConfigPda \in Pdas
    /\ \A i \in ShardIds : Shard(i) \in Pdas
    /\ \A p \in Users : Record(p) \in Pdas
    /\ Pdas \subseteq Addresses /\ Users \subseteq Addresses
    /\ \A p \in Users : p \notin Pdas
BY ProtocolAssumption
   DEF Pdas, Addresses, ShardPda, RecordPda, Shard, Record

\* Addresses of two kinds, and of two shards or payers, are different.
LEMMA PdasDistinct ==
    /\ \A i \in ShardIds : Shard(i) # ConfigPda
    /\ \A p \in Users : Record(p) # ConfigPda
    /\ \A i \in ShardIds, p \in Users : Shard(i) # Record(p)
    /\ \A i, j \in ShardIds : Shard(i) = Shard(j) => i = j
BY DEF Shard, Record, ConfigPda

\* initialize_pda_account keeps balances natural, fills the address up to its
\* rent and takes nothing from any other program address.
LEMMA ToppedUp ==
    ASSUME NEW l \in Balances, NEW payer \in Users, NEW pda \in Pdas,
           CanFund(l, payer, pda)
    PROVE  /\ initialize_pda_account(l, payer, pda) \in Balances
           /\ initialize_pda_account(l, payer, pda)[pda] >= RENT
           /\ \A a \in Pdas : initialize_pda_account(l, payer, pda)[a] >= l[a]
<1> DEFINE need == SatSub(RENT, l[pda])
<1>1. payer \in Addresses /\ pda \in Addresses /\ payer # pda
      /\ Pdas \subseteq Addresses /\ payer \notin Pdas
  BY PdaAddresses
<1>2. /\ need \in Nat /\ need <= l[payer] /\ l[pda] + need >= RENT
      /\ l[payer] \in Nat /\ l[pda] \in Nat
  BY <1>1, ProtocolAssumption DEF CanFund, SatSub, Balances
<1> DEFINE m == [l EXCEPT ![payer] = l[payer] - need, ![pda] = l[pda] + need]
<1>3. initialize_pda_account(l, payer, pda) = m
  BY <1>1 DEF initialize_pda_account, Balances
<1> HIDE DEF need
<1>4. m \in Balances
  BY <1>1, <1>2 DEF Balances
<1>5. m[pda] = l[pda] + need
      /\ \A a \in Pdas : a # pda => m[a] = l[a]
  BY <1>1 DEF Balances
<1>6. \A a \in Pdas : l[a] \in Nat
  BY <1>1 DEF Balances
<1> HIDE DEF m
<1> QED
  BY <1>2, <1>3, <1>4, <1>5, <1>6

\* A payment from a user to an address keeps balances natural and takes
\* nothing from a program address.
LEMMA Paid ==
    ASSUME NEW l \in Balances, NEW p \in Users, NEW a \in Addresses,
           p # a, NEW n \in Nat, n <= l[p]
    PROVE  /\ [l EXCEPT ![p] = @ - n, ![a] = @ + n] \in Balances
           /\ \A b \in Pdas : [l EXCEPT ![p] = @ - n, ![a] = @ + n][b] >= l[b]
<1>1. /\ p \in Addresses /\ p \notin Pdas /\ Pdas \subseteq Addresses
      /\ l[p] \in Nat /\ l[a] \in Nat
  BY PdaAddresses DEF Balances
<1> DEFINE m == [l EXCEPT ![p] = l[p] - n, ![a] = l[a] + n]
<1>2. [l EXCEPT ![p] = @ - n, ![a] = @ + n] = m
  BY <1>1 DEF Balances
<1>3. m \in Balances
  BY <1>1 DEF Balances
<1>4. ASSUME NEW b \in Pdas PROVE m[b] >= l[b]
  BY <1>1 DEF Balances
<1> QED
  BY Zenon, <1>2, <1>3, <1>4
\* An account keeps its rent when its address gains, keeps, or is left with the
\* rent, and a new account's address is filled up to it.
LEMMA RentCarried ==
    ASSUME TypeOK, RentKept, lamports' \in Balances,
           \A a \in Pdas : lamports'[a] >= lamports[a] \/ lamports'[a] >= RENT,
           config' # NoAccount =>
               config # NoAccount \/ lamports'[ConfigPda] >= RENT,
           shards' \subseteq ShardIds,
           \A i \in shards' : i \in shards \/ lamports'[Shard(i)] >= RENT,
           \A p \in Users : record'[p] # NoAccount =>
               record[p] # NoAccount \/ lamports'[Record(p)] >= RENT
    PROVE  RentKept'
<1>1. \A a \in Pdas : lamports[a] \in Nat /\ lamports'[a] \in Nat
  BY PdaAddresses DEF TypeOK, Balances
<1>2. \A a \in Pdas : lamports[a] >= RENT => lamports'[a] >= RENT
  BY <1>1, ProtocolAssumption
<1>3. config' # NoAccount => lamports'[ConfigPda] >= RENT
  BY <1>2, PdaAddresses DEF RentKept
<1>4. ASSUME NEW i \in shards' PROVE lamports'[Shard(i)] >= RENT
  BY <1>2, PdaAddresses DEF RentKept
<1>5. ASSUME NEW p \in Users, record'[p] # NoAccount
      PROVE  lamports'[Record(p)] >= RENT
  BY <1>2, <1>5, PdaAddresses DEF RentKept
<1> QED
  BY <1>3, <1>4, <1>5 DEF RentKept

\* A fee is a number of lamports within the ceiling.
LEMMA FeeRange ==
    ASSUME TypeOK, NEW op \in FEE_ELIGIBLE
    PROVE  Fee(op) \in Nat /\ Fee(op) <= MAX_PROTOCOL_FEE_LAMPORTS
<1>1. CASE ~Loaded \/ config.enabled # 1
  BY <1>1, ProtocolAssumption DEF Fee
<1>2. CASE Loaded /\ config.enabled = 1
  BY <1>2 DEF Fee, Loaded, TypeOK, ProtocolConfig
<1> QED
  BY <1>1, <1>2

\* A fresh record, and a record after a fee that fits its u64, are records.
LEMMA RecordTypes ==
    ASSUME TypeOK, NEW op \in FEE_ELIGIBLE, NEW r \in FeeRecord,
           r.total_fees_paid + Fee(op) <= U64_MAX
    PROVE  /\ NewRecord \in FeeRecord
           /\ Fee(op) \in Nat
           /\ Bumped(r, op) \in FeeRecord
<1>1. Fee(op) \in Nat
  BY FeeRange
<1>2. NewRecord \in FeeRecord
  BY ProtocolAssumption DEF NewRecord, FeeRecord, TypeOK
<1> HIDE DEF Fee
<1> DEFINE total == r.total_fees_paid + Fee(op)
           wallets == IF op = "CreateWallet" /\ r.wallet_count < U32_MAX
                      THEN r.wallet_count + 1 ELSE r.wallet_count
           txs == IF op # "CreateWallet" /\ r.tx_count < U32_MAX
                  THEN r.tx_count + 1 ELSE r.tx_count
<1>3. /\ total \in 0 .. U64_MAX
      /\ wallets \in 0 .. U32_MAX /\ txs \in 0 .. U32_MAX
  BY <1>1, ProtocolAssumption DEF FeeRecord
<1>4. Bumped(r, op) = [r EXCEPT !.total_fees_paid = total,
                                !.wallet_count = wallets, !.tx_count = txs]
  BY DEF Bumped
<1> HIDE DEF total, wallets, txs
<1>5. Bumped(r, op) \in FeeRecord
  BY Zenon, <1>3, <1>4 DEF FeeRecord
<1> QED
  BY <1>1, <1>2, <1>5

\* InitializeProtocol writes a well-formed config with no rotation pending.
LEMMA InitializeProtocolStep ==
    ASSUME IInv, NEW payer \in Users, NEW admin \in Admins \cup {NoKey},
           NEW treasury \in Treasuries, NEW cf \in Nat, NEW ef \in Nat,
           NEW n \in Nat,
           InitializeProtocol(payer, admin, treasury, cf, ef, n)
    PROVE  IInv'
<1>1. /\ lamports' \in Balances
      /\ lamports'[ConfigPda] >= RENT
      /\ \A a \in Pdas : lamports'[a] >= lamports[a]
  BY ToppedUp, PdaAddresses DEF InitializeProtocol, IInv, TypeOK, Balances
<1>2. /\ config' \in ProtocolConfig
      /\ config'.creation_fee <= MAX_PROTOCOL_FEE_LAMPORTS
      /\ config'.execution_fee <= MAX_PROTOCOL_FEE_LAMPORTS
      /\ config'.pending_admin = NoKey
  BY DEF InitializeProtocol, WithinCeiling, ProtocolConfig, IInv, TypeOK
<1>3. TypeOK'
  BY <1>1, <1>2 DEF InitializeProtocol, IInv, TypeOK, Balances
<1>4. RentKept'
  BY <1>1, RentCarried DEF InitializeProtocol, IInv, TypeOK
<1>5. PendingIsCurrent'
  BY <1>2 DEF PendingIsCurrent
<1> QED
  BY <1>3, <1>4, <1>5 DEF IInv

\* An instruction that rewrites the config and nothing the rent depends on.
LEMMA ConfigStep ==
    ASSUME IInv, Loaded, config' \in ProtocolConfig,
           config'.creation_fee <= MAX_PROTOCOL_FEE_LAMPORTS,
           config'.execution_fee <= MAX_PROTOCOL_FEE_LAMPORTS,
           config'.pending_admin # NoKey => proposer' = config'.admin,
           UNCHANGED <<binary, shards, record, lamports>>
    PROVE  IInv'
<1>1. TypeOK'
  BY DEF IInv, TypeOK
<1>2. RentKept'
  BY DEF IInv, RentKept, Loaded
<1>3. PendingIsCurrent'
  BY DEF PendingIsCurrent
<1> QED
  BY <1>1, <1>2, <1>3 DEF IInv

\* UpdateProtocol leaves the admin and the rotation alone.
LEMMA UpdateProtocolStep ==
    ASSUME IInv, NEW admin \in Users, NEW cf \in Nat, NEW ef \in Nat,
           NEW enabled \in Nat, NEW treasury \in Treasuries,
           UpdateProtocol(admin, cf, ef, enabled, treasury)
    PROVE  IInv'
<1>1. config \in ProtocolConfig
  BY DEF IInv, TypeOK, UpdateProtocol, Loaded
<1>0. enabled \in 0 .. 1
  BY DEF UpdateProtocol
<1>2. /\ config' \in ProtocolConfig
      /\ config'.creation_fee = cf /\ config'.execution_fee = ef
      /\ config'.admin = config.admin
      /\ config'.pending_admin = config.pending_admin
  BY Zenon, <1>0, <1>1 DEF UpdateProtocol, ProtocolConfig
<1>3. config'.pending_admin # NoKey => proposer' = config'.admin
  BY <1>2 DEF IInv, PendingIsCurrent, UpdateProtocol, Loaded
<1> QED
  BY <1>2, <1>3, ConfigStep DEF UpdateProtocol, WithinCeiling

\* A proposal is its admin's own; accepting it, or cancelling it, leaves none.
LEMMA RotationStep ==
    ASSUME IInv, NEW admin \in Users,
           \/ \E new \in Admins \cup {NoKey} : ProposeProtocolAdmin(admin, new)
           \/ AcceptProtocolAdmin(admin)
    PROVE  IInv'
<1>1. Loaded
  BY DEF ProposeProtocolAdmin, AcceptProtocolAdmin
<1>2. /\ config \in ProtocolConfig
      /\ config.creation_fee <= MAX_PROTOCOL_FEE_LAMPORTS
      /\ config.execution_fee <= MAX_PROTOCOL_FEE_LAMPORTS
  BY <1>1 DEF IInv, TypeOK, Loaded
<1>3. CASE \E new \in Admins \cup {NoKey} : ProposeProtocolAdmin(admin, new)
  <2>1. PICK new \in Admins \cup {NoKey} : ProposeProtocolAdmin(admin, new)
    BY <1>3
  <2>2. /\ config' \in ProtocolConfig
        /\ config'.creation_fee = config.creation_fee
        /\ config'.execution_fee = config.execution_fee
        /\ proposer' = config'.admin
    BY <1>2, <2>1 DEF ProposeProtocolAdmin, ProtocolConfig
  <2> QED
    BY <1>1, <1>2, <2>1, <2>2, ConfigStep DEF ProposeProtocolAdmin
<1>4. CASE AcceptProtocolAdmin(admin)
  <2>1. /\ config' \in ProtocolConfig
        /\ config'.creation_fee = config.creation_fee
        /\ config'.execution_fee = config.execution_fee
        /\ config'.pending_admin = NoKey
    BY Zenon, <1>2, <1>4 DEF AcceptProtocolAdmin, ProtocolConfig
  <2> QED
    BY <1>1, <1>2, <1>4, <2>1, ConfigStep DEF AcceptProtocolAdmin
<1> QED
  BY <1>3, <1>4
\* InitializeTreasuryShard opens a shard with its rent.
LEMMA InitializeTreasuryShardStep ==
    ASSUME IInv, NEW payer \in Users, NEW admin \in Users, NEW i \in ShardIds,
           InitializeTreasuryShard(payer, admin, i)
    PROVE  IInv'
<1>1. /\ lamports' \in Balances
      /\ lamports'[Shard(i)] >= RENT
      /\ \A a \in Pdas : lamports'[a] >= lamports[a]
  BY ToppedUp, PdaAddresses
     DEF InitializeTreasuryShard, IInv, TypeOK, Balances
<1>2. TypeOK'
  BY <1>1 DEF InitializeTreasuryShard, IInv, TypeOK, Balances
<1>3. RentKept'
  BY <1>1, <1>2, RentCarried DEF InitializeTreasuryShard, IInv, TypeOK
<1>4. PendingIsCurrent'
  BY DEF InitializeTreasuryShard, IInv, PendingIsCurrent
<1> QED
  BY <1>2, <1>3, <1>4 DEF IInv

\* WithdrawTreasury leaves the shard its rent, also when the treasury is the
\* shard, or another account of the program.
LEMMA WithdrawTreasuryStep ==
    ASSUME IInv, NEW admin \in Users, NEW i \in ShardIds,
           NEW treasury \in Treasuries, WithdrawTreasury(admin, i, treasury)
    PROVE  IInv'
<1> DEFINE excess == SatSub(lamports[Shard(i)], RENT)
           m == [lamports EXCEPT ![Shard(i)] = RENT]
<1>1. /\ Shard(i) \in Addresses /\ treasury \in Addresses
      /\ Pdas \subseteq Addresses /\ lamports \in Balances
  BY PdaAddresses, ProtocolAssumption DEF IInv, TypeOK, Balances
<1>2. excess \in Nat
  BY <1>1, ProtocolAssumption DEF SatSub, Balances
<1>3. /\ m \in Balances
      /\ \A a \in Pdas : m[a] = lamports[a] \/ m[a] = RENT
  BY <1>1, ProtocolAssumption DEF Balances
<1>4. lamports' = IF excess = 0 THEN lamports
                  ELSE [m EXCEPT ![treasury] = m[treasury] + excess]
  BY DEF WithdrawTreasury, Sweep
<1> HIDE DEF excess, m
<1>5. lamports' \in Balances
  BY <1>1, <1>2, <1>3, <1>4 DEF Balances
<1>6. ASSUME NEW a \in Pdas
      PROVE  lamports'[a] >= lamports[a] \/ lamports'[a] >= RENT
  <2>1. lamports[a] \in Nat /\ m[a] \in Nat /\ RENT \in Nat
    BY <1>1, <1>3, ProtocolAssumption DEF Balances
  <2>2. lamports'[a] \in {lamports[a], m[a], m[a] + excess}
    BY <1>1, <1>3, <1>4 DEF Balances
  <2> QED
    BY <1>2, <1>3, <2>1, <2>2
<1>7. TypeOK'
  BY <1>5 DEF WithdrawTreasury, IInv, TypeOK, Balances
<1>8. RentKept'
  BY <1>5, <1>6, RentCarried DEF WithdrawTreasury, IInv, TypeOK
<1>9. PendingIsCurrent'
  BY DEF WithdrawTreasury, IInv, PendingIsCurrent
<1> QED
  BY <1>7, <1>8, <1>9 DEF IInv

\* RegisterIntegrator opens a record with its rent.
LEMMA RegisterIntegratorStep ==
    ASSUME IInv, NEW payer \in Users, RegisterIntegrator(payer)
    PROVE  IInv'
<1>1. /\ lamports' \in Balances
      /\ lamports'[Record(payer)] >= RENT
      /\ \A a \in Pdas : lamports'[a] >= lamports[a]
  BY ToppedUp, PdaAddresses DEF RegisterIntegrator, IInv, TypeOK, Balances
<1>2. NewRecord \in FeeRecord
  BY ProtocolAssumption DEF NewRecord, FeeRecord, IInv, TypeOK
<1>3. TypeOK'
  BY <1>1, <1>2 DEF RegisterIntegrator, IInv, TypeOK, Balances
<1>4. \A p \in Users : p # payer => record'[p] = record[p]
  BY DEF RegisterIntegrator, IInv, TypeOK
<1>5. RentKept'
  BY <1>1, <1>4, RentCarried DEF RegisterIntegrator, IInv, TypeOK
<1>6. PendingIsCurrent'
  BY DEF RegisterIntegrator, IInv, PendingIsCurrent
<1> QED
  BY <1>3, <1>5, <1>6 DEF IInv

\* CollectFee opens the record of a first-time payer with its rent, and moves
\* the fee out of the payer's own balance.
LEMMA CollectFeeStep ==
    ASSUME IInv, NEW op \in FEE_ELIGIBLE, NEW payer \in Users,
           NEW i \in ShardIds, CollectFee(op, payer, i)
    PROVE  IInv'
<1> DEFINE first == record[payer] = NoAccount
           r == IF first THEN NewRecord ELSE record[payer]
           l == IF first
                THEN initialize_pda_account(lamports, payer, Record(payer))
                ELSE lamports
<1>1. /\ lamports \in Balances /\ TypeOK
      /\ Record(payer) \in Pdas /\ Shard(i) \in Addresses /\ payer # Shard(i)
      /\ Pdas \subseteq Addresses
  BY PdaAddresses DEF IInv, TypeOK, Balances
<1>2. /\ l \in Balances
      /\ first => l[Record(payer)] >= RENT
      /\ \A a \in Pdas : l[a] >= lamports[a]
  <2>1. CASE first
    BY <1>1, <2>1, ToppedUp DEF CollectFee
  <2>2. CASE ~first
    BY <1>1, <2>2 DEF Balances
  <2> QED
    BY <2>1, <2>2
<1>3. r \in FeeRecord /\ r.total_fees_paid + Fee(op) <= U64_MAX
  <2>1. NewRecord \in FeeRecord
    BY <1>1, ProtocolAssumption DEF NewRecord, FeeRecord, TypeOK
  <2> QED
    BY <1>1, <2>1 DEF CollectFee, TypeOK
<1>4. Fee(op) \in Nat /\ Bumped(r, op) \in FeeRecord
  BY <1>1, <1>3, RecordTypes
<1>5. /\ Fee(op) <= l[payer]
      /\ lamports' = [l EXCEPT ![payer] = @ - Fee(op),
                               ![Shard(i)] = @ + Fee(op)]
      /\ record' = [record EXCEPT ![payer] = Bumped(r, op)]
      /\ UNCHANGED <<binary, config, shards, proposer>>
  BY DEF CollectFee
<1> HIDE DEF l, r
<1>6. lamports' \in Balances /\ \A a \in Pdas : lamports'[a] >= l[a]
  BY Zenon, <1>1, <1>2, <1>4, <1>5, Paid
<1>7. \A a \in Pdas : /\ lamports[a] \in Nat /\ l[a] \in Nat
                      /\ lamports'[a] \in Nat
  BY <1>1, <1>2, <1>6 DEF Balances
<1>8. /\ \A a \in Pdas : lamports'[a] >= lamports[a]
      /\ first => lamports'[Record(payer)] >= RENT
  BY <1>1, <1>2, <1>6, <1>7, ProtocolAssumption
<1>9. TypeOK'
  BY <1>1, <1>4, <1>5, <1>6 DEF TypeOK, Balances
<1>10. \A p \in Users : p # payer => record'[p] = record[p]
  BY <1>1, <1>5 DEF TypeOK
<1>11. RentKept'
  BY Zenon, <1>1, <1>5, <1>6, <1>8, <1>10, RentCarried DEF IInv, TypeOK
<1>12. PendingIsCurrent'
  BY <1>5 DEF IInv, PendingIsCurrent
<1> QED
  BY <1>9, <1>11, <1>12 DEF IInv
\* Users' transfers, upgrades and instructions that owe no fee.
LEMMA OtherSteps ==
    ASSUME IInv,
           \/ \E op \in FEE_ELIGIBLE, payer \in Users : SkipFee(op, payer)
           \/ \E from \in Users, to \in Gifts : Transfer(from, to)
           \/ Upgrade
    PROVE  IInv'
<1>1. ASSUME NEW op \in FEE_ELIGIBLE, NEW payer \in Users, SkipFee(op, payer)
      PROVE  IInv'
  BY <1>1 DEF SkipFee, IInv, TypeOK, RentKept, PendingIsCurrent
<1>2. ASSUME NEW from \in Users, NEW to \in Gifts, Transfer(from, to)
      PROVE  IInv'
  <2>1. lamports \in Balances /\ to \in Addresses /\ lamports[from] >= 1
    BY <1>2, PdaAddresses, ProtocolAssumption
       DEF Transfer, IInv, TypeOK, Balances
  <2>2. /\ lamports' \in Balances
        /\ \A a \in Pdas : lamports'[a] >= lamports[a]
    BY Zenon, <1>2, <2>1, Paid DEF Transfer
  <2>3. TypeOK' /\ PendingIsCurrent'
    BY <1>2, <2>2 DEF Transfer, IInv, TypeOK, PendingIsCurrent, Balances
  <2>4. RentKept'
    BY Zenon, <1>2, <2>2, RentCarried DEF Transfer, IInv, TypeOK
  <2> QED
    BY <2>3, <2>4 DEF IInv
<1>3. CASE Upgrade
  <2>1. binary' \in Versions
    BY <1>3, ProtocolAssumption DEF Upgrade, IInv, TypeOK, Versions
  <2> QED
    BY <1>3, <2>1 DEF Upgrade, IInv, TypeOK, RentKept, PendingIsCurrent
<1> QED
  BY <1>1, <1>2, <1>3

\* Before the protocol is initialised nothing is open.
LEMMA InitIInv == Init => IInv
<1> SUFFICES ASSUME Init PROVE IInv
  OBVIOUS
<1>1. TypeOK
  BY ProtocolAssumption DEF Init, TypeOK, Versions, Addresses
<1>2. RentKept /\ PendingIsCurrent
  BY DEF Init, RentKept, PendingIsCurrent
<1> QED
  BY <1>1, <1>2 DEF IInv

\* Every step preserves the invariant.
LEMMA NextIInv == IInv /\ [Next]_vars => IInv'
<1> SUFFICES ASSUME IInv, [Next]_vars PROVE IInv'
  OBVIOUS
<1>1. ASSUME NEW admin \in Users, Administer(admin) PROVE IInv'
  <2>1. Fees \subseteq Nat /\ Cardinality(ShardIds) \in Nat
    BY ProtocolAssumption, FS_CardinalityType DEF Fees
  <2>2. ASSUME NEW treasury \in Treasuries, NEW cf \in Fees, NEW ef \in Fees,
               NEW n \in 0 .. 1, NEW new \in Admins \cup {NoKey},
               InitializeProtocol(admin, new, treasury, cf, ef,
                                  n * Cardinality(ShardIds))
        PROVE  IInv'
    <3>1. n * Cardinality(ShardIds) \in Nat
      BY <2>1
    <3> QED
      BY <2>1, <2>2, <3>1, InitializeProtocolStep
  <2>3. ASSUME NEW cf \in Fees, NEW ef \in Fees, NEW enabled \in 0 .. 2,
               NEW treasury \in Treasuries,
               UpdateProtocol(admin, cf, ef, enabled, treasury)
        PROVE  IInv'
    BY <2>1, <2>3, UpdateProtocolStep
  <2>4. ASSUME NEW payer \in Users, NEW i \in ShardIds,
               InitializeTreasuryShard(payer, admin, i)
        PROVE  IInv'
    BY <2>4, InitializeTreasuryShardStep
  <2>5. ASSUME NEW i \in ShardIds, NEW treasury \in Treasuries,
               WithdrawTreasury(admin, i, treasury)
        PROVE  IInv'
    BY <2>5, WithdrawTreasuryStep
  <2> QED
    BY <1>1, <2>2, <2>3, <2>4, <2>5, RotationStep DEF Administer
<1>2. ASSUME NEW op \in FEE_ELIGIBLE, NEW payer \in Users, NEW i \in ShardIds,
             try_collect_fee(op, payer, i)
      PROVE  IInv'
  BY <1>2, CollectFeeStep, OtherSteps DEF try_collect_fee
<1>3. CASE UNCHANGED vars
  BY <1>3 DEF vars, IInv, TypeOK, RentKept, PendingIsCurrent
<1> QED
  BY <1>1, <1>2, <1>3, RegisterIntegratorStep, OtherSteps DEF Next

\* IInv is an inductive invariant of the fee layer.
THEOREM Inductive == Spec => []IInv
BY InitIInv, NextIInv, PTL DEF Spec

\* No instruction of the fee layer writes a fee above the ceiling, overdraws a
\* balance or takes a counter past its width.
THEOREM FeeLayerTypes == Spec => []TypeOK
<1>1. IInv => TypeOK
  BY DEF IInv
<1> QED
  BY <1>1, Inductive, PTL

\* An account of the fee layer, once open, keeps its rent for ever: whoever is
\* named as treasury, and however often its shard is swept.
THEOREM RentForEver == Spec => []RentKept
<1>1. IInv => RentKept
  BY DEF IInv
<1> QED
  BY <1>1, Inductive, PTL

\* AcceptProtocolAdmin can only complete a rotation the present admin proposed.
THEOREM NoStaleProposal == Spec => []PendingIsCurrent
<1>1. IInv => PendingIsCurrent
  BY DEF IInv
<1> QED
  BY <1>1, Inductive, PTL

\* A fee's record does not shrink: the counters saturate and the total grows.
LEMMA BumpedGrows ==
    ASSUME NEW r \in FeeRecord, NEW op \in FEE_ELIGIBLE, Fee(op) \in Nat
    PROVE  /\ Bumped(r, op).total_fees_paid >= r.total_fees_paid
           /\ Bumped(r, op).tx_count >= r.tx_count
           /\ Bumped(r, op).wallet_count >= r.wallet_count
<1>1. /\ r.total_fees_paid \in Nat /\ r.tx_count \in Nat
      /\ r.wallet_count \in Nat
  BY DEF FeeRecord
<1>2. /\ Bumped(r, op).total_fees_paid = r.total_fees_paid + Fee(op)
      /\ Bumped(r, op).tx_count \in {r.tx_count, r.tx_count + 1}
      /\ Bumped(r, op).wallet_count \in {r.wallet_count, r.wallet_count + 1}
  BY DEF Bumped, FeeRecord
<1> QED
  BY <1>1, <1>2

\* A record a step does not touch is kept.
LEMMA UntouchedKept ==
    ASSUME IInv, NEW p \in Users, record[p] # NoAccount, record'[p] = record[p]
    PROVE  RecordKept(p)
BY DEF IInv, TypeOK, FeeRecord, RecordKept

\* Every step keeps every record that exists.
LEMMA NextRecords ==
    ASSUME IInv, IInv', Next
    PROVE  \A p \in Users : record[p] # NoAccount => RecordKept(p)
<1> SUFFICES ASSUME NEW p \in Users, record[p] # NoAccount
             PROVE  RecordKept(p)
  OBVIOUS
<1>1. CASE UNCHANGED record
  BY <1>1, UntouchedKept
<1>2. ASSUME NEW payer \in Users, RegisterIntegrator(payer)
      PROVE  RecordKept(p)
  <2>1. payer # p /\ record'[p] = record[p]
    BY <1>2 DEF RegisterIntegrator, IInv, TypeOK
  <2> QED
    BY <2>1, UntouchedKept
<1>3. ASSUME NEW op \in FEE_ELIGIBLE, NEW payer \in Users, NEW i \in ShardIds,
             CollectFee(op, payer, i)
      PROVE  RecordKept(p)
  <2>1. CASE payer # p
    <3>1. record'[p] = record[p]
      BY <1>3, <2>1 DEF CollectFee, IInv, TypeOK
    <3> QED
      BY <3>1, UntouchedKept
  <2>2. CASE payer = p
    <3>1. record[p] \in FeeRecord /\ Fee(op) \in Nat
      BY FeeRange DEF IInv, TypeOK
    <3>2. record'[p] = Bumped(record[p], op)
      BY <1>3, <2>2 DEF CollectFee, IInv, TypeOK
    <3>3. record'[p] # NoAccount
      <4>1. Bumped(record[p], op) \in FeeRecord
        BY <1>3, <2>2, <3>1, RecordTypes DEF CollectFee, IInv
      <4> QED
        BY <3>2, <4>1, ProtocolAssumption
    <3> QED
      BY <3>1, <3>2, <3>3, BumpedGrows DEF RecordKept
  <2> QED
    BY <2>1, <2>2
<1>4. ASSUME NEW admin \in Users, Administer(admin)
      PROVE  UNCHANGED record
  BY Zenon, <1>4 DEF Administer, InitializeProtocol, UpdateProtocol,
     ProposeProtocolAdmin, AcceptProtocolAdmin, InitializeTreasuryShard,
     WithdrawTreasury
<1> QED
  BY <1>1, <1>2, <1>3, <1>4
     DEF Next, try_collect_fee, SkipFee, Transfer, Upgrade

\* A payer's record, whether RegisterIntegrator or its first fee created it, is
\* never reset: its totals only grow.
THEOREM RecordsOnlyGrow == Spec => RecordsGrow
<1>1. IInv /\ IInv' /\ [Next]_vars
        => [\A p \in Users : record[p] # NoAccount => RecordKept(p)]_vars
  BY NextRecords
<1> QED
  BY <1>1, Inductive, PTL DEF Spec, RecordsGrow

-----------------------------------------------------------------------------
(***************************************************************************)
(* The fees add up.                                                        *)
(***************************************************************************)
\* A sum over finitely many is of finitely many units.
LEMMA UnitsFinite ==
    ASSUME NEW S, IsFiniteSet(S), NEW f \in [S -> Nat]
    PROVE  IsFiniteSet(Units(f)) /\ Total(f) \in Nat
<1> DEFINE U == [x \in S |-> {x} \X (1 .. f[x])]
           T == {U[x] : x \in S}
<1>1. IsFiniteSet(T)
  <2>1. U \in Surjection(S, T)
    BY Zenon DEF Surjection
  <2> QED
    BY Zenon, <2>1, FS_Surjection
<1>2. ASSUME NEW x \in S PROVE IsFiniteSet(U[x])
  <2>1. f[x] \in Int /\ 1 \in Int
    OBVIOUS
  <2>2. IsFiniteSet({x}) /\ IsFiniteSet(1 .. f[x])
    BY <2>1, Zenon, FS_Singleton, FS_Interval
  <2>3. IsFiniteSet({x} \X (1 .. f[x]))
    BY <2>2, Zenon, FS_Product
  <2> QED
    BY <2>3
<1>3. IsFiniteSet(UNION T)
  BY Zenon, <1>1, <1>2, FS_UNION
<1>4. Units(f) = UNION T
  BY DEF Units
<1> QED
  BY <1>3, <1>4, FS_CardinalityType DEF Total

\* A unit of f is one of x's f[x].
LEMMA UnitsOf ==
    ASSUME NEW S, NEW f \in [S -> Nat]
    PROVE  \A u : u \in Units(f) <=> \E x \in S : \E n \in 1 .. f[x] : u = <<x, n>>
BY DEF Units

\* A sum grows with its terms.
LEMMA TotalGrows ==
    ASSUME NEW S, IsFiniteSet(S), NEW f \in [S -> Nat], NEW g \in [S -> Nat],
           \A x \in S : f[x] <= g[x]
    PROVE  Total(f) <= Total(g)
<1>1. ASSUME NEW u \in Units(f) PROVE u \in Units(g)
  <2>1. PICK x \in S : \E n \in 1 .. f[x] : u = <<x, n>>
    BY UnitsOf
  <2>0. PICK n \in 1 .. f[x] : u = <<x, n>>
    BY <2>1
  <2>2. n \in 1 .. g[x]
    OBVIOUS
  <2> QED
    BY <2>0, <2>2, UnitsOf
<1> QED
  BY <1>1, UnitsFinite, FS_Subset DEF Total

\* A sum grows by what one of its terms grows by.
LEMMA TotalAdds ==
    ASSUME NEW S, IsFiniteSet(S), NEW f \in [S -> Nat], NEW g \in [S -> Nat],
           NEW y \in S, NEW d \in Nat, g[y] = f[y] + d,
           \A x \in S : x # y => g[x] = f[x]
    PROVE  Total(g) = Total(f) + d
<1> DEFINE new == {y} \X (f[y] + 1 .. f[y] + d)
<1>1. IsFiniteSet(new) /\ Cardinality(new) = d
  <2>1. IsFiniteSet({y}) /\ Cardinality({y}) = 1
    BY Zenon, FS_Singleton
  <2>2. PICK a \in Int, b \in Int : a = f[y] + 1 /\ b = f[y] + d
    OBVIOUS
  <2>3. /\ IsFiniteSet(a .. b)
        /\ Cardinality(a .. b) = IF a > b THEN 0 ELSE b - a + 1
    BY Zenon, FS_Interval
  <2>4. Cardinality(a .. b) = d
    BY <2>2, <2>3
  <2>5. /\ IsFiniteSet({y} \X (a .. b))
        /\ Cardinality({y} \X (a .. b)) = 1 * d
    BY <2>1, <2>3, <2>4, Zenon, FS_Product
  <2> QED
    BY <2>2, <2>5
<1>2. Units(f) \cap new = {}
  <2> SUFFICES ASSUME NEW u \in Units(f), u \in new PROVE FALSE
    OBVIOUS
  <2>1. PICK x \in S : \E n \in 1 .. f[x] : u = <<x, n>>
    BY UnitsOf
  <2>0. PICK n \in 1 .. f[x] : u = <<x, n>>
    BY <2>1
  <2>2. x = y /\ n \in f[y] + 1 .. f[y] + d
    BY <2>0
  <2> QED
    BY <2>2
<1>3. Units(g) = Units(f) \cup new
  <2>1. ASSUME NEW u \in Units(g) PROVE u \in Units(f) \cup new
    <3>1. PICK x \in S : \E n \in 1 .. g[x] : u = <<x, n>>
      BY DEF Units
    <3>0. PICK n \in 1 .. g[x] : u = <<x, n>>
      BY <3>1
    <3>2. CASE n \in 1 .. f[x]
      BY <3>0, <3>2, UnitsOf
    <3>3. CASE n \notin 1 .. f[x]
      <4>1. x = y /\ n \in f[y] + 1 .. f[y] + d
        BY <3>3
      <4> QED
        BY <3>0, <4>1
    <3> QED
      BY <3>2, <3>3
  <2>2. ASSUME NEW u \in Units(f) PROVE u \in Units(g)
    <3>1. PICK x \in S : \E n \in 1 .. f[x] : u = <<x, n>>
      BY UnitsOf
    <3>0. PICK n \in 1 .. f[x] : u = <<x, n>>
      BY <3>1
    <3>2. n \in 1 .. g[x]
      OBVIOUS
    <3> QED
      BY <3>0, <3>2, UnitsOf
  <2>3. ASSUME NEW u \in new PROVE u \in Units(g)
    <3>1. PICK n \in f[y] + 1 .. f[y] + d : u = <<y, n>>
      OBVIOUS
    <3>2. n \in 1 .. g[y]
      OBVIOUS
    <3> QED
      BY <3>1, <3>2, UnitsOf
  <2> QED
    BY <2>1, <2>2, <2>3
<1>4. IsFiniteSet(Units(f)) /\ Total(f) \in Nat
  BY UnitsFinite
<1> QED
  BY <1>1, <1>2, <1>3, <1>4, FS_Union, FS_EmptySet DEF Total

\* The fees are accounted for, and what was withdrawn is a number.
FeesInv == swept \in Nat /\ FeesAccounted

\* Both sums are of natural numbers over finite sets.
LEMMA SumTypes ==
    IInv => Claimed \in [Users -> Nat] /\ InShards \in [ShardIds -> Nat]
<1> SUFFICES ASSUME IInv
             PROVE  Claimed \in [Users -> Nat] /\ InShards \in [ShardIds -> Nat]
  OBVIOUS
<1>1. ASSUME NEW p \in Users, record[p] # NoAccount
      PROVE  record[p].total_fees_paid \in Nat
  BY <1>1, ProtocolAssumption DEF IInv, TypeOK, FeeRecord
<1>2. ASSUME NEW i \in ShardIds PROVE SatSub(lamports[Shard(i)], RENT) \in Nat
  BY PdaAddresses, ProtocolAssumption DEF IInv, TypeOK, SatSub
<1> QED
  BY <1>1, <1>2 DEF Claimed, InShards

\* A shard that loses no lamports holds no less above its rent.
LEMMA ShardGrows ==
    ASSUME IInv, IInv', NEW j \in ShardIds, shards \subseteq shards',
           lamports'[Shard(j)] >= lamports[Shard(j)]
    PROVE  InShards[j] <= InShards'[j]
<1>1. lamports[Shard(j)] \in Nat /\ lamports'[Shard(j)] \in Nat /\ RENT \in Nat
  BY PdaAddresses, ProtocolAssumption DEF IInv, TypeOK
<1>2. SatSub(lamports[Shard(j)], RENT) <= SatSub(lamports'[Shard(j)], RENT)
      /\ SatSub(lamports'[Shard(j)], RENT) \in Nat
  BY <1>1 DEF SatSub
<1> QED
  BY <1>2 DEF InShards

\* What an open shard is paid it holds above its rent, which was there.
LEMMA ShardPaid ==
    ASSUME IInv, IInv', NEW i \in shards, i \in ShardIds, shards' = shards,
           NEW d \in Nat, lamports'[Shard(i)] >= lamports[Shard(i)] + d
    PROVE  InShards[i] + d <= InShards'[i]
<1>1. lamports[Shard(i)] \in Nat /\ lamports'[Shard(i)] \in Nat /\ RENT \in Nat
      /\ lamports[Shard(i)] >= RENT
  BY PdaAddresses, ProtocolAssumption DEF IInv, TypeOK, RentKept
<1>2. SatSub(lamports[Shard(i)], RENT) + d <= SatSub(lamports'[Shard(i)], RENT)
  BY <1>1 DEF SatSub
<1> QED
  BY <1>2 DEF InShards

\* A step that records no fee, withdraws nothing and takes nothing from a
\* shard.
LEMMA NoFeeStep ==
    ASSUME IInv, IInv', FeesInv, swept' = swept, paid' = paid, Claimed' = Claimed,
           shards \subseteq shards',
           \A a \in Pdas : lamports'[a] >= lamports[a]
    PROVE  FeesInv'
<1>1. PICK g : g = InShards'
  OBVIOUS
<1>2. (InShards \in [ShardIds -> Nat])'
  BY SumTypes, PTL
<1>3. InShards \in [ShardIds -> Nat] /\ g \in [ShardIds -> Nat]
  BY <1>1, <1>2, SumTypes
<1>4. \A i \in ShardIds : InShards[i] <= g[i]
  BY Zenon, <1>1, ShardGrows, PdaAddresses
<1>5. Total(InShards) <= Total(g) /\ Total(InShards) \in Nat /\ Total(g) \in Nat
  BY Zenon, <1>3, <1>4, TotalGrows, UnitsFinite, ProtocolAssumption
<1>6. Total(Claimed) \in Nat
  BY Zenon, SumTypes, UnitsFinite, ProtocolAssumption
<1>7. Total(Claimed) = paid /\ paid <= swept + Total(g)
  BY <1>5, <1>6 DEF FeesInv, FeesAccounted
<1> QED
  BY <1>1, <1>7 DEF FeesInv, FeesAccounted

\* CollectFee adds the fee to what the payer's record claims.
LEMMA ClaimedMore ==
    ASSUME IInv, NEW op \in FEE_ELIGIBLE, NEW payer \in Users,
           NEW i \in ShardIds, CollectFee(op, payer, i)
    PROVE  /\ Claimed'[payer] = Claimed[payer] + Fee(op)
           /\ \A p \in Users : p # payer => Claimed'[p] = Claimed[p]
<1>1. PICK r : /\ r = IF record[payer] = NoAccount THEN NewRecord ELSE record[payer]
               /\ r.total_fees_paid + Fee(op) <= U64_MAX
               /\ record' = [record EXCEPT ![payer] = Bumped(r, op)]
  BY Zenon DEF CollectFee
<1>2. NewRecord \in FeeRecord /\ NewRecord.total_fees_paid = 0
  BY ProtocolAssumption DEF NewRecord, FeeRecord, IInv, TypeOK
<1>3. record \in [Users -> FeeRecord \cup {NoAccount}] /\ TypeOK
  BY DEF IInv, TypeOK
<1>4. r \in FeeRecord /\ r.total_fees_paid = Claimed[payer]
  BY <1>1, <1>2, <1>3 DEF Claimed
<1>5. Bumped(r, op).total_fees_paid = r.total_fees_paid + Fee(op)
  BY <1>4 DEF Bumped, FeeRecord
<1>6. Bumped(r, op) # NoAccount
  BY <1>1, <1>3, <1>4, RecordTypes, ProtocolAssumption
<1>7. /\ record'[payer] = Bumped(r, op)
      /\ \A p \in Users : p # payer => record'[p] = record[p]
  BY <1>1, <1>3
<1> QED
  BY <1>4, <1>5, <1>6, <1>7 DEF Claimed

\* CollectFee pays the fee into the shard and takes nothing from another.
LEMMA PaidIn ==
    ASSUME IInv, NEW op \in FEE_ELIGIBLE, NEW payer \in Users,
           NEW i \in ShardIds, CollectFee(op, payer, i)
    PROVE  /\ lamports'[Shard(i)] >= lamports[Shard(i)] + Fee(op)
           /\ \A j \in ShardIds : lamports'[Shard(j)] >= lamports[Shard(j)]
<1>1. /\ lamports \in Balances /\ Record(payer) \in Pdas
      /\ payer \in Addresses /\ payer \notin Pdas
      /\ Pdas \subseteq Addresses /\ \A j \in ShardIds : Shard(j) \in Pdas
  BY PdaAddresses DEF IInv, TypeOK, Balances
<1>2. PICK l : /\ l = IF record[payer] = NoAccount
                      THEN initialize_pda_account(lamports, payer, Record(payer))
                      ELSE lamports
               /\ record[payer] = NoAccount => CanFund(lamports, payer, Record(payer))
               /\ lamports' = [l EXCEPT ![payer] = @ - Fee(op),
                                        ![Shard(i)] = @ + Fee(op)]
  BY Zenon DEF CollectFee
<1>3. l \in Balances /\ \A a \in Pdas : l[a] >= lamports[a]
  <2>1. CASE record[payer] = NoAccount
    BY <1>1, <1>2, <2>1, ToppedUp
  <2>2. CASE record[payer] # NoAccount
    BY <1>1, <1>2, <2>2 DEF Balances
  <2> QED
    BY <2>1, <2>2
<1>4. Fee(op) \in Nat
  BY FeeRange DEF IInv
<1>5. \A j \in ShardIds : /\ l[Shard(j)] \in Nat /\ lamports[Shard(j)] \in Nat
                          /\ l[Shard(j)] >= lamports[Shard(j)]
  BY <1>1, <1>3 DEF Balances
<1>6. \A j \in ShardIds :
        lamports'[Shard(j)] = IF Shard(j) = Shard(i) THEN l[Shard(j)] + Fee(op)
                              ELSE l[Shard(j)]
  BY <1>1, <1>2, <1>3 DEF Balances
<1> QED
  BY <1>4, <1>5, <1>6

\* A fee: the record and the shard grow by the same amount.
LEMMA FeeStep ==
    ASSUME IInv, IInv', FeesInv, NEW op \in FEE_ELIGIBLE, NEW payer \in Users,
           NEW i \in ShardIds, CollectFee(op, payer, i)
    PROVE  FeesInv'
<1>1. PICK g, c, fee : g = InShards' /\ c = Claimed' /\ fee = Fee(op)
  BY Zenon
<1>2. (Claimed \in [Users -> Nat] /\ InShards \in [ShardIds -> Nat])'
  BY SumTypes, PTL
<1>3. /\ Claimed \in [Users -> Nat] /\ InShards \in [ShardIds -> Nat]
      /\ c \in [Users -> Nat] /\ g \in [ShardIds -> Nat]
  BY <1>1, <1>2, SumTypes
<1>4. fee \in Nat
  BY <1>1, FeeRange DEF IInv
<1>5. i \in shards /\ shards' = shards /\ swept' = swept /\ paid' = paid + Fee(op)
  BY Zenon DEF CollectFee
<1>6. c[payer] = Claimed[payer] + fee
      /\ \A p \in Users : p # payer => c[p] = Claimed[p]
  BY Zenon, <1>1, ClaimedMore
<1>7. InShards[i] + fee <= g[i]
  BY <1>1, <1>4, <1>5, PaidIn, ShardPaid
<1>8. \A j \in ShardIds : InShards[j] <= g[j]
  BY Zenon, <1>1, <1>5, PaidIn, ShardGrows
<1>9. PICK h : h = [InShards EXCEPT ![i] = InShards[i] + fee]
  BY Zenon
<1>10. /\ h \in [ShardIds -> Nat] /\ h[i] = InShards[i] + fee
       /\ \A j \in ShardIds : j # i => h[j] = InShards[j]
  BY <1>3, <1>4, <1>9
<1>11. \A j \in ShardIds : h[j] <= g[j]
  BY <1>7, <1>8, <1>10
<1>12. IsFiniteSet(Users) /\ IsFiniteSet(ShardIds)
  BY ProtocolAssumption
<1>13. Total(c) = Total(Claimed) + fee
  BY <1>3, <1>4, <1>6, <1>12, TotalAdds
<1>14. Total(h) = Total(InShards) + fee
  BY <1>3, <1>4, <1>10, <1>12, TotalAdds
<1>15. Total(h) <= Total(g)
  BY Zenon, <1>3, <1>10, <1>11, <1>12, TotalGrows
<1>16. /\ Total(Claimed) \in Nat /\ Total(InShards) \in Nat /\ Total(g) \in Nat
  BY Zenon, <1>3, <1>12, UnitsFinite
<1>17. Total(c) = paid + fee /\ paid + fee <= swept + Total(g)
  BY <1>4, <1>13, <1>14, <1>15, <1>16 DEF FeesInv, FeesAccounted
<1> QED
  BY <1>1, <1>5, <1>17 DEF FeesInv, FeesAccounted

\* A withdrawal: what leaves the shard is counted, also when it goes to a shard.
LEMMA SweepStep ==
    ASSUME IInv, IInv', FeesInv, NEW admin \in Users, NEW i \in ShardIds,
           NEW treasury \in Treasuries, WithdrawTreasury(admin, i, treasury)
    PROVE  FeesInv'
<1> DEFINE excess == SatSub(lamports[Shard(i)], RENT)
           m == [lamports EXCEPT ![Shard(i)] = RENT]
<1>1. PICK g, h : g = InShards' /\ h = [InShards EXCEPT ![i] = 0]
  BY Zenon
<1>2. (InShards \in [ShardIds -> Nat])'
  BY SumTypes, PTL
<1>3. /\ Claimed \in [Users -> Nat] /\ InShards \in [ShardIds -> Nat]
      /\ g \in [ShardIds -> Nat]
  BY <1>1, <1>2, SumTypes
<1>4. /\ i \in shards /\ shards' = shards /\ Claimed' = Claimed
      /\ swept' = swept + excess /\ paid' = paid
      /\ lamports' = IF excess = 0 THEN lamports
                     ELSE [m EXCEPT ![treasury] = m[treasury] + excess]
  BY DEF WithdrawTreasury, Sweep, Claimed
<1>5. /\ lamports \in Balances /\ treasury \in Addresses
      /\ \A j \in ShardIds : Shard(j) \in Addresses
      /\ \A j \in ShardIds : Shard(j) = Shard(i) => j = i
      /\ RENT \in Nat
  BY PdaAddresses, PdasDistinct, ProtocolAssumption DEF IInv, TypeOK, Balances
<1>6. excess \in Nat /\ InShards[i] = excess
  BY <1>4, <1>5 DEF SatSub, Balances, InShards
<1>7. m \in Balances /\ \A j \in ShardIds : j # i => m[Shard(j)] = lamports[Shard(j)]
  BY <1>5 DEF Balances
<1> HIDE DEF m, excess
<1>8. ASSUME NEW j \in ShardIds, j # i
      PROVE  lamports'[Shard(j)] >= lamports[Shard(j)]
  <2>1. m[Shard(j)] \in Nat /\ m[Shard(j)] = lamports[Shard(j)]
    BY <1>5, <1>7, <1>8 DEF Balances
  <2>2. lamports'[Shard(j)] \in {m[Shard(j)], m[Shard(j)] + excess}
    BY <1>4, <1>5, <1>7, <2>1 DEF Balances
  <2> QED
    BY <1>6, <2>1, <2>2
<1>9. /\ h \in [ShardIds -> Nat] /\ h[i] = 0
      /\ \A j \in ShardIds : j # i => h[j] = InShards[j]
  BY <1>1, <1>3
<1>10. ASSUME NEW j \in ShardIds PROVE h[j] <= g[j]
  <2>1. CASE j = i
    BY <1>3, <1>9, <2>1
  <2>2. CASE j # i
    BY <1>1, <1>4, <1>8, <1>9, <2>2, ShardGrows
  <2> QED
    BY <2>1, <2>2
<1>11. IsFiniteSet(Users) /\ IsFiniteSet(ShardIds)
  BY ProtocolAssumption
<1>12. InShards[i] = h[i] + excess
  BY <1>6, <1>9
<1>13. Total(InShards) = Total(h) + excess
  BY <1>3, <1>6, <1>9, <1>11, <1>12, TotalAdds
<1>14. Total(h) <= Total(g)
  BY Zenon, <1>3, <1>9, <1>10, <1>11, TotalGrows
<1>15. Total(Claimed) \in Nat /\ Total(h) \in Nat /\ Total(g) \in Nat
  BY Zenon, <1>3, <1>9, <1>11, UnitsFinite
<1>16. /\ Total(Claimed) = paid /\ paid <= (swept + excess) + Total(g)
       /\ swept + excess \in Nat
  BY <1>6, <1>13, <1>14, <1>15 DEF FeesInv, FeesAccounted
<1>17. FeesAccounted' <=> /\ Total(Claimed) = paid
                          /\ paid <= (swept + excess) + Total(g)
  BY <1>1, <1>4 DEF FeesAccounted
<1> QED
  BY <1>4, <1>16, <1>17 DEF FeesInv

\* Every step keeps the fees accounted for.
LEMMA NextFees ==
    ASSUME IInv, IInv', FeesInv, [Next]_vars
    PROVE  FeesInv'
<1>1. lamports \in Balances /\ \A a \in Pdas : lamports[a] \in Nat
  BY PdaAddresses DEF IInv, TypeOK, Balances
<1>2. CASE UNCHANGED <<lamports, shards, record, swept, paid>>
  <2>1. Claimed' = Claimed /\ \A a \in Pdas : lamports'[a] >= lamports[a]
    BY <1>1, <1>2 DEF Claimed
  <2> QED
    BY <1>2, <2>1, NoFeeStep
<1>3. ASSUME NEW payer \in Users, NEW pda \in Pdas, CanFund(lamports, payer, pda),
             lamports' = initialize_pda_account(lamports, payer, pda),
             shards \subseteq shards', swept' = swept, paid' = paid,
             Claimed' = Claimed
      PROVE  FeesInv'
  BY <1>1, <1>3, ToppedUp, NoFeeStep
<1>4. ASSUME NEW payer \in Users, RegisterIntegrator(payer) PROVE FeesInv'
  <2>1. Claimed' = Claimed
    <3>1. record' = [record EXCEPT ![payer] = NewRecord]
          /\ record[payer] = NoAccount /\ record \in [Users -> FeeRecord \cup {NoAccount}]
      BY <1>4 DEF RegisterIntegrator, IInv, TypeOK
    <3>2. NewRecord.total_fees_paid = 0
      BY DEF NewRecord
    <3> QED
      BY <3>1, <3>2 DEF Claimed
  <2> QED
    BY Zenon, <1>3, <1>4, <2>1, PdaAddresses DEF RegisterIntegrator
<1>5. ASSUME NEW from \in Users, NEW to \in Gifts, Transfer(from, to) PROVE FeesInv'
  <2>1. to \in Addresses /\ lamports[from] \in Nat /\ lamports[from] >= 1
    BY <1>1, <1>5, PdaAddresses, ProtocolAssumption DEF Transfer, Balances
  <2>2. \A a \in Pdas : lamports'[a] >= lamports[a]
    BY Zenon, <1>1, <1>5, <2>1, Paid DEF Transfer
  <2>3. Claimed' = Claimed
    BY <1>5 DEF Transfer, Claimed
  <2> QED
    <3>1. shards \subseteq shards' /\ swept' = swept /\ paid' = paid
      BY <1>5 DEF Transfer
    <3> QED
      BY <2>2, <2>3, <3>1, NoFeeStep
<1>6. ASSUME NEW op \in FEE_ELIGIBLE, NEW payer \in Users, NEW i \in ShardIds,
             try_collect_fee(op, payer, i)
      PROVE  FeesInv'
  BY <1>2, <1>6, FeeStep DEF try_collect_fee, SkipFee
<1>7. ASSUME NEW admin \in Users, Administer(admin) PROVE FeesInv'
  <2>1. ASSUME NEW new, NEW treasury, NEW cf, NEW ef, NEW n,
               InitializeProtocol(admin, new, treasury, cf, ef, n)
        PROVE  FeesInv'
    <3>1. Claimed' = Claimed
      BY <2>1 DEF InitializeProtocol, Claimed
    <3> QED
      BY Zenon, <1>3, <2>1, <3>1, PdaAddresses DEF InitializeProtocol
  <2>2. ASSUME NEW payer \in Users, NEW i \in ShardIds,
               InitializeTreasuryShard(payer, admin, i)
        PROVE  FeesInv'
    <3>1. Claimed' = Claimed
      BY <2>2 DEF InitializeTreasuryShard, Claimed
    <3> QED
      BY <1>3, <2>2, <3>1, PdaAddresses DEF InitializeTreasuryShard
  <2>3. ASSUME NEW cf, NEW ef, NEW enabled, NEW treasury,
               UpdateProtocol(admin, cf, ef, enabled, treasury)
        PROVE  FeesInv'
    BY Zenon, <1>2, <2>3 DEF UpdateProtocol
  <2>4. ASSUME NEW new,
               ProposeProtocolAdmin(admin, new) \/ AcceptProtocolAdmin(admin)
        PROVE  FeesInv'
    BY Zenon, <1>2, <2>4 DEF ProposeProtocolAdmin, AcceptProtocolAdmin
  <2>5. ASSUME NEW i \in ShardIds, NEW treasury \in Treasuries,
               WithdrawTreasury(admin, i, treasury)
        PROVE  FeesInv'
    BY <2>5, SweepStep
  <2> QED
    BY Zenon, <1>7, <2>1, <2>2, <2>3, <2>4, <2>5 DEF Administer
<1>8. CASE Upgrade \/ UNCHANGED vars
  BY <1>2, <1>8 DEF Upgrade, vars
<1> QED
  BY Zenon, <1>4, <1>5, <1>6, <1>7, <1>8 DEF Next

\* Nothing has been paid before the protocol is initialised.
LEMMA InitFees == Init => FeesInv
<1> SUFFICES ASSUME Init PROVE FeesInv
  OBVIOUS
<1>1. Claimed = [p \in Users |-> 0]
  BY DEF Init, Claimed
<1>2. Units(Claimed) = {}
  BY <1>1 DEF Units
<1>3. Total(Claimed) = 0
  BY <1>2, FS_EmptySet DEF Total
<1>4. Total(InShards) \in Nat
  BY Zenon, InitIInv, SumTypes, UnitsFinite, ProtocolAssumption
<1> QED
  BY <1>3, <1>4 DEF Init, FeesInv, FeesAccounted

\* The fee records claim together what try_collect_fee collected, and all of it
\* is in a shard above its rent or has been withdrawn, for any number of payers
\* and shards, whoever is named as treasury.
THEOREM FeesAddUp == Spec => []FeesAccounted
<1>1. IInv /\ IInv' /\ FeesInv /\ [Next]_vars => FeesInv'
  BY NextFees
<1>2. FeesInv => FeesAccounted
  BY DEF FeesInv
<1> QED
  BY <1>1, <1>2, InitFees, Inductive, PTL DEF Spec

\* What try_collect_fee costs a payer: the fee, and the rent its record lacks.
LEMMA FeeCost ==
    ASSUME IInv, NEW op \in FEE_ELIGIBLE, NEW p \in Users, NEW i \in ShardIds,
           try_collect_fee(op, p, i)
    PROVE  lamports[p] - lamports'[p] <=
             MAX_PROTOCOL_FEE_LAMPORTS
               + (IF record[p] = NoAccount THEN RENT ELSE 0)
<1> DEFINE rent == IF record[p] = NoAccount THEN SatSub(RENT, lamports[Record(p)]) ELSE 0
<1>1. /\ p \in Addresses /\ Record(p) \in Addresses /\ Shard(i) \in Addresses
      /\ p # Record(p) /\ p # Shard(i)
      /\ lamports \in Balances /\ lamports[p] \in Nat /\ lamports[Record(p)] \in Nat
  BY PdaAddresses DEF IInv, TypeOK, Balances
<1>2. /\ Fee(op) \in Nat /\ Fee(op) <= MAX_PROTOCOL_FEE_LAMPORTS
      /\ MAX_PROTOCOL_FEE_LAMPORTS \in Nat /\ RENT \in Nat
  BY FeeRange, ProtocolAssumption DEF IInv
<1>3. rent \in Nat /\ rent <= IF record[p] = NoAccount THEN RENT ELSE 0
  BY <1>1, <1>2 DEF SatSub
<1>4. CASE SkipFee(op, p)
  BY <1>1, <1>2, <1>4 DEF SkipFee
<1>5. CASE CollectFee(op, p, i)
  <2>1. PICK l : /\ l = IF record[p] = NoAccount
                        THEN initialize_pda_account(lamports, p, Record(p))
                        ELSE lamports
                 /\ lamports' = [l EXCEPT ![p] = @ - Fee(op),
                                          ![Shard(i)] = @ + Fee(op)]
    BY Zenon, <1>5 DEF CollectFee
  <2>2. l[p] = lamports[p] - rent /\ DOMAIN l = Addresses
    <3>1. CASE record[p] = NoAccount
      BY <1>1, <2>1, <3>1 DEF initialize_pda_account, Balances
    <3>2. CASE record[p] # NoAccount
      BY <1>1, <2>1, <3>2 DEF Balances
    <3> QED
      BY <3>1, <3>2
  <2>3. lamports'[p] = l[p] - Fee(op)
    BY <1>1, <2>1, <2>2
  <2> HIDE DEF rent
  <2> QED
    BY <1>1, <1>2, <1>3, <2>2, <2>3
<1> QED
  BY <1>4, <1>5 DEF try_collect_fee

\* No fee-eligible instruction costs its payer more than the ceiling, and the
\* rent of the record it opens, whatever the admin has configured since the
\* payer last looked.
THEOREM CostIsBounded == Spec => CostBounded
<1>1. IInv => [\A op \in FEE_ELIGIBLE, p \in Users, i \in ShardIds :
                 try_collect_fee(op, p, i) =>
                   lamports[p] - lamports'[p] <=
                     MAX_PROTOCOL_FEE_LAMPORTS
                       + (IF record[p] = NoAccount THEN RENT ELSE 0)]_vars
  BY FeeCost
<1> QED
  BY <1>1, Inductive, PTL DEF CostBounded
=============================================================================
