--------------------------- MODULE RelayerVetting ---------------------------
(***************************************************************************)
(* What the relayer agrees to sign before it asks the cluster anything:    *)
(* decodeParams (server.mjs), inspectTransaction and inspectTxV1           *)
(* (policy.mjs) and the v1 wire layout the signature is written into       *)
(* (txv1.mjs).                                                             *)
(*                                                                         *)
(* Each step of the model hands the relayer one transaction.  A decoded    *)
(* transaction is a record; an instruction is its program, what it is, and *)
(* whether the fee payer is one of its accounts.  Wire bytes are real      *)
(* byte sequences, at the offsets of SIMD-0385.                            *)
(***************************************************************************)
EXTENDS Integers, Sequences, FiniteSets

CONSTANTS
  Decoded,        \* decoded transactions the relayer is handed
  Wires,          \* v1 wire bytes it is handed
  TxV1,           \* --tx-v1
  RequireLazorkit,\* off with --allow-plain
  MaxSignatures,  \* cfg.maxSignatures
  MaxPriorityFee, \* --max-priority-fee-lamports
  MaxComputeUnits, MaxLoadedData,   \* the ComputeBudget maximums
  MaxAddresses,   \* addresses of a v1 transaction
  RelayerKey,     \* the first byte of the relayer's address, repeated
  Nothing         \* an unset config value, an absent reading, a refusal

VARIABLES tx, verdict, raw, signed, fee

vars == <<tx, verdict, raw, signed, fee>>

-----------------------------------------------------------------------------
(* allowlist.mjs                                                           *)

AllowedPrograms == {"lazorkit", "secp256r1", "system", "token", "token2022", "ata",
                    "computeBudget", "alt"}

RequireOneOf == {"lazorkit"}

-----------------------------------------------------------------------------
(* policy.mjs: the static rules, in the order they are tried.  A rule is   *)
(* named as the refusal names it.                                          *)

InstructionRefusal(ix) ==
  CASE ix.prog = "lookup" \/ ix.prog \notin AllowedPrograms -> "program_not_allowed"
    [] ix.prog = "system" /\ ix.kind = "advanceNonce" -> "durable_nonce"
    [] ix.prog = "system" /\ ix.payer /\ ix.kind \notin {"transfer", "createAccount"} -> "fee_payer_policy"
    [] ix.prog \in {"token", "token2022", "alt"} /\ ix.payer -> "fee_payer_policy"
    [] OTHER -> Nothing

FirstRefusal(refusals) ==
  LET hits == {i \in DOMAIN refusals : refusals[i] # Nothing}
  IN  IF hits = {} THEN Nothing
      ELSE refusals[CHOOSE i \in hits : \A j \in hits : i <= j]

\* A bug: a limit set to zero passes for a limit that is set.
OverLimit_ZeroSet(value, max) == value = Nothing \/ value > max

\* limit: a v1 limit must be set, above zero and within its maximum.
OverLimit(value, max) == value \in {Nothing, 0} \/ value > max

\* checkTxV1PriorityFee.
FeeRefusal(priorityFee) ==
  IF priorityFee # Nothing /\ priorityFee > MaxPriorityFee THEN "tx_v1_priority_fee" ELSE Nothing

PrecompileRefusal(ixs) ==
  IF \E i \in DOMAIN ixs : /\ ixs[i].prog = "secp256r1"
                           /\ i = Len(ixs) \/ (i < Len(ixs) /\ ixs[i + 1].prog # "lazorkit")
    THEN "tx_v1_precompile_order" ELSE Nothing

InspectTxV1(t) ==
  FirstRefusal(<<
    IF t.oversize \/ t.addresses > MaxAddresses THEN "tx_v1_size" ELSE Nothing,
    IF t.sigs < 1 \/ t.readonlySigs >= t.sigs THEN "fee_payer" ELSE Nothing,
    IF OverLimit(t.cu, MaxComputeUnits) THEN "tx_v1_compute_unit_limit" ELSE Nothing,
    IF OverLimit(t.data, MaxLoadedData) THEN "tx_v1_loaded_accounts_data_size_limit" ELSE Nothing,
    IF t.heap # Nothing THEN "tx_v1_heap_size" ELSE Nothing,
    FeeRefusal(t.fee),
    IF \E i \in DOMAIN t.ixs : t.ixs[i].prog = "computeBudget"
      THEN "tx_v1_compute_budget_instruction" ELSE Nothing,
    PrecompileRefusal(t.ixs)>>)

InspectTransaction(t) ==
  FirstRefusal(<<
    IF ~t.payerIsRelayer THEN "fee_payer" ELSE Nothing,
    IF t.signerKey = "other" THEN "signer_key" ELSE Nothing,
    IF t.sigs > MaxSignatures THEN "max_signatures" ELSE Nothing,
    IF t.ixs = <<>> THEN "empty" ELSE Nothing,
    FirstRefusal([i \in DOMAIN t.ixs |-> InstructionRefusal(t.ixs[i])]),
    IF RequireLazorkit /\ ~\E i \in DOMAIN t.ixs : t.ixs[i].prog \in RequireOneOf
      THEN "require_one_of_programs" ELSE Nothing,
    IF t.version = 1 THEN InspectTxV1(t) ELSE Nothing>>)

\* decodeParams: a v1 transaction is refused unread without --tx-v1.
Vet(t) == IF t.version = 1 /\ ~TxV1 THEN "tx_v1_disabled" ELSE InspectTransaction(t)

-----------------------------------------------------------------------------
(* txv1.mjs: the wire bytes.  Offsets count from 0, as the code's do.      *)

SignatureBytes == 64
AddressBytes == 32
ConfigMaskAt == 4
AddressCountAt == 41
AddressesAt == 42

ByteAt(b, i) == b[i + 1]

Slice(b, from, upto) == SubSeq(b, from + 1, upto)

IsTxV1(b) == Len(b) > 0 /\ ByteAt(b, 0) = 129

MessageLength(b) == Len(b) - SignatureBytes * (IF Len(b) > 1 THEN ByteAt(b, 1) ELSE 0)

\* txV1Layout throws where the bytes cannot hold a message.
HasLayout(b) == IsTxV1(b) /\ MessageLength(b) >= AddressesAt + AddressBytes

FeeAt(b) == AddressesAt + AddressBytes * ByteAt(b, AddressCountAt)

\* txV1PriorityFee: eight little-endian bytes, or nothing.
TxV1PriorityFee(b) ==
  IF ~IsTxV1(b) \/ Len(b) < AddressesAt THEN Nothing
  ELSE IF ByteAt(b, ConfigMaskAt) % 4 # 3 \/ Len(b) < FeeAt(b) + 8 THEN Nothing
  ELSE Slice(b, FeeAt(b), FeeAt(b) + 8)

\* ed25519Sign: the relayer's signature, told apart from any byte received.
Signature == [i \in 1..SignatureBytes |-> 256]

\* signTxV1AsFeePayer, which refuses any other fee payer.
SignTxV1AsFeePayer(b) ==
  IF ~HasLayout(b) THEN Nothing
  ELSE IF ByteAt(b, 1) < 1
       \/ Slice(b, AddressesAt, AddressesAt + AddressBytes) # [i \in 1..AddressBytes |-> RelayerKey]
  THEN Nothing
  ELSE LET m == MessageLength(b)
       IN  [i \in 1..Len(b) |-> IF m < i /\ i <= m + SignatureBytes
                                THEN Signature[i - m] ELSE b[i]]

-----------------------------------------------------------------------------
Init ==
  /\ tx = Nothing /\ verdict = Nothing
  /\ raw = Nothing /\ signed = Nothing /\ fee = Nothing

\* A transaction arrives and is vetted.
Inspect ==
  /\ tx = Nothing /\ raw = Nothing
  /\ \E t \in Decoded : tx' = t /\ verdict' = Vet(t)
  /\ UNCHANGED <<raw, signed, fee>>

\* Wire bytes arrive: their fee is read, and they are signed.
Sign ==
  /\ tx = Nothing /\ raw = Nothing
  /\ \E w \in Wires : /\ raw' = w
                      /\ signed' = SignTxV1AsFeePayer(w.bytes)
                      /\ fee' = TxV1PriorityFee(w.bytes)
  /\ UNCHANGED <<tx, verdict>>

\* The answer goes out; the next transaction may come.
Answer ==
  /\ tx # Nothing \/ raw # Nothing
  /\ tx' = Nothing /\ verdict' = Nothing
  /\ raw' = Nothing /\ signed' = Nothing /\ fee' = Nothing

Next == Inspect \/ Sign \/ Answer

Spec == Init /\ [][Next]_vars

Accepted == tx # Nothing /\ verdict = Nothing

-----------------------------------------------------------------------------
(* Properties.                                                             *)

\* How the cluster runs a v1 transaction (external): an unset limit is 0, no
\* program runs on 0 units, no account loads within 0 bytes, and LazorKit takes
\* a passkey's precompile only from the instruction directly before its own.
FailsOnChain(t) ==
  \/ t.cu \in {Nothing, 0}
  \/ t.data \in {Nothing, 0}
  \/ \E i \in DOMAIN t.ixs :
       /\ t.ixs[i].prog = "lazorkit" /\ t.ixs[i].kind = "passkey"
       /\ \E j \in 1..(i - 1) : /\ t.ixs[j].prog = "secp256r1"
                                /\ \A k \in (j + 1)..(i - 1) : t.ixs[k].prog # "lazorkit"
                                /\ j + 1 # i

\* Signing v1 bytes writes the fee payer's signature slot, the first, and no
\* other byte: well-formed bytes keep their message and the signatures the other
\* signers put there; malformed ones keep their header and fee payer.
OwnSlotOnly ==
  signed # Nothing =>
    LET b == raw.bytes
        changed == {i \in DOMAIN b : signed[i] # b[i]}
    IN  /\ Len(signed) = Len(b)
        /\ \A i \in changed : i > AddressesAt + AddressBytes
        /\ raw.whole => changed = (raw.message + 1)..(raw.message + SignatureBytes)

\* The fee read from the bytes, for a fee web3.js cannot decode, is the fee the
\* encoder wrote, whatever the number of signers, of addresses, and the config
\* values around it; a fee the mask does not announce is not read.
FeeReadRight == raw # Nothing /\ raw.whole => fee = raw.fee

\* "Both land, and this relayer pays the fee" (inspectTxV1): no v1 transaction
\* the relayer accepts lands only to fail for a reason its config and the order
\* of its instructions already show, and none costs it more than the cap on the
\* priority fee.  What it vetted is what it pays for: the fee read from the bytes
\* is the one written there, and signing them changes nothing that was vetted.
NoFeeForNothing ==
  /\ Accepted /\ tx.version = 1 =>
       ~FailsOnChain(tx) /\ (tx.fee # Nothing => tx.fee <= MaxPriorityFee)
  /\ FeeReadRight
  /\ OwnSlotOnly
=============================================================================
