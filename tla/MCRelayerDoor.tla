--------------------------- MODULE MCRelayerDoor ---------------------------
(* Instances of RelayerGate and RelayerVetting for TLC, the two tests a    *)
(* call passes before the relayer asks the cluster anything.  They share   *)
(* no state; part says which of them a behaviour is about.                 *)
EXTENDS RelayerGate, Sequences

CONSTANTS
  Decoded, Wires, TxV1, RequireLazorkit, MaxSignatures, MaxPriorityFee,
  MaxComputeUnits, MaxLoadedData, MaxAddresses, RelayerKey, Nothing

VARIABLES part, tx, verdict, raw, signed, fee

vetVars == <<tx, verdict, raw, signed, fee>>

Vetting == INSTANCE RelayerVetting

Ix(p, k, payer) == [prog |-> p, kind |-> k, payer |-> payer]

Ixs == {Ix("lazorkit", "passkey", TRUE), Ix("lazorkit", "ed25519", TRUE), Ix("secp256r1", "", FALSE),
        Ix("computeBudget", "", FALSE), Ix("system", "transfer", TRUE), Ix("system", "assign", TRUE),
        Ix("system", "advanceNonce", FALSE), Ix("token", "", TRUE), Ix("token", "", FALSE),
        Ix("alt", "", FALSE), Ix("memo", "", FALSE), Ix("lookup", "", FALSE)}

IxLists == UNION {[1..n -> Ixs] : n \in 0..3}

Plain == [version |-> 0, payerIsRelayer |-> TRUE, signerKey |-> "none", sigs |-> 1,
          readonlySigs |-> 0, oversize |-> FALSE, addresses |-> 5, cu |-> Nothing,
          data |-> Nothing, heap |-> Nothing, fee |-> Nothing, ixs |-> <<>>]

\* Every instruction list, in a v0 transaction and in a v1 one with good limits.
Lists ==
  {[Plain EXCEPT !.ixs = l] : l \in IxLists}
  \cup {[Plain EXCEPT !.ixs = l, !.version = 1, !.cu = 5, !.data = 5] : l \in IxLists}

\* Every header and config, around one passkey action.
Configs ==
  {[Plain EXCEPT !.version = 1, !.ixs = <<Ix("secp256r1", "", FALSE), Ix("lazorkit", "passkey", TRUE)>>,
      !.cu = c, !.data = d, !.heap = h, !.fee = f, !.sigs = s, !.readonlySigs = o,
      !.addresses = a, !.signerKey = k] :
     c \in {Nothing, 0, 5, 9}, d \in {Nothing, 0, 5, 9}, h \in {Nothing, 1},
     f \in {Nothing, 0, 2, 3}, s \in {0, 1, 4, 5}, o \in {0, 1}, a \in {5, 7},
     k \in {"none", "other"}}

AllDecoded == Lists \cup Configs \cup {[t EXCEPT !.payerIsRelayer = FALSE, !.oversize = TRUE] : t \in Configs}

Repeat(x, n) == [i \in 1..n |-> x]

\* SIMD-0385: prefix, header, mask, blockhash, counts, addresses, the config
\* values whose bits are set, the instructions' bytes, the signatures.
Encode(sigs, addrs, f, cu, ixBytes) ==
  LET mask == (IF f = Nothing THEN 0 ELSE 3) + (IF cu THEN 4 ELSE 0)
      message == <<129, sigs, 0, 1, mask, 0, 0, 0>> \o Repeat(200, 32) \o <<1, addrs>>
                 \o Repeat(RelayerKey, 32) \o Repeat(66, 32 * (addrs - 1))
                 \o (IF f = Nothing THEN <<>> ELSE f)
                 \o (IF cu THEN <<1, 0, 0, 0>> ELSE <<>>) \o Repeat(13, ixBytes)
  IN  [bytes |-> message \o Repeat(0, 64) \o Repeat(99, 64 * (sigs - 1)),
       message |-> Len(message), fee |-> f, whole |-> TRUE]

BigFee == <<1, 2, 3, 4, 5, 6, 7, 255>>

WholeWires ==
  {Encode(s, a, f, c, n) : s \in 1..3, a \in 3..5, f \in {Nothing, BigFee}, c \in BOOLEAN, n \in {0, 9}}

\* Bytes cut short, which txV1Layout and txV1PriorityFee meet.
CutWires ==
  {[w EXCEPT !.bytes = SubSeq(w.bytes, 1, n), !.whole = FALSE] :
     w \in {Encode(2, 3, BigFee, TRUE, 9)}, n \in {1, 2, 30, 41, 42, 73, 74, 138, 145, 146, 150, 201, 202, 203}}

AllWires == WholeWires \cup CutWires

-----------------------------------------------------------------------------
MCInit == part \in {"gate", "vetting"} /\ Init /\ Vetting!Init

MCNext ==
  \/ part = "gate" /\ Next /\ UNCHANGED <<part, vetVars>>
  \/ part = "vetting" /\ Vetting!Next /\ UNCHANGED <<part, vars>>

MCSpec == MCInit /\ [][MCNext]_<<part, vars, vetVars>>

\* RelayerVetting's: no v1 transaction inspectTxV1 accepts lands only to fail,
\* or costs more than its cap, and txv1.mjs reads and signs what was vetted.
NoFeeForNothing == Vetting!NoFeeForNothing
=============================================================================
