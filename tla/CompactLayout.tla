--------------------------- MODULE CompactLayout ---------------------------
(***************************************************************************)
(* How a list of inner instructions becomes one Execute or ExecuteDeferred *)
(* instruction: the client's account table, its compact encoding and the   *)
(* accounts hash a passkey signs (sdk-kit/src/transactions/compact.ts and  *)
(* packing.ts), and the program's reading of the same bytes                *)
(* (program/src/compact.rs, processor/execute).                            *)
(*                                                                         *)
(* An account meta is a key with its two privileges; a byte is a pair      *)
(* <<"u8", n>>, so that byte strings of different origin can be compared.  *)
(***************************************************************************)
EXTENDS Integers, Sequences, SequencesExt, FiniteSetsExt

CONSTANTS
    MaxAccountIndex     \* 127 in the code: the index bits left by the flag bit

ASSUME IndexAssumption == MaxAccountIndex \in Nat

Meta(key, signer, writable) == [key |-> key, signer |-> signer, writable |-> writable]
RO(key) == Meta(key, FALSE, FALSE)
RW(key) == Meta(key, FALSE, TRUE)
SIGNER_RO(key) == Meta(key, TRUE, FALSE)
SIGNER_RW(key) == Meta(key, TRUE, TRUE)

KeysOf(metas) == [i \in DOMAIN metas |-> metas[i].key]

U8(n) == <<"u8", n>>

-----------------------------------------------------------------------------
(* The client.                                                             *)

(* Everything the inner instructions name, in order, outside the fixed     *)
(* prefix: each instruction's program, then its accounts.                  *)
Referenced(fixed, ixs) ==
    SelectSeq(FlattenSeq([i \in DOMAIN ixs |-> <<RO(ixs[i].program)>> \o ixs[i].accounts]),
              LAMBDA m : m.key \notin Range(fixed))

(* buildCompactLayout's remaining accounts: each key once, at its first    *)
(* mention, with the most permissive of its flags.                         *)
EachKeyOnce(refs) ==
    LET first == SelectSeq([i \in 1 .. Len(refs) |-> i],
                           LAMBDA i : \A j \in 1 .. i - 1 : refs[j].key # refs[i].key)
        same(i) == {refs[j] : j \in {j \in 1 .. Len(refs) : refs[j].key = refs[i].key}}
    IN  [n \in 1 .. Len(first) |->
            Meta(refs[first[n]].key,
                 \E m \in same(first[n]) : m.signer,
                 \E m \in same(first[n]) : m.writable)]

RemainingAccounts(fixed, ixs) == EachKeyOnce(Referenced(fixed, ixs))

(* Its index map, zero based; a key listed twice in the prefix answers to  *)
(* its last position.                                                      *)
IndexIn(keys, key) == Max({i \in 1 .. Len(keys) : keys[i] = key}) - 1

EncodeAccountIndex(index, forward) ==
    U8(index + IF forward THEN MaxAccountIndex + 1 ELSE 0)

(* Its compact instructions: a signer the caller asked for is flagged for  *)
(* forwarding, except the payer.                                           *)
CompactInstructions(keys, ixs, payer) ==
    [i \in DOMAIN ixs |->
        [program |-> EncodeAccountIndex(IndexIn(keys, ixs[i].program), FALSE),
         accounts |->
            [a \in DOMAIN ixs[i].accounts |->
                LET m == ixs[i].accounts[a]
                IN  EncodeAccountIndex(IndexIn(keys, m.key), m.signer /\ m.key # payer)],
         data |-> ixs[i].data]]

LayoutOver(fixed, remaining, ixs, payer) ==
    [remaining |-> remaining,
     compact |-> CompactInstructions(fixed \o KeysOf(remaining), ixs, payer)]

(* buildCompactLayout over the keys of the fixed prefix.                   *)
BuildCompactLayout(fixed, ixs, payer) ==
    LayoutOver(fixed, RemainingAccounts(fixed, ixs), ixs, payer)

(* encodeAccountIndex throws when the table outgrows the index bits.       *)
TableFits(fixed, ixs) ==
    Len(fixed) + Len(RemainingAccounts(fixed, ixs)) <= MaxAccountIndex + 1

PackCompactInstructions(compact) ==
    <<U8(Len(compact))>>
    \o FlattenSeq([i \in DOMAIN compact |->
         <<compact[i].program, U8(Len(compact[i].accounts))>> \o compact[i].accounts
         \o <<U8(Len(compact[i].data))>> \o compact[i].data])

\* Mutant: an account keeps the flags of each of its positions.
WithRuntimeRoles_PerPosition(metas, feePayer) == metas

(* withRuntimeRoles: the runtime reports privileges per key, and the fee   *)
(* payer (a set of at most one key, when it is not the payer) as a         *)
(* writable signer.                                                        *)
WithRuntimeRoles(metas, feePayer) ==
    [i \in DOMAIN metas |->
        LET same == {m \in Range(metas) : m.key = metas[i].key}
        IN  Meta(metas[i].key,
                 metas[i].key \in feePayer \/ \E m \in same : m.signer,
                 metas[i].key \in feePayer \/ \E m \in same : m.writable)]

DecodedIndex(byte) == byte[2] % (MaxAccountIndex + 1)

(* computeAccountsHash, as its preimage: the program and the accounts of   *)
(* each instruction, with their flags.                                     *)
ComputeAccountsHash(metas, compact) ==
    FlattenSeq([i \in DOMAIN compact |->
        [n \in 1 .. Len(compact[i].accounts) + 1 |->
            metas[1 + DecodedIndex((<<compact[i].program>> \o compact[i].accounts)[n])]]])

-----------------------------------------------------------------------------
(* The program.                                                            *)

(* What the runtime hands it: privileges by key over everything the        *)
(* transaction lists, the fee payer a writable signer.                     *)
RuntimeAccounts(accounts, listed, feePayer) ==
    [i \in DOMAIN accounts |->
        LET key == accounts[i].key
        IN  Meta(key,
                 key = feePayer \/ \E m \in listed : m.key = key /\ m.signer,
                 key = feePayer \/ \E m \in listed : m.key = key /\ m.writable)]

(* CompactInstructionRef::from_bytes, one instruction at bytes[at]: what   *)
(* it read and where the next one starts, past the end when bytes run out. *)
ByteAt(bytes, i) ==
    IF i \in DOMAIN bytes /\ bytes[i][1] = "u8" THEN bytes[i][2] ELSE Len(bytes)

FromBytes(bytes, at) ==
    LET accounts == ByteAt(bytes, at + 1)
        dataAt == at + 2 + accounts
        end == dataAt + ByteAt(bytes, dataAt)
    IN  IF end <= Len(bytes) /\ \A i \in at .. end : bytes[i][1] = "u8"
        THEN [ix |-> [program |-> bytes[at],
                      accounts |-> SubSeq(bytes, at + 2, dataAt - 1),
                      data |-> SubSeq(bytes, dataAt + 1, end)],
              next |-> end + 1]
        ELSE [ix |-> <<>>, next |-> Len(bytes) + 2]

(* parse_compact_instructions_ref_with_len: the instructions and the bytes *)
(* they take; the authentication payload follows.                          *)
Parses(bytes, parsed) == parsed.next <= Len(bytes) + 1

ParseCompactInstructions(bytes) ==
    FoldLeft(LAMBDA acc, n : LET one == FromBytes(bytes, acc.next)
                             IN  [ixs |-> Append(acc.ixs, one.ix), next |-> one.next],
             [ixs |-> <<>>, next |-> 2],
             [n \in 1 .. bytes[1][2] |-> n])

(* accounts_hash_preimage over the accounts as the runtime reports them.   *)
AccountsHashPreimage(runtime, compact) ==
    FlattenSeq([i \in DOMAIN compact |->
        <<runtime[1 + DecodedIndex(compact[i].program)]>>
        \o [a \in DOMAIN compact[i].accounts |->
               runtime[1 + DecodedIndex(compact[i].accounts[a])]]])

\* Mutant: every signer of the transaction signs the inner instructions.
InnerCpis_EverySigner(runtime, compact, vault, payer, session) ==
    [i \in DOMAIN compact |->
        [program |-> runtime[1 + DecodedIndex(compact[i].program)].key,
         accounts |->
            [a \in DOMAIN compact[i].accounts |->
                LET acc == runtime[1 + DecodedIndex(compact[i].accounts[a])]
                IN  Meta(acc.key, acc.signer \/ acc.key = vault, acc.writable)],
         data |-> compact[i].data]]

(* The CPIs: a signature is forwarded when asked for, held, not the        *)
(* payer's and, in a session, the session key's own; the vault signs.      *)
InnerCpis(runtime, compact, vault, payer, session) ==
    [i \in DOMAIN compact |->
        [program |-> runtime[1 + DecodedIndex(compact[i].program)].key,
         accounts |->
            [a \in DOMAIN compact[i].accounts |->
                LET byte == compact[i].accounts[a]
                    acc == runtime[1 + DecodedIndex(byte)]
                    forwarded == /\ byte[2] > MaxAccountIndex
                                 /\ acc.signer /\ acc.key # payer
                                 /\ session = {} \/ acc.key \in session
                IN  Meta(acc.key, forwarded \/ acc.key = vault, acc.writable)],
         data |-> compact[i].data]]
=============================================================================
