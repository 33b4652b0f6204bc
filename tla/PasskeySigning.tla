--------------------------- MODULE PasskeySigning ---------------------------
(***************************************************************************)
(* How a client and the program agree on what an authority signed.  The    *)
(* client half is sdk-kit/src/secp256r1 (signing.ts, secp256r1.ts); the    *)
(* program half is program/src/auth.  Instruction data is a sequence of    *)
(* fields <<kind, value>>; a hash is the sequence it is taken over.        *)
(***************************************************************************)
EXTENDS CompactLayout

CONSTANTS
    Program, SystemProgram, SysvarRent, SysvarInstructions, Secp256r1Program,
    Credential,     \* the passkey's credential-id hash
    PublicKey,      \* and its compressed public key
    AdminKey,       \* an Ed25519 key that is an authority as well
    Wallets,        \* wallets that list both as Owners
    Counter,        \* the passkey's replay counter on each
    Now,            \* slot the transaction lands in
    MaxSlotAge      \* MAX_SLOT_AGE, 150 in the code

ASSUME SlotAssumption == Counter \in Nat /\ Now \in Nat /\ MaxSlotAge \in Nat

VaultPda(wallet) == <<"vault", wallet>>
AuthorityPda(wallet, id) == <<"authority", wallet, id>>
SessionPda(wallet, key) == <<"session", wallet, key>>
DeferredPda(wallet, authority, counter) == <<"deferred", wallet, authority, counter>>

Key(k) == <<"key", k>>

-----------------------------------------------------------------------------
(* The client.                                                             *)

(* buildAuthPayloadPrefix: the fourteen bytes known before the passkey     *)
(* answers.                                                                *)
AuthPayloadPrefix(slot, counter, sysvarIxIndex) ==
    <<<<"slot", slot>>, <<"counter", counter>>, <<"ix", sysvarIxIndex>>>>

BuildSecp256r1Challenge(disc, prefix, signedPayload, payer, wallet, counter) ==
    <<<<"disc", disc>>>> \o prefix \o signedPayload
    \o <<Key(payer), Key(wallet), <<"counter", counter>>, Key(Program)>>

(* prepareSecp256r1, with the slot and the counter just read.              *)
PrepareSecp256r1(disc, sysvarIxIndex, signedPayload, slot, payer, wallet) ==
    LET prefix == AuthPayloadPrefix(slot, Counter + 1, sysvarIxIndex)
    IN  [prefix |-> prefix,
         challenge |-> BuildSecp256r1Challenge(disc, prefix, signedPayload,
                                               payer, wallet, Counter + 1)]

(* finalizeSecp256r1: the passkey's response holds the challenge inside    *)
(* its clientDataJSON.                                                     *)
AuthPayload(prepared) == prepared.prefix \o <<<<"clientData", prepared.challenge>>>>

(* buildSecp256r1PrecompileIx                                              *)
PrecompileIx(prepared) ==
    [program |-> Secp256r1Program, accounts |-> <<>>,
     data |-> <<<<"pubkey", PublicKey>>, <<"clientData", prepared.challenge>>>>]

(* What account an authority's instruction ends with: its own key as a     *)
(* signer, or the instructions sysvar for a passkey.                       *)
Authorizer(signer) ==
    IF signer = "ed25519" THEN <<SIGNER_RO(AdminKey)>> ELSE <<RO(SysvarInstructions)>>

SignerPda(wallet, signer) ==
    AuthorityPda(wallet, IF signer = "ed25519" THEN AdminKey ELSE Credential)

-----------------------------------------------------------------------------
(* The program.                                                            *)

(* The authority accounts it can read.                                     *)
Authorities == {SignerPda(w, s) : w \in Wallets, s \in {"ed25519", "passkey"}}
WalletOf(authority) == authority[2]
IsPasskey(authority) == authority[3] = Credential

(* Secp256r1Authenticator::authenticate for the instruction at tx[at],     *)
(* given the challenges the passkey has answered.                          *)
Secp256r1Authenticate(tx, at, runtime, authority, authPayload, signedPayload, disc, signed) ==
    /\ Len(authPayload) = 4
    /\ authPayload[1][2] <= Now /\ Now - authPayload[1][2] < MaxSlotAge
    /\ authPayload[2][2] = Counter + 1
    /\ runtime[1].signer
    /\ LET challenge == <<<<"disc", disc>>>> \o SubSeq(authPayload, 1, 3) \o signedPayload
                        \o <<Key(runtime[1].key), Key(WalletOf(authority)),
                             <<"counter", Counter + 1>>, Key(Program)>>
       IN  authPayload[4] = <<"clientData", challenge>> /\ challenge \in signed
    /\ authPayload[3][2] + 1 \in DOMAIN runtime
    /\ runtime[authPayload[3][2] + 1].key = SysvarInstructions
    /\ at > 1 /\ tx[at - 1].program = Secp256r1Program
    /\ tx[at - 1].data = <<<<"pubkey", PublicKey>>, authPayload[4]>>

(* Ed25519Authenticator::authenticate                                      *)
Ed25519Authenticate(runtime) == \E m \in Range(runtime) : m.signer /\ m.key = AdminKey

(* The authority account must exist, be listed writable for a passkey and  *)
(* belong to the wallet account given.                                     *)
Authenticate(tx, at, runtime, authority, authPayload, signedPayload, disc, signed) ==
    /\ authority.key \in Authorities
    /\ WalletOf(authority.key) = runtime[2].key
    /\ IF IsPasskey(authority.key)
       THEN /\ authority.writable
            /\ Secp256r1Authenticate(tx, at, runtime, authority.key, authPayload,
                                     signedPayload, disc, signed)
       ELSE Ed25519Authenticate(runtime)
=============================================================================
