--------------------------- MODULE MCPasskeyAdmin ---------------------------
(* A passkey and an Ed25519 key, both Owners of the same two wallets, with *)
(* one SDK or the other; two payers, and two prompts open at once.         *)
EXTENDS LegacyAdmin

CONSTANTS w1, w2, payer, relayer, newKey, newCredential, newPublicKey

VARIABLE sdk    \* the SDK the app uses

MCNewOwners ==
    {[type |-> 0, id |-> newKey, rest |-> <<>>],
     [type |-> 1, id |-> newCredential, rest |-> <<<<"pubkey", newPublicKey>>, <<"rp", 1>>>>]}

MCPolicies == {<<>>, <<<<"action", 1>>>>}

MCSlots == {Now, Now - MaxSlotAge}

Symmetric == Permutations({payer, relayer}) \cup Permutations({w1, w2})

MCInit == sdk \in {"kit", "legacy"} /\ LegacyInit

MCNext ==
    /\ UNCHANGED sdk
    /\ \/ sdk = "kit" /\ Next /\ UNCHANGED prompts
       \/ sdk = "legacy" /\ LegacyNext

MCSpec == MCInit /\ [][MCNext]_<<legacyVars, sdk>>

(* PasskeyAdmin's, of the kit: the program does what the caller asked for  *)
(* or nothing, whatever happens to the transaction on its way, and does it *)
(* when nothing happens (prepare*, finalize*, process_add_authority ..).   *)
KitAcceptedIsAsked == sdk = "kit" => AcceptedIsAsked

(* LegacyAdmin's: an answer handed to another finalize* moves nothing, and *)
(* the right one lands what its own caller asked for.                      *)
LegacyLandsWhatWasAnswered == sdk = "legacy" => LandsWhatWasAnswered
=============================================================================
