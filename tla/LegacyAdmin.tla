---------------------------- MODULE LegacyAdmin ----------------------------
(***************************************************************************)
(* The administrative operations of sdk-legacy (utils/client.ts, signing.ts *)
(* and instructions.ts), in the two phases a browser uses them in:         *)
(* prepare* hands the page a challenge and keeps what finalize* will need, *)
(* the passkey answers when its user does, finalize* builds the            *)
(* transaction from what was kept and the answer.  Several prompts may be  *)
(* open at once, so an answer may be passed to the wrong finalize*.        *)
(* The program, and what a caller asks for, are those of PasskeyAdmin.     *)
(***************************************************************************)
EXTENDS PasskeyAdmin

CONSTANT MaxPrompts     \* bound: prompts open at once

ASSUME PromptsAssumption == MaxPrompts \in Nat \ {0}

VARIABLE prompts        \* the requests prepared and not finalized

legacyVars == <<vars, prompts>>

-----------------------------------------------------------------------------
(* signing.ts and secp256r1.ts *)

buildAuthPayloadPrefix(slot, counter, sysvarIxIndex) ==
    <<<<"slot", slot>>, <<"counter", counter>>, <<"ix", sysvarIxIndex>>>>

buildSecp256r1Challenge(disc, prefix, signedPayload, payer, wallet, counter) ==
    <<<<"disc", disc>>>> \o prefix \o signedPayload
    \o <<Key(payer), Key(wallet), <<"counter", counter>>, Key(Program)>>

prepareSecp256r1(disc, sysvarIxIndex, signedPayload, r) ==
    LET prefix == buildAuthPayloadPrefix(r.slot, Counter + 1, sysvarIxIndex)
    IN  [challenge |-> buildSecp256r1Challenge(disc, prefix, signedPayload, r.payer, r.wallet,
                                               Counter + 1),
         prefix |-> prefix]

buildSecp256r1PrecompileIx(response) ==
    [program |-> Secp256r1Program, accounts |-> <<>>,
     data |-> <<<<"pubkey", PublicKey>>, <<"clientData", response>>>>]

finalizeSecp256r1(signing, response) == signing.prefix \o <<<<"clientData", response>>>>

fullAuthData(o) == <<Key(o.id)>> \o o.rest
lengthPrefixed(buffer) == <<<<"len", Len(buffer)>>>> \o buffer

buildDataPayloadForAdd(o, role, policy) ==
    <<<<"type", o.type>>, <<"role", role>>>> \o fullAuthData(o) \o lengthPrefixed(policy)

buildDataPayloadForTransfer(o) == <<<<"type", o.type>>>> \o fullAuthData(o)

buildDataPayloadForSession(key, expires, actions) ==
    <<Key(key), <<"expires", expires>>>> \o lengthPrefixed(actions)

-----------------------------------------------------------------------------
(* instructions.ts: the accounts, and last the admin's own signature or,    *)
(* with an auth payload, the instructions sysvar.                           *)

Ix(keys, data, authPayload) ==
    [program |-> Program,
     accounts |-> keys \o (IF authPayload = <<>> THEN <<SIGNER_RO(AdminKey)>>
                           ELSE <<RO(SysvarInstructions)>>),
     data |-> data \o authPayload]

createAddAuthorityIx(k, authPayload) ==
    Ix(<<SIGNER_RO(k.payer), RW(k.wallet), RW(k.admin), RW(k.new),
         RO(SystemProgram), RO(SysvarRent)>>,
       <<<<"disc", 1>>, <<"type", k.owner.type>>, <<"role", k.role>>>> \o fullAuthData(k.owner)
       \o lengthPrefixed(k.policy), authPayload)

createRemoveAuthorityIx(k, authPayload) ==
    Ix(<<SIGNER_RO(k.payer), RW(k.wallet), RW(k.admin), RW(k.target), RW(k.refund)>>,
       <<<<"disc", 2>>>>, authPayload)

createTransferOwnershipIx(k, authPayload) ==
    Ix(<<SIGNER_RO(k.payer), RO(k.wallet), RW(k.admin), RW(k.new), RW(k.refund),
         RO(SystemProgram), RO(SysvarRent)>>,
       <<<<"disc", 3>>, <<"type", k.owner.type>>>> \o fullAuthData(k.owner), authPayload)

createCreateSessionIx(k, authPayload) ==
    Ix(<<SIGNER_RO(k.payer), RO(k.wallet), RW(k.admin), RW(k.session),
         RO(SystemProgram), RO(SysvarRent)>>,
       <<<<"disc", 5>>, Key(k.key), <<"expires", k.expires>>>> \o lengthPrefixed(k.actions),
       authPayload)

createRevokeSessionIx(k, authPayload) ==
    Ix(<<SIGNER_RO(k.payer), RO(k.wallet), RW(k.admin), RW(k.session), RW(k.refund)>>,
       <<<<"disc", 9>>>>, authPayload)

-----------------------------------------------------------------------------
(* client.ts.  prepare* keeps for finalize* the signing context and the     *)
(* fields of the instruction; an Ed25519 call passes the same fields on.    *)

adminPda(r) == IF r.signer = "ed25519" THEN AuthorityPda(r.wallet, AdminKey)
               ELSE AuthorityPda(r.wallet, Credential)

\* Mutant: the rent always goes back to the payer.
refundDestination_Payer(r) == r.payer

refundDestination(r) == IF r.refund = NoRefund THEN r.payer ELSE r.refund

Kept(r) == [payer |-> r.payer, wallet |-> r.wallet, admin |-> adminPda(r)]

keptAddAuthority(r) ==
    Kept(r) @@ [new |-> AuthorityPda(r.wallet, r.new.id), owner |-> r.new, role |-> r.role,
                policy |-> r.policy]
keptRemoveAuthority(r) ==
    Kept(r) @@ [target |-> AuthorityPda(r.wallet, r.id), refund |-> refundDestination(r)]
keptTransferOwnership(r) ==
    Kept(r) @@ [new |-> AuthorityPda(r.wallet, r.new.id), owner |-> r.new,
                refund |-> refundDestination(r)]
keptCreateSession(r) ==
    Kept(r) @@ [session |-> SessionPda(r.wallet, r.key), key |-> r.key, expires |-> r.expires,
                actions |-> r.policy]
keptRevokeSession(r) ==
    Kept(r) @@ [session |-> SessionPda(r.wallet, r.key), refund |-> refundDestination(r)]

prepareAddAuthority(r) ==
    prepareSecp256r1(1, 6, buildDataPayloadForAdd(r.new, r.role, r.policy) \o <<Key(r.payer)>>, r)
prepareRemoveAuthority(r) ==
    prepareSecp256r1(2, 5, <<Key(AuthorityPda(r.wallet, r.id)), Key(refundDestination(r))>>, r)
prepareTransferOwnership(r) ==
    prepareSecp256r1(3, 7, buildDataPayloadForTransfer(r.new)
                           \o <<Key(r.payer), Key(refundDestination(r))>>, r)
prepareCreateSession(r) ==
    prepareSecp256r1(5, 6, buildDataPayloadForSession(r.key, r.expires, r.policy)
                           \o <<Key(r.payer)>>, r)
prepareRevokeSession(r) ==
    prepareSecp256r1(9, 5, <<Key(SessionPda(r.wallet, r.key)), Key(refundDestination(r))>>, r)

prepare(r) ==
    CASE r.op = "add" -> prepareAddAuthority(r)
      [] r.op = "remove" -> prepareRemoveAuthority(r)
      [] r.op = "transfer" -> prepareTransferOwnership(r)
      [] r.op = "session" -> prepareCreateSession(r)
      [] r.op = "revoke" -> prepareRevokeSession(r)

addAuthority(r) == createAddAuthorityIx(keptAddAuthority(r), <<>>)
removeAuthority(r) == createRemoveAuthorityIx(keptRemoveAuthority(r), <<>>)
transferOwnership(r) == createTransferOwnershipIx(keptTransferOwnership(r), <<>>)
createSession(r) == createCreateSessionIx(keptCreateSession(r), <<>>)
revokeSession(r) == createRevokeSessionIx(keptRevokeSession(r), <<>>)

finalizeAddAuthority(r, response) ==
    createAddAuthorityIx(keptAddAuthority(r), finalizeSecp256r1(prepareAddAuthority(r), response))
finalizeRemoveAuthority(r, response) ==
    createRemoveAuthorityIx(keptRemoveAuthority(r), finalizeSecp256r1(prepareRemoveAuthority(r), response))
finalizeTransferOwnership(r, response) ==
    createTransferOwnershipIx(keptTransferOwnership(r), finalizeSecp256r1(prepareTransferOwnership(r), response))
finalizeCreateSession(r, response) ==
    createCreateSessionIx(keptCreateSession(r), finalizeSecp256r1(prepareCreateSession(r), response))
finalizeRevokeSession(r, response) ==
    createRevokeSessionIx(keptRevokeSession(r), finalizeSecp256r1(prepareRevokeSession(r), response))

build(r) ==
    CASE r.op = "add" -> addAuthority(r)
      [] r.op = "remove" -> removeAuthority(r)
      [] r.op = "transfer" -> transferOwnership(r)
      [] r.op = "session" -> createSession(r)
      [] r.op = "revoke" -> revokeSession(r)

finalize(r, response) ==
    CASE r.op = "add" -> finalizeAddAuthority(r, response)
      [] r.op = "remove" -> finalizeRemoveAuthority(r, response)
      [] r.op = "transfer" -> finalizeTransferOwnership(r, response)
      [] r.op = "session" -> finalizeCreateSession(r, response)
      [] r.op = "revoke" -> finalizeRevokeSession(r, response)

assertAddAuthorityRole(r) ==
    /\ r.role = OWNER => r.allowOwner
    /\ r.role = SPENDER => r.policy # <<>>
    /\ r.role # SPENDER => r.policy = <<>>

assertSessionActions(r) == r.policy = <<>> => r.unrestricted

Asserts(r) ==
    /\ r.op = "add" => assertAddAuthorityRole(r)
    /\ r.op = "session" => assertSessionActions(r)

-----------------------------------------------------------------------------
(* The page, the passkey and the chain.  Once a transaction is built it is  *)
(* followed, and the other prompts are let go.                              *)

\* An Ed25519 admin signs the transaction itself.
CallEd25519(r) ==
    /\ request = Nothing /\ r.signer = "ed25519" /\ Asserts(r)
    /\ request' = r
    /\ tx' = [ixs |-> <<build(r)>>, feePayer |-> r.payer]
    /\ prompts' = {} /\ signed' = {}
    /\ UNCHANGED <<altered, outcome>>

Prepare(r) ==
    /\ request = Nothing /\ r.signer = "passkey" /\ Asserts(r)
    /\ r \notin prompts /\ Cardinality(prompts) < MaxPrompts
    /\ prompts' = prompts \cup {r}
    /\ UNCHANGED vars

AnswerPrompt(r) ==
    /\ request = Nothing /\ r \in prompts
    /\ prepare(r).challenge \notin signed
    /\ signed' = signed \cup {prepare(r).challenge}
    /\ UNCHANGED <<request, tx, altered, outcome, prompts>>

\* finalizeAddAuthority .. finalizeRevokeSession, with the answer the page passes.
Finalize(r, response) ==
    /\ request = Nothing /\ r \in prompts /\ response \in signed
    /\ request' = r
    /\ altered' = (response # prepare(r).challenge)
    /\ tx' = [ixs |-> <<buildSecp256r1PrecompileIx(response),
                        finalize(r, response)>>,
              feePayer |-> r.payer]
    /\ prompts' = {} /\ signed' = {response}
    /\ UNCHANGED outcome

LandLegacy == Land /\ UNCHANGED prompts

LegacyInit == Init /\ prompts = {}

LegacyNext ==
    \/ \E r \in Requests : CallEd25519(r) \/ Prepare(r)
    \/ \E r \in prompts : AnswerPrompt(r) \/ \E c \in signed : Finalize(r, c)
    \/ LandLegacy

LegacySpec == LegacyInit /\ [][LegacyNext]_legacyVars

-----------------------------------------------------------------------------
(* Properties. *)

\* With several prompts open, what the program does is what the caller of the
\* finalized request asked for, and the passkey answered that very prompt: an
\* answer handed to another finalize* moves nothing.  A request finalized with its
\* own answer while its slot is fresh is accepted: what prepare* had signed, what
\* finalize* puts in the instruction and what the handler rebuilds are the same
\* bytes, in this SDK as in the other.
LandsWhatWasAnswered ==
    /\ outcome \notin {Nothing, Refused, Rejected} => outcome = Asked(request) /\ ~altered
    /\ outcome = Rejected => altered \/ Now - request.slot >= MaxSlotAge
============================================================================
