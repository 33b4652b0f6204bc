---------------------------- MODULE PasskeyAdmin ----------------------------
(***************************************************************************)
(* The administrative operations of sdk-kit/src/client.ts (AddAuthority,   *)
(* RemoveAuthority, TransferOwnership, CreateSession, RevokeSession), from *)
(* the caller's request to the instruction, against the program handler    *)
(* that reads it back.  The transaction is built by the wallet app and     *)
(* sent by someone else (a relayer, as fee payer), so it may reach the     *)
(* chain altered.                                                          *)
(*                                                                         *)
(* The program reads bytes at offsets; here it reads fields, and a read    *)
(* that falls on a field of another kind fails.                            *)
(***************************************************************************)
EXTENDS PasskeySigning, TLC

CONSTANTS
    Payers,         \* fee payers, refund destinations
    NoRefund,       \* refundDestination left out
    NewOwners,      \* key material of a new authority: [type, id, rest]
    OtherId,        \* another authority on every wallet
    SessionKey,
    Policies,       \* action buffers, the empty one included
    Slots           \* slots a prepare may read

VARIABLES
    request,    \* what the caller asked for
    tx,         \* the transaction: its instructions and its fee payer
    altered,    \* whether it is still the one the client returned
    signed,     \* challenges the passkey has answered
    outcome     \* "none", "refused" by the client, "rejected" on chain, or the effect

vars == <<request, tx, altered, signed, outcome>>

OWNER == 0
SPENDER == 2

Nothing == [op |-> "none"]
Refused == [op |-> "refused"]
Rejected == [op |-> "rejected"]

Common == [payer : Payers, wallet : Wallets, signer : {"ed25519", "passkey"}, slot : Slots]
With(ops, more) == {c @@ o @@ m : c \in Common, o \in ops, m \in more}

Refunds == Payers \cup {NoRefund}
RefundDest(r) == IF r.refund = NoRefund THEN r.payer ELSE r.refund

Requests ==
    With([op : {"add"}],
         [new : NewOwners, role : OWNER .. SPENDER, policy : Policies, allowOwner : BOOLEAN])
    \cup With([op : {"remove"}], [id : {OtherId}, refund : Refunds])
    \cup With([op : {"transfer"}], [new : NewOwners, refund : Refunds])
    \cup With([op : {"session"}],
              [key : {SessionKey}, expires : {Now + 1}, policy : Policies,
               unrestricted : BOOLEAN])
    \cup With([op : {"revoke"}], [key : {SessionKey}, refund : Refunds])

-----------------------------------------------------------------------------
(* The client.                                                             *)

(* resolveOwnerFields: a passkey brings its public key and its rpId.       *)
KeyFields(o) == <<Key(o.id)>> \o o.rest

(* assertAddAuthorityRole and assertSessionActions                         *)
AddRoleAllowed(r) ==
    /\ r.role = OWNER => r.allowOwner
    /\ r.role = SPENDER <=> r.policy # <<>>

SessionActionsAllowed(r) == r.policy # <<>> \/ r.unrestricted

\* Mutant: the policy is left out of the signed bytes.
BuildDataPayloadForAdd_NoPolicy(r) ==
    <<<<"type", r.new.type>>, <<"role", r.role>>>> \o KeyFields(r.new)

(* The bytes each operation signs (signing.ts) ...                         *)
BuildDataPayloadForAdd(r) ==
    <<<<"type", r.new.type>>, <<"role", r.role>>>> \o KeyFields(r.new)
    \o <<<<"len", Len(r.policy)>>>> \o r.policy

BuildDataPayloadForTransfer(r) == <<<<"type", r.new.type>>>> \o KeyFields(r.new)

BuildDataPayloadForSession(r) ==
    <<Key(r.key), <<"expires", r.expires>>, <<"len", Len(r.policy)>>>> \o r.policy

(* ... and the instruction it is put in (builders.ts).                     *)
CreateAddAuthorityIx(r, authPayload) ==
    [program |-> Program,
     accounts |-> <<SIGNER_RO(r.payer), RW(r.wallet), RW(SignerPda(r.wallet, r.signer)),
                    RW(AuthorityPda(r.wallet, r.new.id)), RO(SystemProgram), RO(SysvarRent)>>
                  \o Authorizer(r.signer),
     data |-> <<<<"disc", 1>>, <<"type", r.new.type>>, <<"role", r.role>>>>
              \o KeyFields(r.new) \o <<<<"len", Len(r.policy)>>>> \o r.policy \o authPayload]

CreateRemoveAuthorityIx(r, authPayload) ==
    [program |-> Program,
     accounts |-> <<SIGNER_RO(r.payer), RW(r.wallet), RW(SignerPda(r.wallet, r.signer)),
                    RW(AuthorityPda(r.wallet, r.id)), RW(RefundDest(r))>> \o Authorizer(r.signer),
     data |-> <<<<"disc", 2>>>> \o authPayload]

CreateTransferOwnershipIx(r, authPayload) ==
    [program |-> Program,
     accounts |-> <<SIGNER_RO(r.payer), RO(r.wallet), RW(SignerPda(r.wallet, r.signer)),
                    RW(AuthorityPda(r.wallet, r.new.id)), RW(RefundDest(r)), RO(SystemProgram),
                    RO(SysvarRent)>> \o Authorizer(r.signer),
     data |-> <<<<"disc", 3>>, <<"type", r.new.type>>>> \o KeyFields(r.new) \o authPayload]

CreateCreateSessionIx(r, authPayload) ==
    [program |-> Program,
     accounts |-> <<SIGNER_RO(r.payer), RO(r.wallet), RW(SignerPda(r.wallet, r.signer)),
                    RW(SessionPda(r.wallet, r.key)), RO(SystemProgram), RO(SysvarRent)>>
                  \o Authorizer(r.signer),
     data |-> <<<<"disc", 5>>, Key(r.key), <<"expires", r.expires>>, <<"len", Len(r.policy)>>>>
              \o r.policy \o authPayload]

CreateRevokeSessionIx(r, authPayload) ==
    [program |-> Program,
     accounts |-> <<SIGNER_RO(r.payer), RO(r.wallet), RW(SignerPda(r.wallet, r.signer)),
                    RW(SessionPda(r.wallet, r.key)), RW(RefundDest(r))>> \o Authorizer(r.signer),
     data |-> <<<<"disc", 9>>>> \o authPayload]

(* prepareAddAuthority .. prepareRevokeSession: the challenge the passkey  *)
(* is asked to sign.                                                       *)
PrepareAddAuthority(r) ==
    PrepareSecp256r1(1, 6, BuildDataPayloadForAdd(r) \o <<Key(r.payer)>>,
                     r.slot, r.payer, r.wallet)

PrepareRemoveAuthority(r) ==
    PrepareSecp256r1(2, 5, <<Key(AuthorityPda(r.wallet, r.id)), Key(RefundDest(r))>>,
                     r.slot, r.payer, r.wallet)

PrepareTransferOwnership(r) ==
    PrepareSecp256r1(3, 7, BuildDataPayloadForTransfer(r) \o <<Key(r.payer), Key(RefundDest(r))>>,
                     r.slot, r.payer, r.wallet)

PrepareCreateSession(r) ==
    PrepareSecp256r1(5, 6, BuildDataPayloadForSession(r) \o <<Key(r.payer)>>,
                     r.slot, r.payer, r.wallet)

PrepareRevokeSession(r) ==
    PrepareSecp256r1(9, 5, <<Key(SessionPda(r.wallet, r.key)), Key(RefundDest(r))>>,
                     r.slot, r.payer, r.wallet)

(* finalizeAddAuthority .. finalizeRevokeSession: the precompile that      *)
(* checks the signature, then the instruction.                             *)
FinalizeAddAuthority(r, p) == <<PrecompileIx(p), CreateAddAuthorityIx(r, AuthPayload(p))>>
FinalizeRemoveAuthority(r, p) == <<PrecompileIx(p), CreateRemoveAuthorityIx(r, AuthPayload(p))>>
FinalizeTransferOwnership(r, p) ==
    <<PrecompileIx(p), CreateTransferOwnershipIx(r, AuthPayload(p))>>
FinalizeCreateSession(r, p) == <<PrecompileIx(p), CreateCreateSessionIx(r, AuthPayload(p))>>
FinalizeRevokeSession(r, p) == <<PrecompileIx(p), CreateRevokeSessionIx(r, AuthPayload(p))>>

(* addAuthority .. revokeSession, the calls themselves: an Ed25519 signer  *)
(* needs no challenge; a passkey answers the prepared one (challenges).    *)
AddAuthority(r) ==
    IF ~AddRoleAllowed(r) THEN [tx |-> <<>>, challenges |-> {}]
    ELSE IF r.signer = "ed25519" THEN [tx |-> <<CreateAddAuthorityIx(r, <<>>)>>, challenges |-> {}]
    ELSE LET p == PrepareAddAuthority(r)
         IN  [tx |-> FinalizeAddAuthority(r, p), challenges |-> {p.challenge}]

RemoveAuthority(r) ==
    IF r.signer = "ed25519" THEN [tx |-> <<CreateRemoveAuthorityIx(r, <<>>)>>, challenges |-> {}]
    ELSE LET p == PrepareRemoveAuthority(r)
         IN  [tx |-> FinalizeRemoveAuthority(r, p), challenges |-> {p.challenge}]

TransferOwnership(r) ==
    IF r.signer = "ed25519" THEN [tx |-> <<CreateTransferOwnershipIx(r, <<>>)>>, challenges |-> {}]
    ELSE LET p == PrepareTransferOwnership(r)
         IN  [tx |-> FinalizeTransferOwnership(r, p), challenges |-> {p.challenge}]

CreateSession(r) ==
    IF ~SessionActionsAllowed(r) THEN [tx |-> <<>>, challenges |-> {}]
    ELSE IF r.signer = "ed25519" THEN [tx |-> <<CreateCreateSessionIx(r, <<>>)>>, challenges |-> {}]
    ELSE LET p == PrepareCreateSession(r)
         IN  [tx |-> FinalizeCreateSession(r, p), challenges |-> {p.challenge}]

RevokeSession(r) ==
    IF r.signer = "ed25519" THEN [tx |-> <<CreateRevokeSessionIx(r, <<>>)>>, challenges |-> {}]
    ELSE LET p == PrepareRevokeSession(r)
         IN  [tx |-> FinalizeRevokeSession(r, p), challenges |-> {p.challenge}]

Built(r) ==
    CASE r.op = "add" -> AddAuthority(r)
      [] r.op = "remove" -> RemoveAuthority(r)
      [] r.op = "transfer" -> TransferOwnership(r)
      [] r.op = "session" -> CreateSession(r)
      [] r.op = "revoke" -> RevokeSession(r)

-----------------------------------------------------------------------------
(* The program: each handler gives its effect, or Rejected.                *)

Kinds(fields, kinds) ==
    /\ Len(fields) >= Len(kinds)
    /\ \A i \in DOMAIN kinds : fields[i][1] = kinds[i]

(* The key material of a new authority, by its type.                       *)
KeyKinds(type) == IF type = 0 THEN <<"key">> ELSE <<"key", "pubkey", "rp">>

(* A field that counts the ones after it.                                  *)
Counted(fields, at) ==
    /\ Len(fields) >= at /\ fields[at][1] = "len"
    /\ Len(fields) >= at + fields[at][2]
    /\ \A i \in at + 1 .. at + fields[at][2] : fields[i][1] = "action"

(* The accounts that exist already.                                        *)
Existing == Authorities \cup {AuthorityPda(w, OtherId) : w \in Wallets}

(* initialize_pda_account with the rent sysvar at index rent: the payer    *)
(* funds a new account.                                                    *)
Creates(runtime, new, rent) ==
    /\ runtime[rent].key = SysvarRent
    /\ \E i \in DOMAIN runtime : runtime[i].key = SystemProgram
    /\ runtime[new].key \notin Existing
    /\ runtime[1].writable /\ runtime[new].writable

ProcessAddAuthority(t, at, runtime) ==
    LET fields == Tail(t[at].data)
        keyEnd == 2 + Len(KeyKinds(fields[1][2]))
        end == keyEnd + 1 + fields[keyEnd + 1][2]
        payload == SubSeq(fields, 1, end)
        policy == SubSeq(fields, keyEnd + 2, end)
        role == fields[2][2]
    IN  IF /\ Kinds(fields, <<"type", "role">> \o KeyKinds(fields[1][2]))
           /\ Counted(fields, keyEnd + 1)
           /\ runtime[1].signer
           /\ Authenticate(t, at, runtime, runtime[3], SubSeq(fields, end + 1, Len(fields)),
                           payload \o <<Key(runtime[1].key)>>, 1, signed)
           /\ role = SPENDER <=> policy # <<>>
           /\ runtime[4].key = AuthorityPda(runtime[2].key, fields[3][2])
           /\ Creates(runtime, 4, 6)
           /\ role = OWNER => runtime[2].writable
        THEN [op |-> "add", wallet |-> runtime[2].key, payer |-> runtime[1].key,
              account |-> runtime[4].key, role |-> role,
              material |-> SubSeq(fields, 3, keyEnd), policy |-> policy]
        ELSE Rejected

ProcessRemoveAuthority(t, at, runtime) ==
    IF /\ runtime[1].signer
       /\ runtime[3].writable
       /\ Authenticate(t, at, runtime, runtime[3], Tail(t[at].data),
                       <<Key(runtime[4].key), Key(runtime[5].key)>>, 2, signed)
       /\ runtime[4].key \in Existing
       /\ WalletOf(runtime[4].key) = runtime[2].key
       /\ runtime[4].key \notin {runtime[3].key, runtime[5].key}
       /\ \A i \in {2, 4, 5} : runtime[i].writable
    THEN [op |-> "remove", wallet |-> runtime[2].key, account |-> runtime[4].key,
          refund |-> runtime[5].key]
    ELSE Rejected

ProcessTransferOwnership(t, at, runtime) ==
    LET fields == Tail(t[at].data)
        end == 1 + Len(KeyKinds(fields[1][2]))
    IN  IF /\ Kinds(fields, <<"type">> \o KeyKinds(fields[1][2]))
           /\ runtime[1].signer
           /\ runtime[3].key # runtime[5].key
           /\ runtime[3].writable
           /\ Authenticate(t, at, runtime, runtime[3], SubSeq(fields, end + 1, Len(fields)),
                           SubSeq(fields, 1, end) \o <<Key(runtime[1].key), Key(runtime[5].key)>>,
                           3, signed)
           /\ runtime[4].key = AuthorityPda(runtime[2].key, fields[2][2])
           /\ Creates(runtime, 4, 7)
           /\ runtime[5].writable
        THEN [op |-> "transfer", wallet |-> runtime[2].key, payer |-> runtime[1].key,
              from |-> runtime[3].key, account |-> runtime[4].key,
              material |-> SubSeq(fields, 2, end), refund |-> runtime[5].key]
        ELSE Rejected

ProcessCreateSession(t, at, runtime) ==
    LET fields == Tail(t[at].data)
        end == 3 + fields[3][2]
    IN  IF /\ Kinds(fields, <<"key", "expires", "len">>) /\ Counted(fields, 3)
           /\ runtime[1].signer
           /\ fields[2][2] > Now
           /\ Authenticate(t, at, runtime, runtime[3], SubSeq(fields, end + 1, Len(fields)),
                           SubSeq(fields, 1, end) \o <<Key(runtime[1].key)>>, 5, signed)
           /\ runtime[4].key = SessionPda(runtime[2].key, fields[1][2])
           /\ Creates(runtime, 4, 6)
        THEN [op |-> "session", wallet |-> runtime[2].key, payer |-> runtime[1].key,
              account |-> runtime[4].key, expires |-> fields[2][2],
              policy |-> SubSeq(fields, 4, end)]
        ELSE Rejected

ProcessRevokeSession(t, at, runtime) ==
    IF /\ runtime[1].signer
       /\ runtime[3].writable
       /\ Authenticate(t, at, runtime, runtime[3], Tail(t[at].data),
                       <<Key(runtime[4].key), Key(runtime[5].key)>>, 9, signed)
       /\ runtime[4].key \in {SessionPda(w, SessionKey) : w \in Wallets}
       /\ WalletOf(runtime[4].key) = runtime[2].key
       /\ runtime[4].key # runtime[5].key
       /\ runtime[4].writable /\ runtime[5].writable
    THEN [op |-> "revoke", wallet |-> runtime[2].key, account |-> runtime[4].key,
          refund |-> runtime[5].key]
    ELSE Rejected

(* process_instruction on the last instruction; feePayer is a writable     *)
(* signer whatever the accounts say.                                       *)
ProcessInstruction(t, feePayer) ==
    LET at == Len(t)
        listed == UNION {Range(t[i].accounts) : i \in DOMAIN t}
        runtime == RuntimeAccounts(t[at].accounts, listed, feePayer)
        disc == t[at].data[1][2]
    IN  CASE disc = 1 -> ProcessAddAuthority(t, at, runtime)
          [] disc = 2 -> ProcessRemoveAuthority(t, at, runtime)
          [] disc = 3 -> ProcessTransferOwnership(t, at, runtime)
          [] disc = 5 -> ProcessCreateSession(t, at, runtime)
          [] disc = 9 -> ProcessRevokeSession(t, at, runtime)
-----------------------------------------------------------------------------
NoTx == [ixs |-> <<>>, feePayer |-> NoRefund]

Init ==
    /\ request = Nothing /\ tx = NoTx /\ altered = FALSE
    /\ signed = {} /\ outcome = Nothing

(* A caller asks, and the passkey, if it is one, answers.                  *)
Ask(r) ==
    /\ request = Nothing
    /\ request' = r
    /\ signed' = Built(r).challenges
    /\ tx' = [ixs |-> Built(r).tx, feePayer |-> r.payer]
    /\ outcome' = IF Built(r).tx = <<>> THEN Refused ELSE Nothing
    /\ UNCHANGED altered

(* What can become of the transaction on its way: whoever sends it can     *)
(* list other accounts, other flags, other data, another instruction       *)
(* order, or aim the whole at another wallet or payer.                     *)
Ids == {AdminKey, Credential, OtherId} \cup {o.id : o \in NewOwners}
Pdas == {AuthorityPda(w, id) : w \in Wallets, id \in Ids}
        \cup {SessionPda(w, SessionKey) : w \in Wallets}
Keys == Payers \cup Wallets \cup Pdas \cup {SystemProgram, SysvarRent, SysvarInstructions}

Fields ==
    {Key(k) : k \in Keys \cup Ids \cup {SessionKey}}
    \cup {<<"type", n>> : n \in {0, 1}} \cup {<<"role", n>> : n \in OWNER .. SPENDER}
    \cup {<<"len", n>> : n \in {0, 1}} \cup {<<"expires", n>> : n \in Now + 1 .. Now + 2}
    \cup {<<"slot", n>> : n \in Slots} \cup {<<"counter", n>> : n \in Counter .. Counter + 2}
    \cup {<<"ix", n>> : n \in 4 .. 7} \cup {<<"disc", n>> : n \in {1, 2, 3, 5, 9}}
    \cup {<<"rp", n>> : n \in {1, 2}} \cup {<<"action", n>> : n \in {1, 2}}

Main == Len(tx.ixs)
WithMain(ix) == [tx.ixs EXCEPT ![Main] = ix]
WithAccounts(accounts) == WithMain([tx.ixs[Main] EXCEPT !.accounts = accounts])
Renamed(to) == [i \in DOMAIN tx.ixs[Main].accounts |->
                  LET k == tx.ixs[Main].accounts[i].key IN
                  [tx.ixs[Main].accounts[i] EXCEPT !.key = IF k \in DOMAIN to THEN to[k] ELSE k]]

Relisted ==
    {WithAccounts([tx.ixs[Main].accounts EXCEPT ![i] = Meta(k, s, w)]) :
        i \in DOMAIN tx.ixs[Main].accounts, k \in Keys, s \in BOOLEAN, w \in BOOLEAN}

Rewritten ==
    UNION {{WithMain([tx.ixs[Main] EXCEPT !.data[i] = v]) :
               v \in {v \in Fields : v[1] = tx.ixs[Main].data[i][1]}} :
           i \in DOMAIN tx.ixs[Main].data}

Reaimed ==
    {WithAccounts(Renamed([k \in Wallets \cup Pdas |->
                             IF k \in Wallets THEN w ELSE <<k[1], w, k[3]>>])) : w \in Wallets}
    \cup {WithAccounts(Renamed([k \in {request.payer} |-> p])) : p \in Payers}

Reordered == {Tail(tx.ixs), <<tx.ixs[1], tx.ixs[Main], tx.ixs[Main]>>}

Signable(ixs) ==
    \A i \in DOMAIN ixs : \A m \in Range(ixs[i].accounts) : m.signer => m.key \in Payers

(* A passkey's transaction is signed by nobody else but its payers; an     *)
(* Ed25519 authority signs the transaction itself, which fixes it.         *)
Alter ==
    /\ request # Nothing /\ outcome = Nothing /\ ~altered
    /\ request.signer = "passkey"
    /\ altered' = TRUE
    /\ \E p \in Payers, ixs \in Relisted \cup Rewritten \cup Reaimed \cup Reordered :
          /\ Signable(ixs)
          /\ tx' = [ixs |-> ixs, feePayer |-> p]
    /\ UNCHANGED <<request, signed, outcome>>

Land ==
    /\ request # Nothing /\ outcome = Nothing
    /\ outcome' = ProcessInstruction(tx.ixs, tx.feePayer)
    /\ UNCHANGED <<request, tx, altered, signed>>

Next == (\E r \in Requests : Ask(r)) \/ Alter \/ Land

Spec == Init /\ [][Next]_vars

-----------------------------------------------------------------------------
(* What the caller asked for, as an effect on chain.                       *)
Asked(r) ==
    CASE r.op = "add" ->
           [op |-> "add", wallet |-> r.wallet, payer |-> r.payer,
            account |-> AuthorityPda(r.wallet, r.new.id), role |-> r.role,
            material |-> KeyFields(r.new), policy |-> r.policy]
      [] r.op = "remove" ->
           [op |-> "remove", wallet |-> r.wallet, account |-> AuthorityPda(r.wallet, r.id),
            refund |-> RefundDest(r)]
      [] r.op = "transfer" ->
           [op |-> "transfer", wallet |-> r.wallet, payer |-> r.payer,
            from |-> SignerPda(r.wallet, r.signer), account |-> AuthorityPda(r.wallet, r.new.id),
            material |-> KeyFields(r.new), refund |-> RefundDest(r)]
      [] r.op = "session" ->
           [op |-> "session", wallet |-> r.wallet, payer |-> r.payer,
            account |-> SessionPda(r.wallet, r.key), expires |-> r.expires, policy |-> r.policy]
      [] r.op = "revoke" ->
           [op |-> "revoke", wallet |-> r.wallet, account |-> SessionPda(r.wallet, r.key),
            refund |-> RefundDest(r)]

(* Whatever is done to a transaction between the app and the chain, the    *)
(* program does what the caller asked for, on the wallet, with the payer   *)
(* and the refund destination the caller named, or nothing: everything a   *)
(* handler reads is under the passkey's signature or derived from what is  *)
(* (process_add_authority .. revoke.rs process, Secp256r1Authenticator).   *)
(* Nor does it refuse in vain: a transaction that arrives as the client    *)
(* built it, while its slot is fresh, is accepted, so that what finalize*  *)
(* puts in the instruction, what prepare* had signed and what the handler  *)
(* rebuilds are the same bytes, the sysvar index included.                 *)
AcceptedIsAsked ==
    /\ outcome \notin {Nothing, Refused, Rejected} => outcome = Asked(request)
    /\ outcome = Rejected => altered \/ Now - request.slot >= MaxSlotAge
=============================================================================
