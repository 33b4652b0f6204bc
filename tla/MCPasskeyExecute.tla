-------------------------- MODULE MCPasskeyExecute --------------------------
(* Inner instructions over the keys whose flags are not plain: the payer,  *)
(* a second key that sends or sponsors, the vault, the authority's own     *)
(* key, a co-signer and the wallet.                                        *)
EXTENDS PasskeyExecute

CONSTANTS payer, relayer, coSigner, token

VARIABLE way     \* what happens to transactions on their way: nothing, or one change

Metas ==
    {Meta(k, s, w) : k \in {payer, coSigner}, s \in BOOLEAN, w \in BOOLEAN}
    \cup {Meta(relayer, s, TRUE) : s \in BOOLEAN}
    \cup {Meta(VaultPda(Wallet), s, TRUE) : s \in BOOLEAN}
    \cup {RO(Wallet), SIGNER_RO(AdminKey), SIGNER_RO(SessionKey), RO(token)}

Inner(program, accounts, data) == [program |-> program, accounts |-> accounts, data |-> data]

FewInnerIxs ==
    {<<Inner(token, <<SIGNER_RW(coSigner)>>, <<>>), Inner(token, <<RO(coSigner)>>, <<U8(1)>>)>>,
     <<Inner(token, <<RW(relayer)>>, <<>>), Inner(token, <<SIGNER_RW(payer)>>, <<>>)>>}

MCInnerIxs ==
    FewInnerIxs
    \cup {<<Inner(token, <<a, b>>, <<U8(1)>>)>> : a \in Metas, b \in Metas}
    \cup {<<Inner(token, <<>>, <<>>), Inner(Program, <<>>, <<>>)>>,
          <<Inner(token, <<RO(coSigner), RO(relayer), RO(SysvarRent)>>, <<>>)>>}

MCInit == way \in {"untouched", "changed"} /\ Init

(* Transactions are changed for fewer requests: those of one payer with    *)
(* its fee record, with instructions that share an account.                *)
Chosen(r) ==
    /\ r.ixs \in FewInnerIxs /\ r.payer = payer /\ r.feePayer # AdminKey
    /\ r.op = "execute" => ~r.register
    /\ r.op = "authorize" => r.executor # AdminKey

MCNext ==
    /\ UNCHANGED way
    /\ Step \/ (way = "changed" /\ Alter)
    /\ way = "changed" => Chosen(request') /\ tx'.feePayer # AdminKey

MCSpec == MCInit /\ [][MCNext]_<<vars, way>>
=============================================================================
