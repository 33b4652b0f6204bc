------------------------------ MODULE MCPolicy ------------------------------
(***************************************************************************)
(* Instances of Policy and of ActionCodec for TLC.  They share the clock   *)
(* and nothing else; the first state picks one of them: Policy over SOL    *)
(* alone, Policy over token accounts, or the bytes a policy is kept in.    *)
(***************************************************************************)
EXTENDS Policy, Sequences, TLC

CONSTANTS usdc, wsol, ata, fresh, wrapped, dex

VARIABLES world, account, asked, book, refused, spends

policyVars == <<granted, policy, sol, intact, token, run, lost, out>>
codecVars == <<account, asked, book, refused, spends>>

Limit(n, e) == [remaining |-> n, expires_at |-> e]
MaxPerTx(n, e) == [max |-> n, expires_at |-> e]
Recurring(n, w, e) ==
    [limit |-> n, spent |-> 0, window |-> w, last_reset |-> 0,
     expires_at |-> e]

Grant(caps) == [caps |-> caps, allow |-> {}, deny |-> {}]

\* SOL under every kind of cap, with and without expiry, alone and together.
SolGrants ==
    {Grant(<<"Recurring", SOL>> :> Recurring(n, 2, 0)) : n \in 1 .. 2}
      \cup {Grant(<<"Limit", SOL>> :> Limit(2, 2) @@
                  <<"MaxPerTx", SOL>> :> MaxPerTx(1, 3)),
            [caps |-> <<"Limit", SOL>> :> Limit(2, 0),
             allow |-> {[program |-> dex, expires_at |-> 2]}, deny |-> {}],
            [caps |-> <<"Limit", SOL>> :> Limit(2, 3), allow |-> {},
             deny |-> {[program |-> dex, expires_at |-> 1]}]}

\* A named mint, and policies that name nothing the vault holds.
TokenGrants ==
    {Grant(<<"Limit", usdc>> :> Limit(1, 0)),
     Grant(<<"Limit", SOL>> :> Limit(1, 0)),
     [caps |-> <<>>, allow |-> {[program |-> dex, expires_at |-> 0]},
      deny |-> {}]}

NoAccounts == <<>>

Tokens == INSTANCE Policy WITH
    Native <- {wsol}, TokenAccounts <- {ata, fresh, wrapped},
    MintOf <- [a \in {ata, fresh, wrapped} |-> IF a = wrapped THEN wsol ELSE usdc],
    Grants <- TokenGrants, MaxSlot <- 0, MaxAmount <- 1

-----------------------------------------------------------------------------
\* Lists of up to two actions over two mints, and full and overfull ones.
A == INSTANCE ActionCodec WITH
    Lists <- {}, Assets <- {0, 11, 12}, Programs <- {21, 22}, Amounts <- {1, 300},
    Slots <- {1, 301, 602}, MaxSpends <- 2

Single == A!Actions({255, 300}, {0, 300}, {{}, {300}})
Pairs == {<<a, b>> : a, b \in A!Actions({300}, {300}, {{300}})}
Long == {[i \in 1 .. n |-> [type |-> A!ProgramWhitelist, key |-> 20 + i, limit |-> 0,
                            window |-> 0, expiresAt |-> {}]] : n \in {16, 17}}

Codec == INSTANCE ActionCodec WITH
    Lists <- {<<>>} \cup {<<a>> : a \in Single} \cup Pairs \cup Long,
    Assets <- {0, 11, 12}, Programs <- {21, 22}, Amounts <- {1, 300},
    Slots <- {1, 301, 602}, MaxSpends <- 2

-----------------------------------------------------------------------------
Off == "off"
CodecOff ==
    account = Off /\ asked = Off /\ book = Off /\ refused = Off /\ spends = Off

\* While bytes are looked at, the policy engine rests in one of its states.
PolicyOff ==
    Init /\ sol = 0 /\ granted = CHOOSE g \in Grants : TRUE

MCInit ==
    \/ world = "sol" /\ Init /\ CodecOff
    \/ world = "tokens" /\ Tokens!Init /\ token[fresh] = Elsewhere /\ CodecOff
    \/ world = "codec" /\ Codec!Init /\ PolicyOff

MCNext ==
    /\ UNCHANGED world
    /\ \/ world = "sol" /\ Next /\ UNCHANGED codecVars
       \/ world = "tokens" /\ Tokens!Next /\ UNCHANGED codecVars
       \/ world = "codec" /\ Codec!Next /\ UNCHANGED policyVars

MCSpec == MCInit /\ [][MCNext]_<<world, vars, codecVars>>

-----------------------------------------------------------------------------
\* Whichever SDK serialised a list of actions, wherever the program stored it
\* and whatever Executes have used of it, the program refuses it, Execute
\* decides by it and the SDKs read it back as the list that was asked for would
\* have it (ActionCodec: five writers and readers, five sets of offsets).
BytesMeanWhatWasAsked == world = "codec" => Codec!BytesMeanWhatWasAsked
=============================================================================
