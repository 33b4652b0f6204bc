---------------------------- MODULE MCMigration ----------------------------
(* Instances of Migration and of OwnWallet, the reads it trusts for a      *)
(* wallet that exists.  A behaviour is about one of them; part says which, *)
(* and for OwnWallet whether the integrator vouches for a key.             *)
EXTENDS Migration, TLC

CONSTANTS a1, f1, f2, q1, z1, h1, n1, s1, s2, x, t

VARIABLES part, slot, wallet, txs, step, now, found, facts

ownVars == <<slot, wallet, txs, step, now, found, facts>>

(* Every account but two has a mint of its own, of the kind its name tells.*)
MCMintOf == [a \in {a1, f1, q1, z1, h1, n1} |-> a] @@ (f2 :> f1)
MCKind == (a1 :> "plain") @@ (f1 :> "fee") @@ (q1 :> "pausable")
          @@ (z1 :> "frozen-on-arrival") @@ (h1 :> "transfer-hook") @@ (n1 :> "mint-missing")

Src(amount) == [amount |-> amount, frozen |-> FALSE, withheld |-> FALSE]
World(accounts, amount, wallets, signed, rank) ==
    [v1 |-> "live", rank |-> rank, sol |-> 1, vaultSol |-> [s \in DOMAIN wallets |-> 0],
     src |-> [a \in accounts |-> Src(amount)], paused |-> {}, dest |-> <<>>,
     wallets |-> wallets, assigned |-> {}, signed |-> signed]
One == [s \in {s1} |-> {}]
Two == [s \in {s1, s2} |-> {}]

Opened(c) == [c EXCEPT !.dest = [d \in {<<s1, a1>>} |-> NewAccount(d)]]

(* A vault with one token; at the first seed no wallet, the user's or      *)
(* another's, or a shared one the user has signed on, its account open; or *)
(* two wallets the user has signed on.                                     *)
Destination ==
    LET First(h, signed) == World({a1}, 1, [Two EXCEPT ![s1] = h], signed, "owner")
    IN  [accounts |-> {a1}, seeds |-> {s1, s2}, passkey |-> TRUE, flow |-> "hook",
         acts |-> {"wallets", "rig", "sign", "open"},
         maxActs |-> 3, maxAttempts |-> 1, maxAlterations |-> 0,
         first |-> {First({}, {}), First({"me"}, {s1}), Opened(First({"other"}, {})),
                    Opened(First({"me", "other"}, {s1})),
                    World({a1}, 1, [s \in {s1, s2} |-> {"me"}], {s1, s2}, "owner"),
                    World({a1}, 1, Two, {}, "admin")}]

(* A second attempt after one that threw and may still land.               *)
Retry ==
    [accounts |-> {a1}, seeds |-> {s1, s2}, passkey |-> TRUE, flow |-> "hook",
     acts |-> {"wallets", "deposit"}, maxActs |-> 1, maxAttempts |-> 2, maxAlterations |-> 0,
     first |-> {World({a1}, 1, Two, {}, "owner")}]

(* A fee mint with two accounts and a pausable one; then the awkward kinds.*)
Tokens(passkey, amounts) ==
    [accounts |-> {f1, f2, q1}, seeds |-> {s1}, passkey |-> passkey, flow |-> "hook",
     acts |-> {"freeze", "deposit", "open"}, maxActs |-> 2, maxAttempts |-> 1,
     maxAlterations |-> 1, first |-> {World({f1, q1}, n, One, {}, "owner") : n \in amounts}]

Awkward ==
    [accounts |-> {z1, h1, n1}, seeds |-> {s1}, passkey |-> TRUE, flow |-> "docs",
     acts |-> {"freeze", "deposit", "open"}, maxActs |-> 2, maxAttempts |-> 1,
     maxAlterations |-> 1, first |-> {World({z1, h1, n1}, n, One, {}, "owner") : n \in {0, 1}}]

MCScenarios == {Destination, Retry, Tokens(TRUE, {1}), Tokens(FALSE, {0, 1}), Awkward}

-----------------------------------------------------------------------------
Fresh == [own |-> "intact", count |-> 1, auths |-> {}, sess |-> {}, defer |-> {},
          plain |-> TRUE, grants |-> {}, alive |-> TRUE]

(* A wallet of x that lists the passkey, one handed to it, and one with a  *)
(* session about to expire; then wallets on which t, a vouched key, holds  *)
(* a place.                                                                *)
AloneStates ==
    {[Fresh EXCEPT !.count = 0, !.auths = {x}], Fresh,
     [Fresh EXCEPT !.sess = {[key |-> x, exp |-> 1]}]}
VouchedStates ==
    {[Fresh EXCEPT !.auths = {t}, !.sess = {[key |-> t, exp |-> 2]}],
     [Fresh EXCEPT !.auths = {x, t}]}

Alone == INSTANCE OwnWallet WITH chain <- wallet, Keys <- {x}, Trusted <- {}, MaxSlot <- 3,
                                 MaxTxs <- 2, FirstStates <- AloneStates, SlotAhead <- FALSE
Vouched == INSTANCE OwnWallet WITH chain <- wallet, Keys <- {x, t}, Trusted <- {t}, MaxSlot <- 2,
                                   MaxTxs <- 1, FirstStates <- VouchedStates, SlotAhead <- FALSE

(* One slot more for a wallet with no other authority.                     *)
LastSlot == IF wallet[0].auths = {} THEN 3 ELSE 2

(* A finished inspection that concluded nothing has nothing more to show.  *)
StillTelling == step = "done" => facts.alone

MCInit ==
    \/ part = "migration" /\ Init /\ Alone!Init /\ wallet[0] = Fresh
    \/ part = "alone" /\ Init /\ scenario = Awkward /\ chain.src[z1].amount = 0 /\ Alone!Init
    \/ part = "vouched" /\ Init /\ scenario = Awkward /\ chain.src[z1].amount = 0 /\ Vouched!Init

MCNext ==
    /\ UNCHANGED part
    /\ \/ part = "migration" /\ Next /\ UNCHANGED ownVars
       \/ part = "alone" /\ StillTelling /\ Alone!Next /\ slot' <= LastSlot /\ UNCHANGED vars
       \/ part = "vouched" /\ StillTelling /\ Vouched!Next /\ UNCHANGED vars

MCSpec == MCInit /\ [][MCNext]_<<part, vars, ownVars>>

(* OwnWallet's: a wallet describeCandidate reports as controlled alone is, *)
(* and stays, spendable by the passkey and vouched keys only.              *)
ControlledAloneHolds ==
    IF part = "vouched" THEN Vouched!ControlledAloneHolds ELSE Alone!ControlledAloneHolds
=============================================================================
