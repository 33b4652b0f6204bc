----------------------------- MODULE Migration -----------------------------
(***************************************************************************)
(* Moving a v1 wallet's SOL and tokens to v2: what migrateV1Wallet         *)
(* (sdk-kit/src/client.ts, v1.ts) plans from reads of a moving chain, how  *)
(* the reference hook (examples/react-migration/useV1Migration.ts) and the *)
(* one-transaction flow of the docs send the plan, and what the program's  *)
(* MigrateWallet (processor/migrate.rs) does when it lands.  Meanwhile     *)
(* strangers create wallets at the same seeds and hand them over, send     *)
(* tokens, freeze accounts and pause mints.                                *)
(*                                                                         *)
(* One v1 wallet; its owner is "me".  A v2 wallet is named by its seed and *)
(* is the set of those who may spend it.                                   *)
(***************************************************************************)
EXTENDS Integers, Sequences, FiniteSets, FiniteSetsExt, Functions

CONSTANTS
    MintOf,         \* the mint of each token account
    Kind,           \* what is special about each mint
    Watched,        \* mints whose canonical account the vet reads
    MaxTokens,      \* 255 in the code
    Scenarios       \* who migrates what, and what happens meanwhile: records of
                    \*   accounts  token accounts the v1 vault has or may be sent
                    \*   seeds     seeds of v2 wallets
                    \*   passkey   whether the owner is a passkey (else Ed25519)
                    \*   flow      "hook" or "docs": how the plan is sent
                    \*   first     the chain when the user arrives
                    \*   acts, maxActs, maxAttempts, maxAlterations
                    \*             what strangers do, and the bounds

Kinds == {"plain", "fee", "transfer-hook", "non-transferable", "pausable",
          "frozen-on-arrival", "cpi-guard", "mint-missing"}

ASSUME MigrationAssumption ==
    /\ Kind \in [Range(MintOf) -> Kinds] /\ Watched \subseteq Range(MintOf)
    /\ MaxTokens \in Nat
    /\ \A s \in Scenarios : s.passkey \in BOOLEAN /\ s.flow \in {"hook", "docs"}

VARIABLES
    scenario,   \* stays as it is
    past,       \* every state of the chain so far; the last is the present
    phase,      \* the hook's status
    plan,       \* what migrateV1Wallet returned
    sent,       \* the transactions sent, in order, each with its fate
    moved,      \* the migration that landed: {} or one record
    acts, attempts, alterations

vars == <<scenario, past, phase, plan, sent, moved, acts, attempts, alterations>>

Accounts == scenario.accounts
Mints == {MintOf[a] : a \in Accounts}
Seeds == scenario.seeds
Passkey == scenario.passkey
Flow == scenario.flow

chain == past[Len(past)]
Becomes(c) == past' = Append(past, c)

(* What the nodes behind the endpoint may answer: any state from a slot on.*)
Views(floor) == {past[i] : i \in floor .. Len(past)}

-----------------------------------------------------------------------------
(* Planning: migrateV1Wallet.                                              *)

Program(a) == IF Kind[MintOf[a]] = "plain" THEN "spl" ELSE "2022"
Dest(s, a) == <<s, MintOf[a]>>

(* enumerateV1VaultTokens: SPL Token and Token-2022 are two reads.         *)
Enumerated(spl, t22) ==
    [a \in {b \in DOMAIN spl : Program(b) = "spl"} \cup {b \in DOMAIN t22 : Program(b) = "2022"}
        |-> IF Program(a) = "spl" THEN spl[a] ELSE t22[a]]

\* Mutant: a mint whose accounts start frozen is let through.
MintBlocker_Default(m, paused) ==
    CASE Kind[m] \in {"non-transferable", "transfer-hook"} -> Kind[m]
      [] m \in paused -> "paused"
      [] OTHER -> "none"

(* mintBlocker, from the mint's extensions.                                *)
MintBlocker(m, paused) ==
    CASE Kind[m] \in {"non-transferable", "transfer-hook", "frozen-on-arrival"} -> Kind[m]
      [] m \in paused -> "paused"
      [] OTHER -> "none"

(* classifyV1VaultTokens, with tokenAccountBlocker: why an account cannot  *)
(* move.                                                                   *)
Reason(a, account, exclude, paused) ==
    CASE a \in exclude -> "excluded"
      [] account.frozen -> "frozen"
      [] Kind[MintOf[a]] \in {"cpi-guard", "mint-missing"} -> Kind[MintOf[a]]
      [] OTHER -> MintBlocker(MintOf[a], paused)

(* isSystemAccount of the vault, and vaultTokenGrants: a delegate or a     *)
(* close authority on a token account of the vault, or a watched mint's    *)
(* canonical account in other hands.                                       *)
Granted(c, s) ==
    \/ s \in c.assigned
    \/ \E d \in DOMAIN c.dest :
          /\ d[1] = s
          /\ \/ c.dest[d].owner = "vault" /\ c.dest[d].grant
             \/ c.dest[d].owner = "other" /\ d[2] \in Watched

(* vetDestination, whose reads the module OwnWallet shows to amount to one *)
(* state of the chain.                                                     *)
Vetted(c, s) == c.wallets[s] = {"me"} /\ ~Granted(c, s)

(* The v2 wallet this passkey has signed for, by a scan at slot i, when    *)
(* it is the only one and passes its vet, at slot v.                       *)
SignedFor(i, v) ==
    {s \in Seeds : past[i].signed = {s} /\ Vetted(past[v], s) /\ s \in past[v].signed}

(* A seed's wallet, by one read: created when there is none, else vetted.  *)
AtSeed ==
    {[seed |-> s, create |-> TRUE, floor |-> 1] :
        s \in {t \in Seeds : \E i \in DOMAIN past : past[i].wallets[t] = {}}}
    \cup {[seed |-> p[1], create |-> FALSE, floor |-> p[2]] :
        p \in {q \in Seeds \X DOMAIN past : Vetted(past[q[2]], q[1])}}

(* Where the funds go.  With a userSeed, that seed's wallet; else the one  *)
(* signed for, or the wallet of a seed given or minted here.               *)
Destinations(userSeed) ==
    UNION {IF ~userSeed /\ Passkey /\ SignedFor(i, v) # {}
           THEN {[seed |-> s, create |-> FALSE, floor |-> v] : s \in SignedFor(i, v)}
           ELSE AtSeed
           : i, v \in DOMAIN past}

Frozen(dests, d) == d \in DOMAIN dests /\ dests[d].frozen
Thawed(dests, d) == d \in DOMAIN dests /\ ~dests[d].frozen

(* The token accounts to move: the movable ones, but for a frozen          *)
(* destination, and those frozen on arrival when a thawed one exists.      *)
TokensFor(s, src, exclude, paused, dests) ==
    {a \in DOMAIN src :
        LET reason == Reason(a, src[a], exclude, paused)
        IN  \/ reason = "none" /\ ~Frozen(dests, Dest(s, a))
            \/ reason = "frozen-on-arrival" /\ Thawed(dests, Dest(s, a))}

(* destinationTokenAccountProblem.                                         *)
Rigged(dests, d) == d \in DOMAIN dests /\ (dests[d].owner # "vault" \/ dests[d].grant)

WithheldIn(src, tokens) == {a \in tokens : src[a].withheld}

(* migrateV1Wallet: the reads, the refusals and the plan.  "expects" is    *)
(* the chain the plan was made for, when every read was of the present.    *)
Plan ==
    /\ phase \in {"ready", "error"} /\ attempts < scenario.maxAttempts
    /\ \E c \in Range(past) : c.v1 = "live" /\ c.rank = "owner"
    /\ \E userSeed \in BOOLEAN : \E d \in Destinations(userSeed) :
       \E spl, t22 \in {c.src : c \in Views(1)}, paused \in {c.paused : c \in Views(1)},
          dests \in {c.dest : c \in Views(d.floor)}, exclude \in {{}} \cup {{a} : a \in Accounts} :
          LET src == Enumerated(spl, t22)
              tokens == TokensFor(d.seed, src, exclude, paused, dests)
              fresh == /\ chain.v1 = "live" /\ chain.rank = "owner"
                       /\ src = chain.src /\ paused = chain.paused /\ dests = chain.dest
                       /\ (chain.wallets[d.seed] = {}) = d.create
          IN  /\ \A a \in tokens : ~Rigged(dests, Dest(d.seed, a))
              /\ Cardinality(tokens) <= MaxTokens
              /\ plan' = {[seed |-> d.seed, create |-> d.create, tokens |-> tokens,
                           harvest |-> WithheldIn(src, tokens),
                           skipped |-> DOMAIN src \ tokens, seen |-> DOMAIN src,
                           expects |-> IF fresh THEN {chain} ELSE {}]}
    /\ phase' = "planned" /\ attempts' = attempts + 1
    /\ UNCHANGED <<scenario, past, sent, moved, acts, alterations>>

(* A read fails, or one of the refusals is met.                            *)
PlanThrows ==
    /\ phase \in {"ready", "error"} /\ attempts < scenario.maxAttempts
    /\ phase' = "error" /\ attempts' = attempts + 1
    /\ UNCHANGED <<scenario, past, plan, sent, moved, acts, alterations>>

-----------------------------------------------------------------------------
(* The program and the token programs.                                     *)

(* CreateWallet and createAssociatedTokenAccountIdempotentIx.              *)
SetupOk(p, c) ==
    /\ p.create => c.wallets[p.seed] = {}
    /\ \A a \in p.tokens : Dest(p.seed, a) \in DOMAIN c.dest =>
                               c.dest[Dest(p.seed, a)].owner = "vault"

NewAccount(d) ==
    [owner |-> "vault", grant |-> FALSE, frozen |-> Kind[d[2]] = "frozen-on-arrival", amount |-> 0]

AfterSetup(p, c) ==
    LET made == {Dest(p.seed, a) : a \in p.tokens} \ DOMAIN c.dest
    IN  [c EXCEPT !.wallets[p.seed] = IF p.create THEN {"me"} ELSE @,
                  !.dest = [d \in DOMAIN c.dest \cup made |->
                               IF d \in made THEN NewAccount(d) ELSE c.dest[d]]]

(* HarvestWithheldTokensToMint.                                            *)
AfterHarvest(accounts, c) ==
    [c EXCEPT !.src = [a \in DOMAIN c.src |->
                          IF a \in accounts THEN [c.src[a] EXCEPT !.withheld = FALSE] ELSE c.src[a]]]

(* TransferChecked of what is there, then CloseAccount, signed by the v1   *)
(* vault.                                                                  *)
Empties(a, d, c) ==
    /\ c.src[a].amount > 0 =>
          /\ ~c.dest[d].frozen /\ MintOf[a] \notin c.paused
          /\ Kind[MintOf[a]] \notin {"transfer-hook", "non-transferable"}
    /\ ~c.src[a].frozen /\ ~c.src[a].withheld /\ Kind[MintOf[a]] # "cpi-guard"

\* Mutant: the signature covers how many tokens, not which.
Authenticated_CountOnly(tx) ==
    Passkey => tx.to = tx.signed.to /\ Cardinality(tx.tokens) = Cardinality(tx.signed.tokens)
                                    /\ tx.refund = tx.signed.refund

(* The passkey's challenge covers the destination, the refund destination  *)
(* and every source account; an Ed25519 owner signs the transaction.       *)
Authenticated(tx) ==
    Passkey => tx.to = tx.signed.to /\ tx.tokens = tx.signed.tokens /\ tx.refund = tx.signed.refund

(* The SOL sweep is a System transfer of all the vault holds.              *)
Swept(c) == c.sol

(* migrate.rs process: what must hold, and what is left.                   *)
MigrateOk(tx, c) ==
    /\ tx.system = "system"
    /\ c.v1 = "live" /\ c.rank = "owner"
    /\ Authenticated(tx)
    /\ \A a \in tx.tokens :
          LET d == Dest(tx.to, a)
          IN  /\ a \in DOMAIN c.src /\ d \in DOMAIN c.dest
              /\ Kind[MintOf[a]] # "mint-missing"
              /\ c.dest[d].owner = "vault"
              /\ Empties(a, d, c)
    /\ c.sol - Swept(c) = 0

Held(accounts, c) == FoldFunctionOnSet(+, 0, [a \in accounts |-> c.src[a].amount], accounts)

AfterMigrate(tx, c) ==
    [c EXCEPT !.v1 = "closed", !.sol = @ - Swept(c),
              !.vaultSol[tx.to] = @ + Swept(c),
              !.src = [a \in DOMAIN c.src \ tx.tokens |-> c.src[a]],
              !.dest = [d \in DOMAIN c.dest |->
                           IF d[1] = tx.to
                           THEN [c.dest[d] EXCEPT !.amount = @ + Held({a \in tx.tokens : MintOf[a] = d[2]}, c)]
                           ELSE c.dest[d]]]

(* A transaction: the setup, the harvests and the migrate it carries.      *)
Effect(tx, c) ==
    LET set == IF tx.setup THEN AfterSetup(tx.plan, c) ELSE c
        harvested == AfterHarvest(tx.harvest, set)
    IN  IF tx.migrate THEN AfterMigrate(tx, harvested) ELSE harvested

Succeeds(tx, c) ==
    /\ tx.setup => SetupOk(tx.plan, c)
    /\ tx.migrate =>
          MigrateOk(tx, AfterHarvest(tx.harvest, IF tx.setup THEN AfterSetup(tx.plan, c) ELSE c))

Land(i) ==
    /\ sent[i].fate = "sent"
    /\ LET tx == sent[i].tx
       IN  IF Succeeds(tx, chain)
           THEN /\ Becomes(Effect(tx, chain))
                /\ sent' = [sent EXCEPT ![i].fate = "landed"]
                /\ moved' = IF tx.migrate
                            THEN {[plan |-> tx.plan, before |-> chain, after |-> Effect(tx, chain)]}
                            ELSE moved
           ELSE /\ sent' = [sent EXCEPT ![i].fate = "failed"]
                /\ UNCHANGED <<past, moved>>
    /\ UNCHANGED <<scenario, phase, plan, acts, attempts, alterations>>

(* Whoever relays a passkey's migration changes what it names.             *)
Alter(i) ==
    /\ Passkey /\ alterations < scenario.maxAlterations
    /\ sent[i].fate = "sent" /\ sent[i].tx.migrate
    /\ \E tx \in {[sent[i].tx EXCEPT !.to = s] : s \in Seeds}
                 \cup {[sent[i].tx EXCEPT !.tokens = t] : t \in SUBSET Accounts}
                 \cup {[sent[i].tx EXCEPT !.refund = "other"], [sent[i].tx EXCEPT !.system = "none"]} :
          sent' = [sent EXCEPT ![i].tx = tx]
    /\ alterations' = alterations + 1
    /\ UNCHANGED <<scenario, past, phase, plan, moved, acts, attempts>>

-----------------------------------------------------------------------------
(* Sending: useV1Migration, or all of it in one transaction.               *)

(* detect: the wallet found on chain and still there.                      *)
Detect ==
    /\ phase \in {"detecting", "error"}
    /\ \E c \in Range(past) :
          phase' = IF c.v1 = "live" /\ c.rank = "owner" THEN "ready" ELSE "none"
    /\ UNCHANGED <<scenario, past, plan, sent, moved, acts, attempts, alterations>>

Tx(p, setup, harvest, migrate) ==
    [setup |-> setup, harvest |-> harvest, migrate |-> migrate, plan |-> p,
     to |-> p.seed, tokens |-> p.tokens, refund |-> "payer", system |-> "system",
     signed |-> [to |-> p.seed, tokens |-> p.tokens, refund |-> "payer"]]

Send(tx) == sent' = Append(sent, [tx |-> tx, fate |-> "sent"])

NeedsSetup(p) == p.create \/ p.tokens # {}

(* The hook takes the bare instruction for an Ed25519 owner, finalize's    *)
(* list for a passkey; the docs take migrate.instructions.                 *)
Harvests(p) == IF Flow = "hook" /\ ~Passkey THEN {} ELSE p.harvest

SendSetup ==
    /\ phase = "planned" /\ Flow = "hook"
    /\ \E p \in plan :
          /\ NeedsSetup(p)
          /\ Send(Tx(p, TRUE, {}, FALSE))
    /\ phase' = "setup"
    /\ UNCHANGED <<scenario, past, plan, moved, acts, attempts, alterations>>

\* Mutant: goes on to migrate whatever became of the setup.
SetupDone_Anyhow ==
    /\ phase = "setup" /\ sent[Len(sent)].fate \in {"landed", "failed"}

(* The setup transaction is confirmed, successful.                         *)
SetupDone ==
    /\ phase = "setup" /\ sent[Len(sent)].fate = "landed"

SendMigrate ==
    /\ \E p \in plan :
          \/ /\ Flow = "hook"
             /\ SetupDone \/ (phase = "planned" /\ ~NeedsSetup(p))
             /\ Send(Tx(p, FALSE, Harvests(p), TRUE))
          \/ /\ Flow = "docs" /\ phase = "planned"
             /\ Send(Tx(p, NeedsSetup(p), Harvests(p), TRUE))
    /\ phase' = "authorize"
    /\ UNCHANGED <<scenario, past, plan, moved, acts, attempts, alterations>>

Confirmed ==
    /\ phase = "authorize" /\ sent[Len(sent)].fate = "landed"
    /\ phase' = "done"
    /\ UNCHANGED <<scenario, past, plan, sent, moved, acts, attempts, alterations>>

(* sendTransaction throws: the transaction failed, or no answer came and   *)
(* it may still land.                                                      *)
SendThrows ==
    /\ phase \in {"setup", "authorize"}
    /\ phase' = "error"
    /\ UNCHANGED <<scenario, past, plan, sent, moved, acts, attempts, alterations>>

-----------------------------------------------------------------------------
(* Strangers.                                                              *)

Happens(act, c) ==
    /\ act \in scenario.acts /\ acts < scenario.maxActs /\ c # chain
    /\ acts' = acts + 1 /\ Becomes(c)
    /\ UNCHANGED <<scenario, phase, plan, sent, moved, attempts, alterations>>

(* CreateWallet takes any owner without its consent; whoever holds a       *)
(* wallet hands it over or shares it (TransferOwnership, AddAuthority).    *)
Wallets ==
    \E s \in Seeds :
        \/ /\ chain.wallets[s] = {}
           /\ \E h \in {"me", "other"} : Happens("wallets", [chain EXCEPT !.wallets[s] = {h}])
        \/ /\ "other" \in chain.wallets[s]
           /\ \E h \in {{"me"}, {"me", "other"}} : Happens("wallets", [chain EXCEPT !.wallets[s] = h])

(* A holder's Execute assigns the vault, approves a delegate, or gives a   *)
(* token account away.                                                     *)
Rig ==
    \E s \in Seeds :
        /\ "other" \in chain.wallets[s]
        /\ \/ Happens("rig", [chain EXCEPT !.assigned = @ \cup {s}])
           \/ \E d \in {e \in DOMAIN chain.dest : e[1] = s /\ chain.dest[e].owner = "vault"} :
                 \/ Happens("rig", [chain EXCEPT !.dest[d].grant = TRUE])
                 \/ Happens("rig", [chain EXCEPT !.dest[d].owner = "other"])

MySignature ==
    \E s \in Seeds :
        /\ "me" \in chain.wallets[s]
        /\ Happens("sign", [chain EXCEPT !.signed = @ \cup {s}])

(* Anyone opens the canonical token account of any vault.                  *)
OpenAccount ==
    \E d \in (Seeds \X Mints) \ DOMAIN chain.dest :
        /\ Kind[d[2]] # "mint-missing"
        /\ Happens("open", [chain EXCEPT !.dest = [e \in DOMAIN @ \cup {d} |->
                                IF e = d THEN NewAccount(d) ELSE @[e]]])

(* A mint's authorities freeze, thaw, pause and unpause.                   *)
Freeze ==
    \/ \E a \in DOMAIN chain.src : Happens("freeze", [chain EXCEPT !.src[a].frozen = ~@])
    \/ \E d \in DOMAIN chain.dest : Happens("freeze", [chain EXCEPT !.dest[d].frozen = ~@])
    \/ \E m \in {n \in Mints : Kind[n] = "pausable"} :
          Happens("freeze", [chain EXCEPT !.paused = IF m \in @ THEN @ \ {m} ELSE @ \cup {m}])

(* Anyone pays the v1 vault; a fee mint withholds a part in the account.   *)
Deposit ==
    \/ Happens("deposit", [chain EXCEPT !.sol = @ + 1])
    \/ \E a \in Accounts :
          /\ Kind[MintOf[a]] # "mint-missing" /\ MintOf[a] \notin chain.paused
          /\ Happens("deposit", [chain EXCEPT !.src = [b \in DOMAIN @ \cup {a} |->
                IF b # a THEN @[b]
                ELSE [amount |-> 1 + (IF a \in DOMAIN @ THEN @[a].amount ELSE 0),
                      frozen |-> a \in DOMAIN @ /\ @[a].frozen,
                      withheld |-> Kind[MintOf[a]] = "fee"]]])

-----------------------------------------------------------------------------
Init ==
    /\ scenario \in Scenarios
    /\ past \in {<<c>> : c \in scenario.first}
    /\ phase = "detecting" /\ plan = {} /\ sent = <<>> /\ moved = {}
    /\ acts = 0 /\ attempts = 0 /\ alterations = 0

Next ==
    \/ Detect \/ Plan \/ PlanThrows \/ SendSetup \/ SendMigrate \/ Confirmed \/ SendThrows
    \/ \E i \in DOMAIN sent : Land(i) \/ Alter(i)
    \/ Wallets \/ Rig \/ MySignature \/ OpenAccount \/ Freeze \/ Deposit

Spec == Init /\ [][Next]_vars

-----------------------------------------------------------------------------
(* The funds land where only their owner can spend them: the destination   *)
(* wallet is the user's alone, its vault a plain account, and no token     *)
(* account the migration delivered into is in other hands or carries a     *)
(* grant, whatever strangers did at the seed before, between and after the *)
(* reads, setup and migrate.                                               *)
DeliversToOwnerAlone ==
    \A m \in moved :
        LET s == m.plan.seed
        IN  /\ m.after.wallets[s] = {"me"} /\ s \notin m.after.assigned
            /\ \A a \in m.plan.tokens : ~Rigged(m.after.dest, Dest(s, a))

(* Closing the v1 wallet strands nothing unsaid: all the SOL reaches the   *)
(* destination vault, every account of the plan is emptied into it in full *)
(* (deposits made after the plan included), and a token account left in    *)
(* the old vault is one the user was shown as skipped or one that was not  *)
(* there when the tokens were listed.                                      *)
NothingLeftUnsaid ==
    \A m \in moved :
        LET s == m.plan.seed
        IN  /\ m.after.sol = 0
            /\ m.after.vaultSol[s] = m.before.vaultSol[s] + m.before.sol
            /\ \A d \in {Dest(s, a) : a \in m.plan.tokens} :
                  m.after.dest[d].amount =
                      Held({a \in m.plan.tokens : MintOf[a] = d[2]}, m.before)
                      + (IF d \in DOMAIN m.before.dest THEN m.before.dest[d].amount ELSE 0)
            /\ \A a \in DOMAIN m.after.src : a \in m.plan.skipped \/ a \notin m.plan.seen

(* The hook takes the bare instruction of an Ed25519 owner, without the    *)
(* harvests the plan says must come first.                                 *)
LeavesHarvestOut(p) == Flow = "hook" /\ ~Passkey /\ p.harvest # {}

(* A plan made from the chain as it is does not revert on it: when nothing *)
(* but the plan's own setup happened since its reads, the setup and then   *)
(* the migrate succeed, whatever token accounts the vault was sent         *)
(* (UnmovableReason: "Every one of these, left in the migration, makes the *)
(* whole transaction revert"), but for a harvest the hook leaves out.      *)
FreshPlanLands ==
    \A i \in DOMAIN sent :
        LET tx == sent[i].tx
        IN  \A c \in tx.plan.expects :
              (/\ sent[i].fate = "sent" /\ tx = Tx(tx.plan, tx.setup, tx.harvest, tx.migrate)
               /\ ~LeavesHarvestOut(tx.plan)
               /\ chain = IF tx.setup THEN c ELSE AfterSetup(tx.plan, c))
                 => Succeeds(tx, chain)
=============================================================================
