------------------------------- MODULE Policy -------------------------------
(***************************************************************************)
(* The policy engine of Execute: what a session with actions, or a         *)
(* Delegate with a policy, may take out of a vault.                        *)
(*                                                                         *)
(* An Execute is a transaction: Begin takes the snapshots, the inner       *)
(* instructions (CPIs) then change the vault and its token accounts one by *)
(* one, and at the end Commit makes the checks and charges the policy, or  *)
(* Revert puts everything back.  The inner programs are not ours, so a CPI *)
(* is any change a program holding the vault's signature can make.         *)
(* Between two Executes the world goes on: deposits arrive, and whoever    *)
(* was given control of an account of the vault may use it.                *)
(***************************************************************************)
EXTENDS Integers, FiniteSets

CONSTANTS
    Mints, Native,      \* token mints; the ones whose tokens are lamports
    TokenAccounts,      \* addresses of the writable token accounts passed
    MintOf,             \* the mint of each of them
    Programs,           \* programs an inner instruction may name
    Grants,             \* bound: the policies a granter may write
    FirstSlot,          \* bound: the policy is granted here or later
    MaxSlot,            \* bound: the clock stops here
    MaxAmount,          \* bound: largest balance
    MaxCpis,            \* bound: inner instructions of one Execute
    SOL,                \* the vault's own lamports, as an asset
    Elsewhere,          \* a token account the vault does not own
    Idle                \* no Execute is running

Assets == {SOL} \cup Mints
Kinds == {"Limit", "Recurring", "MaxPerTx"}

VARIABLES
    slot,       \* the Clock sysvar
    granted,    \* the policy as it was written
    policy,     \* the policy as the account holds it now
    sol,        \* lamports of the vault
    intact,     \* the vault is still a data-less account of the System program
    token,      \* the token accounts the vault owns
    run,        \* the running Execute: its snapshots and its gross outflow
    lost,       \* observer: per asset, what has left the vault's control
    out         \* observer: the slot in which each unit of it left

vault == <<sol, intact, token>>
vars == <<slot, granted, policy, sol, intact, token, run, lost, out>>

SatSub(m, n) == IF m > n THEN m - n ELSE 0

\* A token account, by its balance, the lamports in it that are not a native
\* balance, and whom its other fields (delegate, close authority) give control
\* to: nobody, somebody an Owner chose before, or somebody an inner
\* instruction of a policy-bound Execute chose.
TokenAccount == [amount: 0 .. MaxAmount, rent: 0 .. MaxAmount,
                 pledge: {"none", "prior", "new"}]

\* The caps of each kind, and an Execute's snapshots and gross outflow.
LimitCap == [remaining : Nat, expires_at : Nat]
MaxPerTxCap == [max : Nat, expires_at : Nat]
RecurringCap == [limit : Nat, spent : Nat, window : Nat, last_reset : Nat,
                 expires_at : Nat]

Execution == [sol : Nat, intact : BOOLEAN,
              token : [TokenAccounts -> TokenAccount \cup {Elsewhere}],
              programs : SUBSET Programs, gross : Nat, cpis : Nat]

ASSUME PolicyAssumption ==
    /\ IsFiniteSet(TokenAccounts) /\ MintOf \in [TokenAccounts -> Mints]
    /\ FirstSlot \in Nat /\ MaxSlot \in Nat /\ MaxAmount \in Nat
    /\ SOL \notin Mints
    /\ Elsewhere \notin TokenAccount
    /\ Idle \notin Execution

\* A policy is written with its counters at zero.
ASSUME GrantAssumption ==
    \A g \in Grants : \A key \in DOMAIN g.caps :
        /\ key \in Kinds \X Assets
        /\ key[1] = "Limit" => g.caps[key] \in LimitCap
        /\ key[1] = "MaxPerTx" => g.caps[key] \in MaxPerTxCap
        /\ key[1] = "Recurring" => /\ g.caps[key] \in RecurringCap
                                  /\ g.caps[key].spent = 0
                                  /\ g.caps[key].last_reset = 0

Lamports(acc, native) == IF native THEN acc.rent + acc.amount ELSE acc.rent

-----------------------------------------------------------------------------
(***************************************************************************)
(* The engine.                                                             *)
(***************************************************************************)
is_expired(action) == action.expires_at # 0 /\ slot > action.expires_at

\* Whether an unexpired entry of a program list names the program.
names_program(list, program) ==
    \E e \in list : ~is_expired(e) /\ e.program = program

evaluate_pre_actions(programs) ==
    \A p \in programs :
        /\ policy.allow # {} => names_program(policy.allow, p)
        /\ ~names_program(policy.deny, p)

\* The token accounts copied before the first inner instruction.
Snapshotted == {a \in TokenAccounts : run.token[a] # Elsewhere}

lamports_kept(before, after, native) ==
    LET drop == SatSub(Lamports(before, native), Lamports(after, native))
    IN  drop > 0 => native /\ drop <= SatSub(before.amount, after.amount)

\* Mutant: only the accounts of the snapshot are looked at.
verify_vault_token_accounts_Old ==
    \A a \in Snapshotted :
        /\ token[a] # Elsewhere
        /\ token[a].pledge = run.token[a].pledge
        /\ lamports_kept(run.token[a], token[a], MintOf[a] \in Native)

verify_vault_token_accounts ==
    /\ \A a \in Snapshotted :
          /\ token[a] # Elsewhere
          /\ token[a].pledge = run.token[a].pledge
          /\ lamports_kept(run.token[a], token[a], MintOf[a] \in Native)
    /\ \A a \in TokenAccounts \ Snapshotted :
          token[a] # Elsewhere => token[a].pledge = "none"

\* A sum of balances, as the number of units in them.
Total(balance) ==
    Cardinality({u \in (DOMAIN balance) \X (1 .. MaxAmount) : u[2] <= balance[u[1]]})

\* mint_flows: a mint's balance over the snapshotted accounts.
Flow(m, accounts) ==
    Total([a \in {a \in Snapshotted : MintOf[a] = m} |-> accounts[a].amount])

\* Net outflow of an asset over this Execute, as the engine measures it.
Spent(asset) ==
    IF asset = SOL THEN SatSub(run.sol, sol)
    ELSE SatSub(Flow(asset, run.token), Flow(asset, token))

\* Mutant: the per-transaction cap looks at the net outflow.
Charge_Net(key) == Spent(key[2])

\* What a cap is charged with: SolMaxPerTx looks at the gross outflow.
Charge(key) == IF key = <<"MaxPerTx", SOL>> THEN run.gross ELSE Spent(key[2])

WindowOver(cap) == slot - cap.last_reset > cap.window

Room(kind, cap) ==
    CASE kind = "Limit" -> cap.remaining
      [] kind = "MaxPerTx" -> cap.max
      [] kind = "Recurring" ->
           IF WindowOver(cap) THEN cap.limit ELSE cap.limit - cap.spent

\* Mutant: a cap that has expired is no cap.
Within_Lapsed(key) ==
    LET cap == policy.caps[key]
    IN  Charge(key) > 0 /\ ~is_expired(cap) => Charge(key) <= Room(key[1], cap)

\* A cap that has expired is an exhausted one.
Within(key) ==
    LET cap == policy.caps[key]
    IN  Charge(key) > 0 => /\ ~is_expired(cap)
                           /\ Charge(key) <= Room(key[1], cap)

\* SOL and mints that no action names may not leave at all.
Listed(asset) ==
    Spent(asset) > 0 => \E key \in DOMAIN policy.caps : key[2] = asset

\* Mutant: a new window is not dated.
Charged_Undated(key, cap) ==
    LET n == Spent(key[2]) IN
    IF is_expired(cap) \/ n = 0 \/ key[1] = "MaxPerTx" THEN cap
    ELSE IF key[1] = "Limit" THEN [cap EXCEPT !.remaining = @ - n]
    ELSE [cap EXCEPT !.spent = IF WindowOver(cap) THEN n ELSE @ + n]

\* A cap after its charge.
Charged(key, cap) ==
    LET n == Spent(key[2]) IN
    IF is_expired(cap) \/ n = 0 \/ key[1] = "MaxPerTx" THEN cap
    ELSE IF key[1] = "Limit" THEN [cap EXCEPT !.remaining = @ - n]
    ELSE IF WindowOver(cap)
         THEN [cap EXCEPT !.spent = n, !.last_reset = slot]
         ELSE [cap EXCEPT !.spent = @ + n]

evaluate_post_actions ==
    /\ \A key \in DOMAIN policy.caps : Within(key)
    /\ \A asset \in Assets : Listed(asset)
    /\ policy' = [caps |-> [key \in DOMAIN policy.caps |-> Charged(key, policy.caps[key])],
                  allow |-> policy.allow, deny |-> policy.deny]

-----------------------------------------------------------------------------
(***************************************************************************)
(* What the vault controls, and what leaves its control.                   *)
(***************************************************************************)
Owned(accounts) == {a \in TokenAccounts : accounts[a] # Elsewhere}

\* All of an asset that is under the vault's control, whichever accounts the
\* engine looks at: rent and excess lamports of token accounts are SOL.
Held(asset, lamports, accounts) ==
    IF asset = SOL
    THEN lamports + Total([a \in {a \in Owned(accounts) : MintOf[a] \notin Native} |->
                             accounts[a].rent])
    ELSE Total([a \in {a \in Owned(accounts) : MintOf[a] = asset} |-> accounts[a].amount])

\* What the step from these balances to the next state loses of an asset.
Loss(asset, lamports, accounts) ==
    SatSub(Held(asset, lamports, accounts), Held(asset, sol', token'))

RecordLoss(lamports, accounts) ==
    /\ lost' = [x \in Assets |-> lost[x] + Loss(x, lamports, accounts)]
    /\ out' = [x \in Assets |-> [i \in 1 .. lost[x] + Loss(x, lamports, accounts) |->
                                  IF i <= lost[x] THEN out[x][i] ELSE slot]]

-----------------------------------------------------------------------------
(***************************************************************************)
(* Inner instructions: any change to one account at a time that the vault's*)
(* signature allows, or that somebody else makes.                          *)
(***************************************************************************)
MoveSol(n) ==
    /\ sol' = n
    /\ UNCHANGED <<intact, token>>

\* System Assign or Allocate on the vault itself.
AssignVault == intact' = FALSE /\ UNCHANGED <<sol, token>>

\* Transfer, Approve, Revoke, SetAuthority on the close authority, sync and
\* withdrawal of lamports: the account stays the vault's.
ChangeToken(a, acc) ==
    /\ token[a] # Elsewhere
    /\ acc.pledge \in {"none", "new", token[a].pledge}
    /\ token' = [token EXCEPT ![a] = acc]
    /\ UNCHANGED <<sol, intact>>

\* SetAuthority on the owner, CloseAccount.
GiveAway(a) ==
    /\ token[a] # Elsewhere
    /\ token' = [token EXCEPT ![a] = Elsewhere]
    /\ UNCHANGED <<sol, intact>>

\* An account is initialised for the vault, or handed to it.
Receive(a, acc) ==
    /\ token[a] = Elsewhere
    /\ acc.pledge # "prior"
    /\ token' = [token EXCEPT ![a] = acc]
    /\ UNCHANGED <<sol, intact>>

Cpi ==
    /\ run # Idle /\ run.programs # {} /\ run.cpis < MaxCpis
    /\ \/ \E n \in 0 .. MaxAmount : MoveSol(n)
       \/ AssignVault
       \/ \E a \in TokenAccounts, acc \in TokenAccount : ChangeToken(a, acc)
       \/ \E a \in TokenAccounts : GiveAway(a)
       \/ \E a \in TokenAccounts, acc \in TokenAccount : Receive(a, acc)
    /\ run' = [run EXCEPT !.cpis = @ + 1, !.gross = @ + SatSub(sol, sol')]
    /\ UNCHANGED <<slot, granted, policy, lost, out>>

-----------------------------------------------------------------------------
(***************************************************************************)
(* The Execute transaction.                                                *)
(***************************************************************************)
Begin(programs) ==
    /\ run = Idle
    /\ evaluate_pre_actions(programs)
    /\ run' = [sol |-> sol, intact |-> intact, token |-> token,
               programs |-> programs, gross |-> 0, cpis |-> 0]
    /\ UNCHANGED <<slot, granted, policy, vault, lost, out>>

Commit ==
    /\ run # Idle
    /\ intact = run.intact
    /\ verify_vault_token_accounts
    /\ evaluate_post_actions
    /\ run' = Idle
    /\ UNCHANGED <<slot, granted, vault>>
    /\ RecordLoss(run.sol, run.token)

Revert ==
    /\ run # Idle
    /\ sol' = run.sol /\ intact' = run.intact /\ token' = run.token
    /\ run' = Idle
    /\ UNCHANGED <<slot, granted, policy, lost, out>>

-----------------------------------------------------------------------------
(***************************************************************************)
(* Between Executes.                                                       *)
(***************************************************************************)
Deposit ==
    /\ run = Idle
    /\ \/ sol < MaxAmount /\ sol' = sol + 1 /\ UNCHANGED token
       \/ \E a \in TokenAccounts :
            /\ token[a] # Elsewhere /\ token[a].amount < MaxAmount
            /\ token' = [token EXCEPT ![a].amount = @ + 1]
            /\ UNCHANGED sol
    /\ UNCHANGED <<slot, granted, policy, intact, run, lost, out>>

\* The delegate of a token account, or the program the vault was assigned to,
\* takes what it can reach: an account a, or SOL.  What an Owner's own choice
\* of delegate takes is not the policy's loss.
Drain(asset, a) ==
    /\ run = Idle
    /\ IF asset = SOL THEN ~intact ELSE /\ a \in TokenAccounts
                                        /\ token[a] # Elsewhere
                                        /\ token[a].pledge # "none"
                                        /\ asset = MintOf[a]
    /\ sol' = IF asset = SOL THEN 0 ELSE sol
    /\ token' = IF asset = SOL THEN token
                ELSE [token EXCEPT ![a].amount = 0]
    /\ IF asset # SOL /\ token[a].pledge = "prior" THEN UNCHANGED <<lost, out>>
                                                   ELSE RecordLoss(sol, token)
    /\ UNCHANGED <<slot, granted, policy, intact, run>>

Tick ==
    /\ run = Idle /\ slot < MaxSlot
    /\ slot' = slot + 1
    /\ UNCHANGED <<granted, policy, vault, run, lost, out>>

Init ==
    /\ slot \in FirstSlot .. MaxSlot
    /\ granted \in Grants /\ policy = granted
    /\ sol \in 0 .. MaxAmount
    /\ intact = TRUE
    /\ token \in [TokenAccounts -> {acc \in TokenAccount : acc.pledge # "new"}
                                     \cup {Elsewhere}]
    /\ run = Idle
    /\ lost = [x \in Assets |-> 0]
    /\ out = [x \in Assets |-> <<>>]

Next ==
    \/ \E programs \in SUBSET Programs : Begin(programs)
    \/ Cpi
    \/ Commit
    \/ Revert
    \/ Deposit
    \/ \E asset \in Assets, a \in TokenAccounts \cup {Elsewhere} : Drain(asset, a)
    \/ Tick

Spec == Init /\ [][Next]_vars

-----------------------------------------------------------------------------
(***************************************************************************)
(* Properties.                                                             *)
(***************************************************************************)
\* Over any sequence of Executes, what leaves the vault's control of an asset
\* adds up to no more than the grant: the lifetime limit where there is one,
\* nothing where no action names the asset.  What leaves is measured over
\* everything the vault controls, and what a delegate or a new owner installed
\* by an Execute takes later counts as well.
LossWithinGrant ==
    \A asset \in Assets :
        /\ <<"Limit", asset>> \in DOMAIN granted.caps =>
              lost[asset] <= granted.caps[<<"Limit", asset>>].remaining
        /\ (\A key \in DOMAIN granted.caps : key[2] # asset) => lost[asset] = 0

\* The guarantee a recurring limit gives at every moment: in any stretch of
\* window + 1 slots, wherever it starts, at most two allowances leave (a unit
\* and the one two allowances after it leave more than window slots apart).
SlidingWindow ==
    \A asset \in Assets : <<"Recurring", asset>> \in DOMAIN granted.caps =>
        LET cap == granted.caps[<<"Recurring", asset>>] IN
        \A i, j \in 1 .. lost[asset] :
            j - i >= 2 * cap.limit => out[asset][j] - out[asset][i] > cap.window

\* "Recording the spend's own slot makes the worst-case rate equal the nominal
\* cap": in any stretch of window slots at most one allowance leaves.
NominalRate ==
    \A asset \in Assets : <<"Recurring", asset>> \in DOMAIN granted.caps =>
        LET cap == granted.caps[<<"Recurring", asset>>] IN
        \A i, j \in 1 .. lost[asset] :
            j - i >= cap.limit => out[asset][j] - out[asset][i] >= cap.window

\* A step that takes nothing of an asset once any cap on it has expired, or
\* once every entry of an allow list has.
NothingOfTheExpired ==
    \A asset \in Assets :
         \/ \E key \in DOMAIN policy.caps :
               key[2] = asset /\ is_expired(policy.caps[key])
         \/ policy.allow # {} /\ \A e \in policy.allow : is_expired(e)
         => lost'[asset] = lost[asset]

\* Expiry never widens a policy: once any cap on an asset has expired, or once
\* every entry of an allow list has, nothing of it leaves any more.
ExpiredIsExhausted == [][NothingOfTheExpired]_vars

\* A step that ends no Execute whose inner instructions between them took more
\* SOL than SolMaxPerTx allows, unless it leaves no trace of it.
GrossWithinCap ==
    LET key == <<"MaxPerTx", SOL>> IN
    run # Idle /\ run' = Idle /\ key \in DOMAIN policy.caps =>
      \/ run.gross <= policy.caps[key].max
      \/ /\ sol' = run.sol /\ intact' = run.intact /\ token' = run.token
         /\ policy' = policy

\* An Execute whose inner instructions between them took more SOL than
\* SolMaxPerTx allows leaves no trace, even when most of it came back within
\* the transaction and its net outflow is within every other limit.
PerExecuteCap == [][GrossWithinCap]_vars
=============================================================================
