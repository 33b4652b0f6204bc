---------------------------- MODULE PolicyProofs ----------------------------
(***************************************************************************)
(* Policy's guarantees for every grant, any number of token accounts and   *)
(* any amounts: LossWithinGrant, SlidingWindow, ExpiredIsExhausted and     *)
(* PerExecuteCap.  The engine measures less than the vault controls (the   *)
(* accounts it copied, not their lamports), so the proofs first show that  *)
(* a committed Execute never loses more of an asset than the engine saw    *)
(* spent (LossSeen), and that no account is ever left pledged by one       *)
(* (Guarded).                                                              *)
(***************************************************************************)
EXTENDS Policy, FiniteSetTheorems, TLAPS

VaultOK ==
    /\ sol \in Nat /\ intact \in BOOLEAN
    /\ token \in [TokenAccounts -> TokenAccount \cup {Elsewhere}]

TypeOK ==
    /\ slot \in Nat /\ granted \in Grants
    /\ VaultOK
    /\ run \in Execution \cup {Idle}
    /\ lost \in [Assets -> Nat]
    /\ \A x \in Assets : out[x] \in [1 .. lost[x] -> Nat]

Unpledged(accounts) ==
    \A a \in TokenAccounts : accounts[a] # Elsewhere => accounts[a].pledge # "new"

\* Between Executes nobody an Execute chose controls anything of the vault; a
\* running one began so, passed its program lists and accounts for the SOL
\* that is gone.
Guarded ==
    /\ run = Idle => intact = TRUE /\ Unpledged(token)
    /\ run # Idle => /\ run.intact = TRUE /\ Unpledged(run.token)
                     /\ evaluate_pre_actions(run.programs)
                     /\ run.programs = {} => sol = run.sol /\ token = run.token
                     /\ run.sol - sol <= run.gross

\* What has left and what may still leave make no more than the limit.
LimitKept(key) ==
    /\ policy.caps[key] \in LimitCap
    /\ lost[key[2]] + policy.caps[key].remaining <= granted.caps[key].remaining

\* k of the n units that left did so before the window that starts at reset;
\* the others are within what the window has spent.  Of those k the last
\* allowance aside, all left more than a window before it.
Windowed(o, n, spent, reset, limit, window) ==
    /\ spent <= limit
    /\ \A i \in 1 .. n : o[i] <= reset + window
    /\ \E k \in 0 .. n :
          /\ n - k <= spent
          /\ \A i \in 1 .. k : o[i] < reset
          /\ \A i \in 1 .. k - limit : o[i] + window < reset
    /\ \A i, j \in 1 .. n : j - i >= 2 * limit => o[j] - o[i] > window

WindowKept(key) ==
    LET cap == policy.caps[key] IN
    /\ cap \in RecurringCap
    /\ cap.limit = granted.caps[key].limit /\ cap.window = granted.caps[key].window
    /\ cap.last_reset <= slot
    /\ Windowed(out[key[2]], lost[key[2]], cap.spent, cap.last_reset, cap.limit, cap.window)

Kept ==
    /\ DOMAIN policy.caps = DOMAIN granted.caps
    /\ \A key \in DOMAIN granted.caps :
          /\ key[1] = "MaxPerTx" => policy.caps[key] = granted.caps[key]
          /\ key[1] = "Limit" => LimitKept(key)
          /\ key[1] = "Recurring" => WindowKept(key)
    /\ \A x \in Assets : (\A key \in DOMAIN granted.caps : key[2] # x) => lost[x] = 0

IInv == TypeOK /\ Guarded /\ Kept

-----------------------------------------------------------------------------
(* Differences and sums.                                                   *)

\* saturating_sub stays among the numbers lamports and amounts are.
LEMMA SatSubNat ==
    ASSUME NEW m \in Nat, NEW n \in Nat
    PROVE  SatSub(m, n) \in Nat
BY DEF SatSub

\* A sum of balances is a natural number, and no smaller over more accounts
\* with no smaller balances (mint_flows against what the vault owns).
LEMMA TotalMonotone ==
    ASSUME NEW f, NEW g, IsFiniteSet(DOMAIN f), IsFiniteSet(DOMAIN g),
           DOMAIN f \subseteq DOMAIN g,
           \A a \in DOMAIN f : f[a] \in Nat /\ g[a] \in Nat /\ f[a] <= g[a]
    PROVE  Total(f) \in Nat /\ Total(g) \in Nat /\ Total(f) <= Total(g)
<1> DEFINE U(h) == {u \in (DOMAIN h) \X (1 .. MaxAmount) : u[2] <= h[u[1]]}
<1>1. IsFiniteSet(1 .. MaxAmount)
    BY FS_Interval, PolicyAssumption
<1>2. IsFiniteSet((DOMAIN f) \X (1 .. MaxAmount)) /\ IsFiniteSet((DOMAIN g) \X (1 .. MaxAmount))
    BY <1>1, FS_Product
<1>3. U(f) \subseteq U(g)
    BY PolicyAssumption
<1>4. IsFiniteSet(U(f)) /\ IsFiniteSet(U(g))
    BY <1>2, FS_Subset
<1>5. Cardinality(U(f)) <= Cardinality(U(g))
    BY <1>3, <1>4, FS_Subset
<1> QED
    BY <1>4, <1>5, FS_CardinalityType DEF Total

-----------------------------------------------------------------------------
(* What the engine sees.                                                   *)

\* An Execute that passes verify_vault_token_accounts loses no more of an
\* asset, over everything the vault controls, than the engine measures.
LEMMA LossSeen ==
    ASSUME TypeOK, run # Idle, verify_vault_token_accounts,
           sol' = sol, token' = token, NEW x \in Assets
    PROVE  /\ Loss(x, run.sol, run.token) \in Nat /\ Spent(x) \in Nat
           /\ Loss(x, run.sol, run.token) <= Spent(x)
           /\ x # SOL => Flow(x, run.token) \in Nat
<1>1. /\ run.sol \in Nat /\ sol \in Nat
      /\ run.token \in [TokenAccounts -> TokenAccount \cup {Elsewhere}]
      /\ token \in [TokenAccounts -> TokenAccount \cup {Elsewhere}]
    BY DEF TypeOK, VaultOK, Execution
<1>2. \A a \in TokenAccounts : token[a] # Elsewhere => token[a] \in TokenAccount
    BY <1>1
<1>3. \A a \in TokenAccounts : run.token[a] # Elsewhere => run.token[a] \in TokenAccount
    BY <1>1
<1>4. \A a \in Owned(run.token) : a \in Owned(token)
    BY DEF Owned, Snapshotted, verify_vault_token_accounts
<1>5. \A S \in SUBSET TokenAccounts : IsFiniteSet(S)
    BY FS_Subset, PolicyAssumption
<1>6. CASE x = SOL
  <2> DEFINE B == [a \in {a \in Owned(run.token) : MintOf[a] \notin Native} |-> run.token[a].rent]
             A == [a \in {a \in Owned(token) : MintOf[a] \notin Native} |-> token[a].rent]
  <2>1. IsFiniteSet(DOMAIN B) /\ IsFiniteSet(DOMAIN A) /\ DOMAIN B \subseteq DOMAIN A
      BY <1>4, <1>5 DEF Owned
  <2>2. ASSUME NEW a \in DOMAIN B
        PROVE  B[a] \in Nat /\ A[a] \in Nat /\ B[a] <= A[a]
    <3>1. a \in Snapshotted /\ a \in Owned(token) /\ MintOf[a] \notin Native /\ a \in DOMAIN A
        BY <1>4, <2>1 DEF Owned, Snapshotted
    <3>2. token[a].rent \in Nat /\ run.token[a].rent \in Nat
        BY <1>2, <1>3, <3>1, PolicyAssumption DEF TokenAccount, Owned, Snapshotted
    <3>3. run.token[a].rent <= token[a].rent
        BY <3>1, <3>2 DEF verify_vault_token_accounts, lamports_kept, Lamports, SatSub
    <3> QED
        BY <3>1, <3>2, <3>3
  <2>3. Total(B) \in Nat /\ Total(A) \in Nat /\ Total(B) <= Total(A)
    <3> HIDE DEF A, B
    <3> QED
        BY <2>1, <2>2, TotalMonotone
  <2>4. Loss(x, run.sol, run.token) = SatSub(run.sol + Total(B), sol + Total(A))
      BY <1>6 DEF Loss, Held
  <2>5. Spent(x) = SatSub(run.sol, sol)
      BY <1>6 DEF Spent
  <2> HIDE DEF A, B
  <2> QED
      BY <1>1, <1>6, <2>3, <2>4, <2>5 DEF SatSub
<1>7. CASE x # SOL
  <2> DEFINE B == [a \in {a \in Snapshotted : MintOf[a] = x} |-> run.token[a].amount]
             F == [a \in {a \in Snapshotted : MintOf[a] = x} |-> token[a].amount]
             A == [a \in {a \in Owned(token) : MintOf[a] = x} |-> token[a].amount]
  <2>1. Snapshotted = Owned(run.token)
      BY DEF Owned, Snapshotted
  <2>2. IsFiniteSet(DOMAIN B) /\ IsFiniteSet(DOMAIN F) /\ IsFiniteSet(DOMAIN A)
      BY <1>5 DEF Owned, Snapshotted
  <2>3. DOMAIN F \subseteq DOMAIN A
      BY <1>4, <2>1
  <2>4. ASSUME NEW a \in DOMAIN F
        PROVE  F[a] \in Nat /\ A[a] \in Nat /\ F[a] <= A[a] /\ B[a] \in Nat
    <3>1. a \in Owned(token) /\ a \in Owned(run.token) /\ a \in DOMAIN A /\ a \in TokenAccounts
        BY <1>4, <2>1, <2>3 DEF Owned
    <3>2. token[a].amount \in Nat /\ run.token[a].amount \in Nat
        BY <1>2, <1>3, <3>1, PolicyAssumption DEF TokenAccount, Owned
    <3> QED
        BY <3>1, <3>2
  <2>5. Total(F) \in Nat /\ Total(A) \in Nat /\ Total(F) <= Total(A)
    <3> HIDE DEF A, F
    <3> QED
        BY <2>2, <2>3, <2>4, TotalMonotone
  <2>6. Total(B) \in Nat
    <3>1. ASSUME NEW a \in DOMAIN B
          PROVE  B[a] \in Nat /\ B[a] <= B[a]
      <4>1. a \in DOMAIN F
          OBVIOUS
      <4>2. B[a] \in Nat
          BY <2>4, <4>1
      <4> QED
          BY <4>2
    <3> HIDE DEF B
    <3> QED
        BY <3>1, <2>2, TotalMonotone
  <2>7. Loss(x, run.sol, run.token) = SatSub(Total(B), Total(A))
      BY <1>7, <2>1 DEF Loss, Held
  <2>8. Spent(x) = SatSub(Total(B), Total(F))
      BY <1>7 DEF Spent, Flow
  <2>9. Flow(x, run.token) = Total(B)
      BY DEF Flow
  <2> HIDE DEF A, B, F
  <2> QED
      BY <2>5, <2>6, <2>7, <2>8, <2>9 DEF SatSub
<1> QED
    BY <1>6, <1>7

-----------------------------------------------------------------------------
(* Windows.                                                                *)

\* A charge within a window keeps the windows apart (the branch of
\* evaluate_post_actions that adds to spent).
LEMMA WindowContinues ==
    ASSUME NEW n \in Nat, NEW o \in [1 .. n -> Nat], NEW loss \in Nat, NEW total \in Nat,
           NEW spent \in Nat, NEW reset \in Nat, NEW limit \in Nat, NEW window \in Nat,
           NEW p, \A i \in 1 .. n : p[i] = o[i],
           \A i \in 1 .. n + loss : i \notin 1 .. n => p[i] \in reset .. reset + window,
           Windowed(o, n, spent, reset, limit, window),
           loss <= total - spent, total <= limit
    PROVE  Windowed(p, n + loss, total, reset, limit, window)
<1>1. PICK k \in 0 .. n : /\ n - k <= spent
                          /\ \A i \in 1 .. k : o[i] < reset
                          /\ \A i \in 1 .. k - limit : o[i] + window < reset
    BY DEF Windowed
<1>2. \A i \in 1 .. n : p[i] = o[i] /\ o[i] \in Nat
    OBVIOUS
<1>3. \A i \in 1 .. n + loss : i \in 1 .. n \/ p[i] \in reset .. reset + window
    OBVIOUS
<1>4. \A i \in 1 .. n + loss : p[i] <= reset + window
    BY <1>2, <1>3 DEF Windowed
<1>5. /\ k \in 0 .. n + loss /\ (n + loss) - k <= total
      /\ \A i \in 1 .. k : p[i] < reset
      /\ \A i \in 1 .. k - limit : p[i] + window < reset
    BY <1>1, <1>2
<1>6. ASSUME NEW i \in 1 .. n + loss, NEW j \in 1 .. n + loss, j - i >= 2 * limit
      PROVE  p[j] - p[i] > window
  <2>1. CASE j \in 1 .. n /\ i \in 1 .. n
      BY <1>2, <1>6, <2>1 DEF Windowed
  <2>2. CASE j \notin 1 .. n
    <3>1. i \in 1 .. k - limit
        BY <1>1, <1>6 DEF Windowed
    <3>2. o[i] + window < reset /\ p[i] = o[i] /\ o[i] \in Nat
        BY <1>1, <1>2, <3>1
    <3>3. p[j] \in Int /\ reset <= p[j]
        BY <1>3, <2>2
    <3> QED
        BY <3>2, <3>3
  <2>3. CASE j \in 1 .. n /\ i \notin 1 .. n
      BY <1>6, <2>3
  <2> QED
      BY <2>1, <2>2, <2>3
<1>7. \E m \in 0 .. n + loss :
          /\ (n + loss) - m <= total
          /\ \A i \in 1 .. m : p[i] < reset
          /\ \A i \in 1 .. m - limit : p[i] + window < reset
    BY <1>5
<1>8. \A i, j \in 1 .. n + loss : j - i >= 2 * limit => p[j] - p[i] > window
    BY <1>6
<1> QED
    BY <1>4, <1>7, <1>8, Zenon DEF Windowed

\* So does one that starts a window (the branch that dates it).
LEMMA WindowStarts ==
    ASSUME NEW n \in Nat, NEW o \in [1 .. n -> Nat], NEW loss \in Nat, NEW cost \in Nat,
           NEW spent \in Nat, NEW reset \in Nat, NEW limit \in Nat, NEW window \in Nat,
           NEW now \in Nat, NEW p, \A i \in 1 .. n : p[i] = o[i],
           \A i \in 1 .. n + loss : i \notin 1 .. n => p[i] = now,
           Windowed(o, n, spent, reset, limit, window),
           loss <= cost, cost <= limit, now - reset > window
    PROVE  Windowed(p, n + loss, cost, now, limit, window)
<1>1. PICK k \in 0 .. n : /\ n - k <= spent
                          /\ \A i \in 1 .. k : o[i] < reset
                          /\ \A i \in 1 .. k - limit : o[i] + window < reset
    BY DEF Windowed
<1>2. \A i \in 1 .. n : p[i] = o[i] /\ o[i] \in Nat /\ o[i] < now
    BY DEF Windowed
<1>3. \A i \in 1 .. n + loss : i \in 1 .. n \/ p[i] = now
    OBVIOUS
<1>4. \A i \in 1 .. n + loss : p[i] <= now + window
    BY <1>2, <1>3
<1>5. \A i \in 1 .. n - limit : i \in 1 .. n /\ p[i] + window < now
  <2> TAKE i \in 1 .. n - limit
  <2>1. i \in 1 .. k /\ i \in 1 .. n
      BY <1>1 DEF Windowed
  <2> QED
      BY <1>1, <1>2, <2>1
<1>6. /\ n \in 0 .. n + loss /\ (n + loss) - n <= cost
      /\ \A i \in 1 .. n : p[i] < now
      /\ \A i \in 1 .. n - limit : p[i] + window < now
    BY <1>2, <1>5
<1>7. ASSUME NEW i \in 1 .. n + loss, NEW j \in 1 .. n + loss, j - i >= 2 * limit
      PROVE  p[j] - p[i] > window
  <2>1. CASE j \in 1 .. n /\ i \in 1 .. n
      BY <1>2, <1>7, <2>1 DEF Windowed
  <2>2. CASE j \notin 1 .. n
    <3>1. i \in 1 .. n - limit
        BY <1>7
    <3> QED
        BY <1>2, <1>3, <1>5, <2>2, <3>1
  <2>3. CASE j \in 1 .. n /\ i \notin 1 .. n
      BY <1>7, <2>3
  <2> QED
      BY <2>1, <2>2, <2>3
<1>8. \E m \in 0 .. n + loss :
          /\ (n + loss) - m <= cost
          /\ \A i \in 1 .. m : p[i] < now
          /\ \A i \in 1 .. m - limit : p[i] + window < now
    BY <1>6
<1>9. \A i, j \in 1 .. n + loss : j - i >= 2 * limit => p[j] - p[i] > window
    BY <1>7
<1> QED
    BY <1>4, <1>8, <1>9, Zenon DEF Windowed

-----------------------------------------------------------------------------
(* Steps.                                                                  *)

\* Nobody an Execute chose is left to drain anything: what is drained is an
\* Owner's own delegate's.
LEMMA DrainOfThePast ==
    ASSUME TypeOK, Guarded, NEW asset \in Assets, NEW a \in TokenAccounts \cup {Elsewhere},
             Drain(asset, a)
    PROVE  /\ run = Idle /\ UNCHANGED <<slot, granted, policy, sol, intact, run, lost, out>>
           /\ a \in TokenAccounts /\ token[a] # Elsewhere
           /\ token' = [token EXCEPT ![a].amount = 0]
<1>1. asset # SOL
    BY DEF Drain, Guarded
<1>2. /\ a \in TokenAccounts
      /\ token[a] \in TokenAccount /\ token[a] # Elsewhere /\ token[a].pledge # "none"
    BY <1>1 DEF Drain, TypeOK, VaultOK
<1>3. token[a].pledge = "prior"
    BY <1>2 DEF Drain, Guarded, Unpledged, TokenAccount
<1> QED
    BY <1>1, <1>2, <1>3 DEF Drain

\* A balance that changes leaves an account an account.
LEMMA BalanceTyped ==
    ASSUME TypeOK, NEW a \in TokenAccounts, token[a] # Elsewhere, NEW n \in 0 .. MaxAmount,
           token' = [token EXCEPT ![a].amount = n]
    PROVE  /\ token' \in [TokenAccounts -> TokenAccount \cup {Elsewhere}]
           /\ Unpledged(token) => Unpledged(token')
<1>1. token[a] \in TokenAccount
    BY DEF TypeOK, VaultOK
<1>2. [token[a] EXCEPT !.amount = n] \in TokenAccount
    BY <1>1 DEF TokenAccount
<1>3. [token[a] EXCEPT !.amount = n].pledge = token[a].pledge
    BY <1>1 DEF TokenAccount
<1>4. token' = [token EXCEPT ![a] = [token[a] EXCEPT !.amount = n]]
    OBVIOUS
<1>5. token' \in [TokenAccounts -> TokenAccount \cup {Elsewhere}]
    BY <1>2, <1>4 DEF TypeOK, VaultOK
<1>6. Unpledged(token) => Unpledged(token')
    BY <1>3, <1>4 DEF Unpledged, TypeOK, VaultOK
<1> QED
    BY <1>5, <1>6

\* An inner instruction leaves the vault's state well formed, and its Execute
\* running with the outflow it made.
LEMMA CpiStep ==
    ASSUME TypeOK, Cpi
    PROVE  /\ VaultOK'
           /\ run # Idle /\ run' # Idle /\ run' \in Execution /\ run.programs # {}
           /\ run'.sol = run.sol /\ run'.intact = run.intact /\ run'.token = run.token
           /\ run'.programs = run.programs /\ run'.gross = run.gross + SatSub(sol, sol')
<1>1. run \in Execution /\ run # Idle /\ run.programs # {}
    BY DEF Cpi, TypeOK
<1>2. VaultOK'
  <2>1. ASSUME NEW n \in 0 .. MaxAmount, MoveSol(n)
        PROVE  VaultOK'
      BY <2>1, PolicyAssumption DEF MoveSol, TypeOK, VaultOK
  <2>2. ASSUME AssignVault
        PROVE  VaultOK'
      BY <2>2 DEF AssignVault, TypeOK, VaultOK
  <2>3. ASSUME NEW a \in TokenAccounts, NEW acc \in TokenAccount, ChangeToken(a, acc)
        PROVE  VaultOK'
      BY <2>3 DEF ChangeToken, TypeOK, VaultOK
  <2>4. ASSUME NEW a \in TokenAccounts, GiveAway(a)
        PROVE  VaultOK'
      BY <2>4 DEF GiveAway, TypeOK, VaultOK
  <2>5. ASSUME NEW a \in TokenAccounts, NEW acc \in TokenAccount, Receive(a, acc)
        PROVE  VaultOK'
      BY <2>5 DEF Receive, TypeOK, VaultOK
  <2> QED
      BY <2>1, <2>2, <2>3, <2>4, <2>5 DEF Cpi
<1>3. PICK n \in Nat : n = SatSub(sol, sol')
  <2>1. sol \in Nat /\ sol' \in Nat
      BY <1>2 DEF TypeOK, VaultOK
  <2>2. SatSub(sol, sol') \in Nat
      BY <2>1, SatSubNat
  <2> QED
      BY <2>2
<1>4. run' = [run EXCEPT !.cpis = run.cpis + 1, !.gross = run.gross + n]
    BY <1>3 DEF Cpi
<1>5. /\ run'.sol = run.sol /\ run'.intact = run.intact /\ run'.token = run.token
      /\ run'.programs = run.programs /\ run'.gross = run.gross + n
    BY <1>1, <1>4 DEF Execution
<1>6. run' \in Execution
  <2>1. run.cpis + 1 \in Nat /\ run.gross + n \in Nat
      BY <1>1 DEF Execution
  <2> QED
      BY <1>1, <1>4, <2>1 DEF Execution
<1> QED
    BY <1>1, <1>2, <1>3, <1>5, <1>6, PolicyAssumption

\* Every step but a Commit leaves the policy and the books alone.
LEMMA Quiet ==
    ASSUME TypeOK, Guarded, [Next]_vars, ~Commit
    PROVE  UNCHANGED <<granted, policy, lost, out>> /\ slot <= slot' /\ slot' \in Nat
<1>1. slot \in Nat
    BY DEF TypeOK
<1>2. ASSUME NEW asset \in Assets, NEW a \in TokenAccounts \cup {Elsewhere},
             Drain(asset, a)
      PROVE  UNCHANGED <<granted, policy, lost, out, slot>>
    BY <1>2, DrainOfThePast
<1> QED
    BY <1>1, <1>2 DEF Next, Begin, Cpi, Revert, Deposit, Tick, vars, vault

\* A Commit records what the engine saw, or less of it.
LEMMA CommitBooks ==
    ASSUME TypeOK, Commit, NEW x \in Assets
    PROVE  \E loss \in Nat :
              /\ Spent(x) \in Nat /\ loss <= Spent(x)
              /\ lost'[x] = lost[x] + loss
              /\ out'[x] \in [1 .. lost[x] + loss -> Nat]
              /\ \A i \in 1 .. lost[x] : out'[x][i] = out[x][i]
              /\ \A i \in 1 .. lost[x] + loss : i \notin 1 .. lost[x] => out'[x][i] = slot
<1> DEFINE loss == Loss(x, run.sol, run.token)
<1>1. run # Idle /\ verify_vault_token_accounts /\ sol' = sol /\ token' = token
    BY DEF Commit, vault
<1>2. loss \in Nat /\ Spent(x) \in Nat /\ loss <= Spent(x)
    BY <1>1, LossSeen
<1>3. RecordLoss(run.sol, run.token)
    BY DEF Commit
<1>4. lost'[x] = lost[x] + loss
    BY <1>3 DEF RecordLoss
<1>5. out'[x] = [i \in 1 .. lost[x] + loss |-> IF i <= lost[x] THEN out[x][i] ELSE slot]
    BY <1>3 DEF RecordLoss
<1>6. lost[x] \in Nat /\ slot \in Nat /\ out[x] \in [1 .. lost[x] -> Nat]
    BY DEF TypeOK
<1> HIDE DEF loss
<1>7. /\ out'[x] \in [1 .. lost[x] + loss -> Nat]
      /\ \A i \in 1 .. lost[x] : out'[x][i] = out[x][i]
      /\ \A i \in 1 .. lost[x] + loss : i \notin 1 .. lost[x] => out'[x][i] = slot
    BY <1>2, <1>5, <1>6
<1> QED
    BY <1>2, <1>4, <1>7

\* Types are preserved by every step of an Execute and between Executes.
LEMMA TypeStep ==
    ASSUME TypeOK, Guarded, [Next]_vars
    PROVE  TypeOK'
<1>1. ASSUME NEW programs \in SUBSET Programs, Begin(programs)
      PROVE  TypeOK'
  <2>1. run' \in Execution
      BY <1>1 DEF Begin, TypeOK, VaultOK, Execution
  <2> QED
      BY <1>1, <2>1 DEF Begin, TypeOK, VaultOK, vault
<1>2. CASE Cpi
    BY <1>2, CpiStep DEF Cpi, TypeOK
<1>3. CASE Commit
  <2>1. lost' \in [Assets -> Nat] /\ \A x \in Assets : out'[x] \in [1 .. lost'[x] -> Nat]
    <3>1. DOMAIN lost' = Assets /\ lost' = [x \in Assets |-> lost'[x]]
        BY <1>3 DEF Commit, RecordLoss
    <3>2. ASSUME NEW x \in Assets
          PROVE  lost'[x] \in Nat /\ out'[x] \in [1 .. lost'[x] -> Nat]
      <4>1. PICK loss \in Nat : /\ lost'[x] = lost[x] + loss
                                /\ out'[x] \in [1 .. lost[x] + loss -> Nat]
          BY <1>3, CommitBooks
      <4>2. lost[x] \in Nat
          BY DEF TypeOK
      <4> QED
          BY <4>1, <4>2
    <3> QED
        BY <3>1, <3>2
  <2> QED
      BY <1>3, <2>1 DEF Commit, TypeOK, VaultOK, vault
<1>4. CASE Revert
    BY <1>4 DEF Revert, TypeOK, VaultOK, Execution
<1>5. CASE Deposit
  <2>1. CASE sol' = sol + 1 /\ UNCHANGED token
      BY <1>5, <2>1 DEF Deposit, TypeOK, VaultOK
  <2>2. ASSUME NEW a \in TokenAccounts, token[a] # Elsewhere, token[a].amount < MaxAmount,
               token' = [token EXCEPT ![a].amount = @ + 1], UNCHANGED sol
        PROVE  TypeOK'
    <3>1. token[a].amount + 1 \in 0 .. MaxAmount
        BY <2>2, PolicyAssumption DEF TypeOK, VaultOK, TokenAccount
    <3>2. token' = [token EXCEPT ![a].amount = token[a].amount + 1]
        BY <2>2
    <3>3. token' \in [TokenAccounts -> TokenAccount \cup {Elsewhere}]
        BY <2>2, <3>1, <3>2, BalanceTyped
    <3> QED
        BY <1>5, <2>2, <3>3 DEF Deposit, TypeOK, VaultOK
  <2> QED
      BY <1>5, <2>1, <2>2 DEF Deposit
<1>6. ASSUME NEW asset \in Assets, NEW a \in TokenAccounts \cup {Elsewhere},
             Drain(asset, a)
      PROVE  TypeOK'
  <2>1. 0 \in 0 .. MaxAmount
      BY PolicyAssumption
  <2>2. token' \in [TokenAccounts -> TokenAccount \cup {Elsewhere}]
      BY <1>6, <2>1, DrainOfThePast, BalanceTyped
  <2> QED
      BY <1>6, <2>2, DrainOfThePast DEF TypeOK, VaultOK
<1>7. CASE Tick
    BY <1>7 DEF Tick, TypeOK, VaultOK, vault
<1>8. CASE UNCHANGED vars
    BY <1>8 DEF vars, TypeOK, VaultOK
<1> QED
    BY <1>1, <1>2, <1>3, <1>4, <1>5, <1>6, <1>7, <1>8 DEF Next

\* The guard is preserved: what verify_vault_token_accounts and the check of
\* the vault itself let through leaves nothing pledged.
LEMMA GuardedStep ==
    ASSUME TypeOK, Guarded, [Next]_vars
    PROVE  Guarded'
<1>1. ASSUME NEW programs \in SUBSET Programs, Begin(programs)
      PROVE  Guarded'
  <2>1. run' \in Execution
      BY <1>1 DEF Begin, TypeOK, VaultOK, Execution
  <2>2. /\ run'.sol = sol /\ run'.intact = intact /\ run'.token = token
        /\ run'.programs = programs /\ run'.gross = 0
      BY <1>1 DEF Begin
  <2>3. evaluate_pre_actions(run.programs)'
      BY <1>1, <2>2 DEF Begin, evaluate_pre_actions, names_program, is_expired
  <2>4. run' # Idle /\ run'.intact = TRUE /\ Unpledged(run'.token)
      BY <1>1, <2>1, <2>2, PolicyAssumption DEF Begin, Guarded
  <2>5. run'.sol = sol' /\ run'.token = token' /\ run'.sol - sol' <= run'.gross
      BY <1>1, <2>2 DEF Begin, vault, TypeOK, VaultOK
  <2> QED
      BY <2>3, <2>4, <2>5 DEF Guarded
<1>2. CASE Cpi
  <2>1. run # Idle /\ run' # Idle /\ run'.intact = TRUE /\ Unpledged(run'.token)
      BY <1>2, CpiStep DEF Guarded
  <2>2. evaluate_pre_actions(run.programs)'
      BY <1>2, <2>1, CpiStep
      DEF Guarded, Cpi, evaluate_pre_actions, names_program, is_expired
  <2>3. run'.sol - sol' <= run'.gross
    <3>1. run.sol \in Nat /\ run.gross \in Nat /\ sol \in Nat /\ sol' \in Nat
        BY <1>2, <2>1, CpiStep DEF TypeOK, VaultOK, Execution
    <3>2. run.sol - sol <= run.gross
        BY <2>1 DEF Guarded
    <3>3. run'.sol = run.sol /\ run'.gross = run.gross + SatSub(sol, sol')
        BY <1>2, CpiStep
    <3> QED
        BY <3>1, <3>2, <3>3 DEF SatSub
  <2>4. run'.programs # {}
      BY <1>2, CpiStep
  <2> QED
      BY <2>1, <2>2, <2>3, <2>4 DEF Guarded
<1>3. CASE Commit
  <2>1. run # Idle /\ run' = Idle /\ intact' = TRUE /\ token' = token
      BY <1>3 DEF Commit, vault, Guarded
  <2>2. \A a \in TokenAccounts : token[a] # Elsewhere => token[a].pledge # "new"
      BY <1>3, <2>1 DEF Commit, Guarded, Unpledged, verify_vault_token_accounts, Snapshotted
  <2> QED
      BY <2>1, <2>2 DEF Guarded, Unpledged
<1>4. CASE Revert
    BY <1>4 DEF Revert, Guarded, Unpledged
<1>5. CASE Deposit
  <2>1. CASE UNCHANGED token
      BY <1>5, <2>1 DEF Deposit, Guarded, Unpledged
  <2>2. ASSUME NEW a \in TokenAccounts, token[a] # Elsewhere, token[a].amount < MaxAmount,
               token' = [token EXCEPT ![a].amount = @ + 1]
        PROVE  Guarded'
    <3>1. token[a].amount + 1 \in 0 .. MaxAmount
        BY <2>2, PolicyAssumption DEF TypeOK, VaultOK, TokenAccount
    <3>2. token' = [token EXCEPT ![a].amount = token[a].amount + 1]
        BY <2>2
    <3>3. Unpledged(token) => Unpledged(token')
        BY <2>2, <3>1, <3>2, BalanceTyped
    <3> QED
        BY <1>5, <3>3 DEF Deposit, Guarded, Unpledged
  <2> QED
      BY <1>5, <2>1, <2>2 DEF Deposit
<1>6. ASSUME NEW asset \in Assets, NEW a \in TokenAccounts \cup {Elsewhere},
             Drain(asset, a)
      PROVE  Guarded'
  <2>1. 0 \in 0 .. MaxAmount
      BY PolicyAssumption
  <2>2. Unpledged(token) => Unpledged(token')
      BY <1>6, <2>1, DrainOfThePast, BalanceTyped
  <2> QED
      BY <1>6, <2>2, DrainOfThePast DEF Guarded, Unpledged
<1>7. CASE Tick
    BY <1>7 DEF Tick, Guarded, Unpledged, vault
<1>8. CASE UNCHANGED vars
    BY <1>8 DEF vars, Guarded, Unpledged, evaluate_pre_actions, names_program, is_expired
<1> QED
    BY <1>1, <1>2, <1>3, <1>4, <1>5, <1>6, <1>7, <1>8 DEF Next

\* A Commit holds every cap to its room, and charges it.
LEMMA CommitCap ==
    ASSUME Kept, TypeOK, Commit, NEW key \in DOMAIN granted.caps
    PROVE  /\ Within(key) /\ key[1] \in Kinds /\ key[2] \in Assets
           /\ policy'.caps[key] = Charged(key, policy.caps[key])
<1>1. key \in Kinds \X Assets
    BY GrantAssumption DEF TypeOK
<1>2. key \in DOMAIN policy.caps
    BY DEF Kept
<1> QED
    BY <1>1, <1>2 DEF Commit, evaluate_post_actions

\* A lifetime limit is charged with what left, or more.
LEMMA LimitStep ==
    ASSUME Kept, TypeOK, Commit, NEW key \in DOMAIN granted.caps, key[1] = "Limit"
    PROVE  LimitKept(key)'
<1>1. /\ Within(key) /\ key[2] \in Assets
      /\ policy'.caps[key] = Charged(key, policy.caps[key])
    BY CommitCap
<1>2. PICK loss \in Nat : /\ Spent(key[2]) \in Nat /\ loss <= Spent(key[2])
                          /\ lost'[key[2]] = lost[key[2]] + loss
    BY <1>1, CommitBooks
<1>3. lost[key[2]] \in Nat /\ granted' = granted
    BY <1>1 DEF TypeOK, Commit
<1>4. Charge(key) = Spent(key[2])
    BY DEF Charge
<1>5. LimitKept(key)
    BY DEF Kept
<1>6. granted.caps[key].remaining \in Nat
    BY GrantAssumption DEF TypeOK, LimitCap
<1>7. CASE Spent(key[2]) = 0
  <2>1. policy'.caps[key] = policy.caps[key] /\ lost'[key[2]] = lost[key[2]]
      BY <1>1, <1>2, <1>3, <1>7 DEF Charged
  <2> QED
      BY <1>3, <1>5, <2>1 DEF LimitKept
<1>8. CASE Spent(key[2]) # 0
  <2>1. ~is_expired(policy.caps[key]) /\ Spent(key[2]) <= policy.caps[key].remaining
      BY <1>1, <1>2, <1>4, <1>8 DEF Within, Room
  <2>2. policy'.caps[key] = [policy.caps[key] EXCEPT !.remaining = @ - Spent(key[2])]
      BY <1>1, <1>8, <2>1 DEF Charged
  <2>3. PICK n \in Nat : n = Spent(key[2])
      BY <1>2
  <2>4. /\ policy'.caps[key] \in LimitCap
        /\ policy'.caps[key].remaining = policy.caps[key].remaining - n
      BY <1>5, <2>1, <2>2, <2>3 DEF LimitKept, LimitCap
  <2>5. policy.caps[key].remaining \in Nat
      BY <1>5 DEF LimitKept, LimitCap
  <2>6. lost'[key[2]] + policy'.caps[key].remaining <= granted.caps[key].remaining
      BY <1>2, <1>3, <1>5, <1>6, <2>3, <2>4, <2>5 DEF LimitKept
  <2> QED
      BY <1>3, <2>4, <2>6 DEF LimitKept
<1> QED
    BY <1>7, <1>8

\* A recurring limit is charged with what left, or more, in the window the
\* slot is in.
LEMMA WindowStep ==
    ASSUME Kept, TypeOK, Commit, NEW key \in DOMAIN granted.caps, key[1] = "Recurring"
    PROVE  WindowKept(key)'
<1>1. /\ Within(key) /\ key[2] \in Assets
      /\ policy'.caps[key] = Charged(key, policy.caps[key])
    BY CommitCap
<1> DEFINE cap == policy.caps[key]
           cost == Spent(key[2])
           n == lost[key[2]]
           o == out[key[2]]
           p == out'[key[2]]
<1>2. PICK loss \in Nat :
          /\ cost \in Nat /\ loss <= cost /\ lost'[key[2]] = n + loss
          /\ p \in [1 .. n + loss -> Nat]
          /\ \A i \in 1 .. n : p[i] = o[i]
          /\ \A i \in 1 .. n + loss : i \notin 1 .. n => p[i] = slot
    BY <1>1, CommitBooks
<1>3. n \in Nat /\ o \in [1 .. n -> Nat] /\ granted' = granted /\ slot' = slot /\ slot \in Nat
    BY <1>1 DEF TypeOK, Commit
<1>4. Charge(key) = cost
    BY DEF Charge
<1>5. WindowKept(key)
    BY DEF Kept
<1>6. /\ cap \in RecurringCap
      /\ cap.limit \in Nat /\ cap.spent \in Nat /\ cap.window \in Nat /\ cap.last_reset \in Nat
      /\ Windowed(o, n, cap.spent, cap.last_reset, cap.limit, cap.window)
      /\ cap.last_reset <= slot /\ cap.spent <= cap.limit
    BY <1>5 DEF WindowKept, RecurringCap, Windowed
<1>7. SUFFICES /\ policy'.caps[key] \in RecurringCap
               /\ policy'.caps[key].limit = cap.limit /\ policy'.caps[key].window = cap.window
               /\ policy'.caps[key].last_reset <= slot
               /\ Windowed(p, n + loss, policy'.caps[key].spent, policy'.caps[key].last_reset,
                           cap.limit, cap.window)
    BY <1>2, <1>3, <1>5 DEF WindowKept
<1>8. CASE cost = 0
  <2>1. policy'.caps[key] = cap
      BY <1>1, <1>8 DEF Charged
  <2>2. loss = 0 /\ n + loss = n
      BY <1>2, <1>3, <1>8
  <2>3. p = o
      BY <1>2, <1>3, <2>2
  <2> QED
      BY <1>6, <2>1, <2>2, <2>3
<1>9. CASE cost # 0 /\ WindowOver(cap)
  <2>1. ~is_expired(cap) /\ cost <= cap.limit
      BY <1>1, <1>2, <1>4, <1>9 DEF Within, Room
  <2>2. policy'.caps[key] = [cap EXCEPT !.spent = cost, !.last_reset = slot]
      BY <1>1, <1>9, <2>1 DEF Charged
  <2> HIDE DEF cap, cost, n, o, p
  <2>3. /\ policy'.caps[key] \in RecurringCap
        /\ policy'.caps[key].limit = cap.limit /\ policy'.caps[key].window = cap.window
        /\ policy'.caps[key].last_reset = slot /\ policy'.caps[key].spent = cost
      BY <1>2, <1>3, <1>6, <2>2 DEF RecurringCap
  <2>4. slot - cap.last_reset > cap.window
      BY <1>9 DEF WindowOver
  <2>5. Windowed(p, n + loss, cost, slot, cap.limit, cap.window)
      BY <1>2, <1>3, <1>6, <2>1, <2>4, WindowStarts
  <2> QED
      BY <1>3, <2>3, <2>5
<1>10. CASE cost # 0 /\ ~WindowOver(cap)
  <2>1. ~is_expired(cap) /\ cost <= cap.limit - cap.spent
      BY <1>1, <1>2, <1>4, <1>10 DEF Within, Room
  <2>2. policy'.caps[key] = [cap EXCEPT !.spent = cap.spent + cost]
      BY <1>1, <1>10, <2>1 DEF Charged
  <2>3. PICK total \in Nat : total = cap.spent + cost
      BY <1>2, <1>6
  <2> HIDE DEF cap, cost, n, o, p
  <2>4. /\ policy'.caps[key] \in RecurringCap
        /\ policy'.caps[key].limit = cap.limit /\ policy'.caps[key].window = cap.window
        /\ policy'.caps[key].last_reset = cap.last_reset
        /\ policy'.caps[key].spent = total
      BY <1>6, <2>2, <2>3 DEF RecurringCap
  <2>5. slot \in cap.last_reset .. cap.last_reset + cap.window
      BY <1>3, <1>6, <1>10 DEF WindowOver
  <2>6. loss <= total - cap.spent /\ total <= cap.limit
      BY <1>2, <1>6, <2>1, <2>3
  <2>7. \A i \in 1 .. n + loss :
            i \notin 1 .. n => p[i] \in cap.last_reset .. cap.last_reset + cap.window
      BY <1>2, <2>5
  <2>8. Windowed(p, n + loss, total, cap.last_reset, cap.limit, cap.window)
      BY <1>2, <1>3, <1>6, <2>6, <2>7, WindowContinues
  <2> QED
      BY <1>6, <2>4, <2>8
<1> QED
    BY <1>8, <1>9, <1>10

\* The books stay within the policy's terms.
LEMMA KeptStep ==
    ASSUME IInv, [Next]_vars
    PROVE  Kept'
<1>1. CASE Commit
  <2>1. DOMAIN policy'.caps = DOMAIN granted'.caps /\ granted' = granted
      BY <1>1 DEF Commit, evaluate_post_actions, IInv, Kept
  <2>2. ASSUME NEW key \in DOMAIN granted.caps, key[1] = "MaxPerTx"
        PROVE  policy'.caps[key] = granted'.caps[key]
    <3>1. policy'.caps[key] = Charged(key, policy.caps[key])
        BY <1>1, CommitCap DEF IInv
    <3> QED
        BY <2>1, <2>2, <3>1 DEF Charged, IInv, Kept
  <2>3. ASSUME NEW x \in Assets, \A key \in DOMAIN granted.caps : key[2] # x
        PROVE  lost'[x] = 0
    <3>1. PICK loss \in Nat : /\ Spent(x) \in Nat /\ loss <= Spent(x)
                              /\ lost'[x] = lost[x] + loss
        BY <1>1, CommitBooks DEF IInv
    <3>2. Listed(x)
        BY <1>1 DEF Commit, evaluate_post_actions
    <3>3. Spent(x) = 0
        BY <2>3, <3>1, <3>2 DEF Listed, IInv, Kept
    <3>4. lost[x] = 0
        BY <2>3 DEF IInv, Kept
    <3> QED
        BY <3>1, <3>3, <3>4
  <2>4. ASSUME NEW key \in DOMAIN granted.caps
        PROVE  /\ key[1] = "Limit" => LimitKept(key)'
               /\ key[1] = "Recurring" => WindowKept(key)'
      BY <1>1, LimitStep, WindowStep DEF IInv
  <2> QED
      BY <2>1, <2>2, <2>3, <2>4 DEF Kept
<1>2. CASE ~Commit
  <2>1. UNCHANGED <<granted, policy, lost, out>> /\ slot <= slot' /\ slot' \in Nat /\ slot \in Nat
      BY <1>2, Quiet DEF IInv, TypeOK
  <2>2. ASSUME NEW key \in DOMAIN granted.caps
        PROVE  /\ key[1] = "Limit" => LimitKept(key)'
               /\ key[1] = "Recurring" => WindowKept(key)'
    <3>1. key[1] = "Limit" => LimitKept(key)'
        BY <2>1 DEF IInv, Kept, LimitKept
    <3>2. ASSUME key[1] = "Recurring"
          PROVE  WindowKept(key)'
      <4>1. WindowKept(key)
          BY <3>2 DEF IInv, Kept
      <4>2. policy.caps[key].last_reset \in Nat
          BY <4>1 DEF WindowKept, RecurringCap
      <4>3. policy.caps[key].last_reset <= slot'
          BY <2>1, <4>1, <4>2 DEF WindowKept
      <4> QED
          BY <2>1, <4>1, <4>3 DEF WindowKept
    <3> QED
        BY <3>1, <3>2
  <2> QED
      BY <2>1, <2>2 DEF IInv, Kept
<1> QED
    BY <1>1, <1>2

\* A policy starts with its books empty.
LEMMA InitInv ==
    ASSUME Init
    PROVE  IInv
<1>1. TypeOK
  <2>1. slot \in Nat /\ sol \in Nat
      BY PolicyAssumption DEF Init
  <2>2. token \in [TokenAccounts -> TokenAccount \cup {Elsewhere}]
      BY DEF Init
  <2>3. \A x \in Assets : out[x] \in [1 .. lost[x] -> Nat]
      BY DEF Init
  <2> QED
      BY <2>1, <2>2, <2>3 DEF Init, TypeOK, VaultOK
<1>2. Guarded
    BY DEF Init, Guarded, Unpledged
<1>3. ASSUME NEW key \in DOMAIN granted.caps
      PROVE  /\ key[1] = "Limit" => LimitKept(key)
             /\ key[1] = "Recurring" => WindowKept(key)
  <2>1. granted \in Grants /\ policy = granted /\ key \in Kinds \X Assets
      BY GrantAssumption DEF Init
  <2>2. lost[key[2]] = 0
      BY <2>1 DEF Init
  <2>3. ASSUME key[1] = "Limit"
        PROVE  LimitKept(key)
      BY <2>1, <2>2, <2>3, GrantAssumption DEF LimitKept, LimitCap
  <2>4. ASSUME key[1] = "Recurring"
        PROVE  WindowKept(key)
    <3>1. /\ policy.caps[key] \in RecurringCap
          /\ policy.caps[key].spent = 0 /\ policy.caps[key].last_reset = 0
        BY <2>1, <2>4, GrantAssumption
    <3>2. policy.caps[key].limit \in Nat /\ policy.caps[key].window \in Nat
        BY <3>1 DEF RecurringCap
    <3>3. Windowed(out[key[2]], 0, 0, 0, policy.caps[key].limit, policy.caps[key].window)
      <4>1. 0 \in 0 .. 0 /\ 0 - 0 <= 0
          OBVIOUS
      <4> QED
          BY <3>2, <4>1 DEF Windowed
    <3>4. slot \in Nat
        BY <1>1 DEF TypeOK
    <3> QED
        BY <2>1, <2>2, <3>1, <3>3, <3>4 DEF WindowKept
  <2> QED
      BY <2>3, <2>4
<1>4. Kept
    BY <1>3 DEF Kept, Init
<1> QED
    BY <1>1, <1>2, <1>4 DEF IInv

-----------------------------------------------------------------------------
(* Theorems.                                                               *)

\* The inductive invariant holds in every reachable state.
THEOREM Invariant == Spec => []IInv
<1>1. Init => IInv
    BY InitInv
<1>2. IInv /\ [Next]_vars => IInv'
    BY TypeStep, GuardedStep, KeptStep DEF IInv
<1> QED
    BY <1>1, <1>2, PTL DEF Spec

\* Over any sequence of Executes what leaves the vault's control of an asset
\* adds up to no more than the grant, for every grant and every inner program.
THEOREM LossIsWithinGrant == Spec => []LossWithinGrant
<1>1. IInv => LossWithinGrant
  <2> SUFFICES ASSUME IInv, NEW asset \in Assets
               PROVE  /\ <<"Limit", asset>> \in DOMAIN granted.caps =>
                            lost[asset] <= granted.caps[<<"Limit", asset>>].remaining
                      /\ (\A key \in DOMAIN granted.caps : key[2] # asset) => lost[asset] = 0
      BY DEF LossWithinGrant
  <2>1. ASSUME NEW key \in DOMAIN granted.caps, key[1] = "Limit", key[2] = asset
        PROVE  lost[asset] <= granted.caps[key].remaining
    <3>1. LimitKept(key) /\ lost[asset] \in Nat
        BY <2>1 DEF IInv, Kept, TypeOK
    <3>2. granted.caps[key].remaining \in Nat
        BY <2>1, GrantAssumption DEF IInv, TypeOK, LimitCap
    <3> QED
        BY <2>1, <3>1, <3>2 DEF LimitKept, LimitCap
  <2>2. <<"Limit", asset>>[1] = "Limit" /\ <<"Limit", asset>>[2] = asset
      OBVIOUS
  <2> QED
      BY <2>1, <2>2 DEF IInv, Kept
<1> QED
    BY <1>1, Invariant, PTL

\* In any stretch of a recurring limit's window + 1 slots at most two
\* allowances leave, for every limit and window.
THEOREM TwoAllowances == Spec => []SlidingWindow
<1>1. IInv => SlidingWindow
  <2> SUFFICES ASSUME IInv, NEW asset \in Assets, NEW key \in DOMAIN granted.caps,
                      key[1] = "Recurring", key[2] = asset
               PROVE  \A i, j \in 1 .. lost[asset] :
                         j - i >= 2 * granted.caps[key].limit =>
                             out[asset][j] - out[asset][i] > granted.caps[key].window
      BY DEF SlidingWindow
  <2>1. WindowKept(key)
      BY DEF IInv, Kept
  <2> QED
      BY <2>1 DEF WindowKept, Windowed
<1> QED
    BY <1>1, Invariant, PTL

\* What a Commit loses of an asset was spent by inner instructions that the
\* program lists let run, and within every cap on it.
LEMMA LossIsCharged ==
    ASSUME IInv, Commit, NEW x \in Assets, lost'[x] # lost[x]
    PROVE  /\ Spent(x) > 0 /\ run.programs # {}
           /\ \A key \in DOMAIN policy.caps : key[2] = x => ~is_expired(policy.caps[key])
<1>1. PICK loss \in Nat : /\ Spent(x) \in Nat /\ loss <= Spent(x)
                          /\ lost'[x] = lost[x] + loss
    BY CommitBooks DEF IInv
<1>2. Spent(x) > 0
    BY <1>1 DEF IInv, TypeOK
<1>3. run # Idle /\ run \in Execution
    BY DEF Commit, IInv, TypeOK
<1>4. run.programs # {}
  <2>1. ASSUME run.programs = {}
        PROVE  FALSE
    <3>1. sol = run.sol /\ token = run.token
        BY <1>3, <2>1 DEF IInv, Guarded
    <3>2. CASE x = SOL
        BY <1>2, <3>1, <3>2 DEF Spent, SatSub, IInv, TypeOK, VaultOK
    <3>3. CASE x # SOL
      <4>1. Spent(x) = SatSub(Flow(x, run.token), Flow(x, run.token))
          BY <3>1, <3>3 DEF Spent
      <4>2. Flow(x, run.token) \in Nat
          BY <3>3, LossSeen DEF IInv, Commit, vault
      <4> QED
          BY <1>2, <4>1, <4>2 DEF SatSub
    <3> QED
        BY <3>2, <3>3
  <2> QED
      BY <2>1
<1>5. ASSUME NEW key \in DOMAIN policy.caps, key[2] = x
      PROVE  ~is_expired(policy.caps[key])
  <2>1. Within(key)
      BY DEF Commit, evaluate_post_actions
  <2>2. Charge(key) > 0
    <3>1. CASE key = <<"MaxPerTx", SOL>>
      <4>1. Charge(key) = run.gross /\ x = SOL
          BY <1>5, <3>1 DEF Charge
      <4>2. run.sol - sol > 0
          BY <1>2, <4>1 DEF Spent, SatSub
      <4>3. run.sol - sol <= run.gross
          BY <1>3 DEF IInv, Guarded
      <4>4. run.sol \in Nat /\ sol \in Nat /\ run.gross \in Nat
          BY <1>3 DEF Execution, IInv, TypeOK, VaultOK
      <4> QED
          BY <4>1, <4>2, <4>3, <4>4
    <3>2. CASE key # <<"MaxPerTx", SOL>>
        BY <1>2, <1>5, <3>2 DEF Charge
    <3> QED
        BY <3>1, <3>2
  <2> QED
      BY <2>1, <2>2 DEF Within
<1> QED
    BY <1>2, <1>4, <1>5

\* Expiry never widens a policy: nothing leaves of an asset on which any cap
\* has expired, or once a whole allow list has.
THEOREM ExpiredNeverSpends == Spec => ExpiredIsExhausted
<1>1. IInv /\ [Next]_vars => [NothingOfTheExpired]_vars
  <2> SUFFICES ASSUME IInv, [Next]_vars, NEW asset \in Assets, lost'[asset] # lost[asset]
               PROVE  /\ \A key \in DOMAIN policy.caps :
                            key[2] = asset => ~is_expired(policy.caps[key])
                      /\ policy.allow # {} => \E e \in policy.allow : ~is_expired(e)
      BY DEF NothingOfTheExpired
  <2>1. Commit
      BY Quiet DEF IInv
  <2>2. /\ run.programs # {} /\ run # Idle
        /\ \A key \in DOMAIN policy.caps : key[2] = asset => ~is_expired(policy.caps[key])
      BY <2>1, LossIsCharged DEF Commit
  <2>3. evaluate_pre_actions(run.programs)
      BY <2>2 DEF IInv, Guarded
  <2> QED
      BY <2>2, <2>3 DEF evaluate_pre_actions, names_program
<1> QED
    BY <1>1, Invariant, PTL DEF Spec, ExpiredIsExhausted

\* An Execute that took more SOL than SolMaxPerTx allows, gross of what came
\* back, leaves no trace.
THEOREM GrossIsCapped == Spec => PerExecuteCap
<1>1. IInv /\ [Next]_vars => [GrossWithinCap]_vars
  <2> SUFFICES ASSUME IInv, [Next]_vars, run # Idle, run' = Idle,
                      NEW key \in DOMAIN policy.caps, key = <<"MaxPerTx", SOL>>
               PROVE  \/ run.gross <= policy.caps[key].max
                      \/ /\ sol' = run.sol /\ intact' = run.intact /\ token' = run.token
                         /\ policy' = policy
      BY DEF GrossWithinCap
  <2>1. CASE Commit
    <3>1. Within(key) /\ Charge(key) = run.gross /\ key[1] = "MaxPerTx"
        BY <2>1 DEF Commit, evaluate_post_actions, Charge
    <3>2. run.gross \in Nat
        BY DEF IInv, TypeOK, Execution
    <3>3. key \in DOMAIN granted.caps /\ policy.caps[key] = granted.caps[key]
        BY <3>1 DEF IInv, Kept
    <3>4. policy.caps[key].max \in Nat
        BY <3>1, <3>3, GrantAssumption DEF IInv, TypeOK, MaxPerTxCap
    <3> QED
        BY <3>1, <3>2, <3>4 DEF Within, Room
  <2>2. CASE Revert
      BY <2>2 DEF Revert
  <2>3. Commit \/ Revert
    <3>1. ~Cpi
        BY CpiStep DEF IInv
    <3> QED
        BY <3>1 DEF Next, Begin, Deposit, Drain, Tick, vars
  <2> QED
      BY <2>1, <2>2, <2>3
<1> QED
    BY <1>1, Invariant, PTL DEF Spec, PerExecuteCap
=============================================================================
