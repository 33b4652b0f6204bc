---------------------------- MODULE WalletHistory ----------------------------
(***************************************************************************)
(* Wallet with a memory: what has been accepted, granted and removed so    *)
(* far.  The program keeps none of this (a closed account leaves nothing   *)
(* behind), which is why the properties that span an account's closing and *)
(* re-creation have to be stated over an observer's record.                *)
(***************************************************************************)
EXTENDS Wallet

CONSTANT Never          \* an authority that is in place, or has never been

VARIABLES
    accepted,   \* <<authority, assertion>> accepted by the account in place
    first,      \* slot at which each assertion was first accepted
    gone,       \* slot at which each absent authority was last closed
    owed        \* Authorize minus ExecuteDeferred, per wallet and batch

hvars == <<slot, wallet, auth, session, deferred, signed, landed,
           accepted, first, gone, owed>>

HInit ==
    /\ Init
    /\ accepted = {}
    /\ first = [a \in {} |-> 0]
    /\ gone = [x \in AuthorityPda |-> Never]
    /\ owed = [w \in Wallets |-> [b \in Batches |-> 0]]

\* The assertion the step's instruction was accepted on, if there is one.
Assertion == {landed'.with} \ {TxSigner}

Record ==
    /\ accepted' = {e \in accepted \cup {<<landed'.by, a>> : a \in Assertion} :
                      auth'[e[1]] # NoAccount}
    /\ first' = [a \in DOMAIN first \cup Assertion |->
                   IF a \in DOMAIN first THEN first[a] ELSE slot]
    /\ gone' = [x \in AuthorityPda |->
                  IF auth'[x] # NoAccount THEN Never
                  ELSE IF auth[x] # NoAccount THEN slot ELSE gone[x]]
    /\ owed' =
         IF landed'.op = "Authorize"
         THEN [owed EXCEPT ![landed'.by[1]][landed'.with.body[1]] = @ + 1]
         ELSE IF landed'.op = "ExecuteDeferred"
         THEN [owed EXCEPT ![landed'.by[1][1]][deferred[landed'.by].batch] =
                 @ - 1]
         ELSE owed

HNext == Next /\ Record

HSpec == HInit /\ [][HNext]_hvars

-----------------------------------------------------------------------------
AcceptsNew ==
    \A a \in Assertion : /\ <<landed'.by, a>> \notin accepted
                         /\ landed'.by = <<a.wallet, a.key>>

\* An authority account accepts an assertion at most once in its life, and
\* only one its own key signed for its own wallet, however often and in
\* whatever order relayers submit it: the odometer's promise.
AcceptedOncePerLife == [][AcceptsNew]_hvars

ReplaysSoon ==
    \A a \in Assertion \cap DOMAIN first : slot - first[a] < MAX_SLOT_AGE

\* Removing a passkey and adding it again resets its counter and revives its
\* old assertions.  What bounds that is the slot check alone: an assertion
\* accepted a second time is accepted less than MAX_SLOT_AGE slots after the
\* first.
ReplayBounded == [][ReplaysSoon]_hvars

\* An ExecuteDeferred spends a signature of an Owner's or Admin's passkey:
\* over any history of authorizations, executions, reclaims, removals and
\* re-used addresses, no batch runs more often than it was authorized.
DeferredAtMostOnce == \A w \in Wallets, b \in Batches : owed[w][b] >= 0

OutlivesBriefly ==
    landed'.op = "ExecuteDeferred" /\ gone[landed'.by[1]] # Never =>
        slot - gone[landed'.by[1]] <= MAX_EXPIRY_SLOTS

\* ExecuteDeferred does not look at the authority again, so what a passkey
\* authorized outlives its removal; but by no more than MAX_EXPIRY_SLOTS.
DeferredOutlivesBounded == [][OutlivesBriefly]_hvars
=============================================================================
