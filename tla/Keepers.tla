------------------------------- MODULE Keepers -------------------------------
(***************************************************************************)
(* The two scripts that collect rent nobody else will: reclaim-deferred    *)
(* (a sponsor's expired authorisations, signed by its paymaster) and       *)
(* close-expired-sessions (anybody's expired sessions, of either protocol  *)
(* version).  Each reads the slot, scans, filters by expiry and sends what *)
(* is left in batches.  The reads are answered by nodes that may lag; the  *)
(* cluster goes on meanwhile: rivals close sessions first, owners open     *)
(* them again under the same key, authorisations are executed.             *)
(***************************************************************************)
EXTENDS Integers, Sequences, FiniteSets, SequencesExt

CONSTANTS
    Deferreds,          \* addresses of authorisations
    SessionsV1, SessionsV2,
    Sponsor,            \* the paymaster's key
    PayerOf,            \* who paid for each authorisation
    Expires,            \* bound: the expiries an account may have
    BATCH,              \* instructions per transaction
    Running,            \* the scripts that are run
    MaxSlot             \* bound: the clock stops here

Scripts == {"reclaim", "close"}
Sessions == SessionsV1 \cup SessionsV2

VARIABLES
    past,       \* the accounts after each slot: address -> expires_at
    script,     \* where each script is and what it has in hand
    flying,     \* batches sent and not landed yet
    credited,   \* accounts whose rent went to each script's refund address
    unprovoked  \* observer: a batch failed though none of its accounts had changed

vars == <<past, script, flying, credited, unprovoked>>

slot == Len(past)
accounts == past[slot]
Now(as) == past' = [past EXCEPT ![slot] = as]
Without(as, gone) == [a \in DOMAIN as \ gone |-> as[a]]

-----------------------------------------------------------------------------
(* The program, and what others do with it. *)

Expired(as, a, now) == a \in DOMAIN as /\ as[a] < now

\* ReclaimDeferred also wants the payer's signature: the sponsor's, through the
\* paymaster, and the refund back to the payer.
Closable(p, as, a, now) ==
    /\ Expired(as, a, now)
    /\ IF p = "reclaim" THEN a \in Deferreds /\ PayerOf[a] = Sponsor ELSE a \in Sessions

SlotPasses ==
    /\ slot < MaxSlot
    /\ past' = Append(past, accounts)
    /\ UNCHANGED <<script, flying, credited, unprovoked>>

\* A rival keeper, or another run of the same script.
RivalCloses ==
    /\ \E a \in Sessions : Expired(accounts, a, slot) /\ Now(Without(accounts, {a}))
    /\ UNCHANGED <<script, flying, credited, unprovoked>>

\* CreateSession at an address that was closed.
Reopen ==
    /\ \E a \in Sessions \ DOMAIN accounts, e \in Expires :
          e >= slot /\ Now([b \in DOMAIN accounts \cup {a} |-> IF b = a THEN e ELSE accounts[b]])
    /\ UNCHANGED <<script, flying, credited, unprovoked>>

\* ExecuteDeferred, in time.
ExecuteDeferred ==
    /\ \E a \in Deferreds \cap DOMAIN accounts :
          slot <= accounts[a] /\ Now(Without(accounts, {a}))
    /\ UNCHANGED <<script, flying, credited, unprovoked>>

-----------------------------------------------------------------------------
(* The scripts. *)

Start == [at |-> "slot", slot |-> 0, scanned |-> 0, found |-> <<>>, sent |-> 0,
          tally |-> 0, left |-> 0]

At(p, at) == script[p].at = at

\* A node answers from its own slot, which may be behind.
GetSlot(p) ==
    /\ At(p, "slot")
    /\ \E v \in 1 .. slot : script' = [script EXCEPT ![p] = [@ EXCEPT !.at = "scan", !.slot = v]]
    /\ UNCHANGED <<past, flying, credited, unprovoked>>

\* The scans to make, in order: one per discriminator.
Scans(p) == IF p = "reclaim" THEN <<Deferreds>> ELSE <<SessionsV1, SessionsV2>>

\* Mutant: an account in its last slot is taken for expired.
Wanted_LastSlot(p, s, as, a) ==
    /\ as[a] <= s
    /\ p = "reclaim" => PayerOf[a] = Sponsor

\* The filter on what a scan returned, as of slot s.
Wanted(p, s, as, a) ==
    /\ as[a] < s
    /\ p = "reclaim" => PayerOf[a] = Sponsor

GetProgramAccounts(p) ==
    /\ At(p, "scan")
    /\ \E v \in 1 .. slot :
         LET kind == Scans(p)[script[p].scanned + 1]
             mine == {a \in kind \cap DOMAIN past[v] : Wanted(p, script[p].slot, past[v], a)}
             rows == [i \in 1 .. Cardinality(mine) |->
                        [key |-> SetToSeq(mine)[i], expires |-> past[v][SetToSeq(mine)[i]]]]
             last == script[p].scanned + 1 = Len(Scans(p))
         IN  script' = [script EXCEPT ![p] =
               [@ EXCEPT !.scanned = @ + 1, !.found = @ \o rows,
                         !.at = IF last THEN "next" ELSE "scan"]]
    /\ UNCHANGED <<past, flying, credited, unprovoked>>

\* The keys of the batch that starts after the n-th account.
Batch(p, n) ==
    ToSet(SubSeq(script[p].found, n + 1,
                 IF n + BATCH < Len(script[p].found) THEN n + BATCH ELSE Len(script[p].found)))

SendBatch(p) ==
    /\ At(p, "next") /\ script[p].sent < Len(script[p].found)
    /\ flying' = flying \cup {[p |-> p, n |-> script[p].sent, rows |-> Batch(p, script[p].sent)]}
    /\ script' = [script EXCEPT ![p] = [@ EXCEPT !.at = "wait"]]
    /\ UNCHANGED <<past, credited, unprovoked>>

Landed(t) == t \notin flying

\* A transaction is all or nothing: one account that cannot be closed fails the
\* batch.
Land(t) ==
    LET keys == {r.key : r \in t.rows}
        ok == \A a \in keys : Closable(t.p, accounts, a, slot)
    IN  /\ flying' = flying \ {t}
        /\ Now(IF ok THEN Without(accounts, keys) ELSE accounts)
        /\ credited' = IF ok THEN [credited EXCEPT ![t.p] = @ \cup {<<t.n, a>> : a \in keys}]
                       ELSE credited
        /\ unprovoked' = (unprovoked
             \/ (~ok /\ \A r \in t.rows : r.key \in DOMAIN accounts /\ accounts[r.key] = r.expires))
        /\ UNCHANGED script

\* The blockhash expired first.
Lost(t) ==
    /\ flying' = flying \ {t}
    /\ UNCHANGED <<past, script, credited, unprovoked>>

Sending(p) == [p |-> p, n |-> script[p].sent, rows |-> Batch(p, script[p].sent)]
Got(p) == {c \in credited[p] : c[1] = script[p].sent}

\* sendAndConfirmTransaction answers once the batch has landed and succeeded; a
\* paymaster may answer as soon as it has sent it.
Confirmed(p) == p = "reclaim" \/ (Landed(Sending(p)) /\ Got(p) # {})

Advance(p, counted) ==
    script' = [script EXCEPT ![p] =
        [@ EXCEPT !.at = "next", !.sent = @ + BATCH,
                  !.tally = @ + (IF counted THEN Cardinality(Batch(p, script[p].sent)) ELSE 0)]]

Answered(p) ==
    /\ At(p, "wait") /\ Confirmed(p) /\ Advance(p, TRUE)
    /\ UNCHANGED <<past, flying, credited, unprovoked>>

\* It failed, expired, or the answer was lost: logged, and on to the next batch.
Throws(p) ==
    /\ At(p, "wait") /\ Advance(p, FALSE)
    /\ UNCHANGED <<past, flying, credited, unprovoked>>

\* getMultipleAccountsInfo: how many of the accounts are still there.
Left(p, v) ==
    Cardinality({i \in DOMAIN script[p].found : script[p].found[i].key \in DOMAIN past[v]})

Finish(p) ==
    /\ At(p, "next") /\ script[p].sent >= Len(script[p].found)
    /\ \E v \in 1 .. slot : script' = [script EXCEPT ![p] =
         [@ EXCEPT !.at = "done", !.left = IF p = "reclaim" THEN Left(p, v) ELSE 0]]
    /\ UNCHANGED <<past, flying, credited, unprovoked>>

-----------------------------------------------------------------------------
Init ==
    /\ \E there \in SUBSET (Deferreds \cup Sessions) : past \in {<<as>> : as \in [there -> Expires]}
    /\ script = [p \in Scripts |-> Start]
    /\ flying = {} /\ credited = [p \in Scripts |-> {}] /\ unprovoked = FALSE

Step(p) ==
    \/ GetSlot(p) \/ GetProgramAccounts(p) \/ SendBatch(p)
    \/ Answered(p) \/ Throws(p) \/ Finish(p)

Next ==
    \/ \E p \in Running : Step(p)
    \/ \E t \in flying : Land(t) \/ Lost(t)
    \/ SlotPasses \/ RivalCloses \/ Reopen \/ ExecuteDeferred

Spec == Init /\ [][Next]_vars

-----------------------------------------------------------------------------
(* Properties. *)

\* Whatever slots the nodes answer from, a batch the scripts send fails on chain
\* only because somebody else closed or reopened one of its accounts after the
\* scan saw it: the filter never picks an account the program still refuses.
FailsOnlyByARace == ~unprovoked

\* close-expired-sessions never says it closed more sessions than its refund
\* address was paid for.
ClosedIsPaid == script["close"].tally <= Cardinality(credited["close"])

\* When reclaim-deferred reports that no account is left, every account it found
\* is gone, whatever the paymaster answered.
NoneLeftIsGone ==
    (At("reclaim", "done") /\ script["reclaim"].left = 0)
      => \A i \in DOMAIN script["reclaim"].found :
            script["reclaim"].found[i].key \notin DOMAIN accounts

\* What the two scripts report and send holds on chain: no batch fails unprovoked,
\* what was counted as closed was paid, what was reported gone is gone.
KeepersHonest == FailsOnlyByARace /\ ClosedIsPaid /\ NoneLeftIsGone
=============================================================================
