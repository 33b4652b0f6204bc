------------------------------ MODULE Rehearsal ------------------------------
(***************************************************************************)
(* two-id-rehearsal: the rollout, end to end, against a cluster that drops *)
(* requests.  A v1 deployment, two v1 wallets (an Ed25519 owner's and a    *)
(* passkey's) with SOL, tokens and a session; the v1 id upgraded to the    *)
(* sunset binary; both wallets migrated into v2; the expired session       *)
(* closed.  Every read and send is retried on a transient error, and an    *)
(* error may come after the transaction has landed: a retried send then    *)
(* runs again.  Any other error ends the run, and with it the keys that    *)
(* were not written to STATE_FILE.                                         *)
(***************************************************************************)
EXTENDS Integers, Sequences, FiniteSets, SequencesExt

CONSTANTS
    TRIES,              \* attempts of one request
    MaxFaults,          \* bound: transient errors in one run
    MaxIdle,            \* bound: slots that pass during a step that waits for none
    SessionSlots        \* slots the session lives

Wallets == {"ed25519", "passkey"}

VARIABLES
    at,         \* the step the script is at, by its position in Script
    tries,      \* attempts of this step so far
    since,      \* the slot this step began in
    from,       \* the slot settle() started at; 0 before it has read one
    saved,      \* STATE_FILE: wallets whose key is in it
    failed,     \* checks that failed
    ended,      \* "no", "thrown", "green" or "red"
    why,        \* what ended it: the step and the error
    slot, faults,
    binary,     \* what runs at the v1 id, and since which slot
    v1,         \* each v1 wallet: "none", "open" or "closed", and what it holds
    v2,         \* the same of the destination wallets
    session     \* "none", "open" or "closed", and its expiry

script == <<at, tries, since, from, saved, failed, ended, why>>
chain == <<binary, v1, v2, session>>
vars == <<script, slot, faults, chain>>

-----------------------------------------------------------------------------
(* The script's steps, in order.  A wallet's seeding is one block of code   *)
(* for each of the two.                                                     *)

Seed(w) == << <<"create", w>>, <<"save", w>>, <<"fund", w>>, <<"mintTo", w>> >>

Deploy(step) == << <<step, "">>, <<"settle", "">> >>

Leave(w) == << <<"scan", w>>, <<"setup", w>>, <<"swap", w>>, <<"migrate", w>>, <<"checks", w>> >>

Script ==
    Deploy("v1") \o Seed("ed25519") \o << <<"session", "">> >> \o Seed("passkey")
    \o Deploy("sunset") \o << <<"refusal", "">> >>
    \o SelectSeq(Leave("ed25519"), LAMBDA s : s[1] # "swap") \o Leave("passkey")
    \o << <<"expiry", "">>, <<"keeper", "">>, <<"sessionCheck", "">> >>

step == Script[at]
kind == step[1]
w == step[2]
Sends == {"v1", "sunset", "create", "fund", "mintTo", "session", "setup", "migrate"}
Retried == Sends \cup {"scan", "settle", "expiry", "sessionCheck"}

-----------------------------------------------------------------------------
(* What a transaction or a CLI call does when it lands, and what it cannot do. *)

Deployed(b) == binary.what = b /\ slot > binary.since
Held(x) == [x EXCEPT !.state = "closed", !.sol = 0, !.tokens = 0]

Accepts ==
    CASE kind \in {"v1", "sunset"} -> TRUE
      [] kind = "create" -> Deployed("v1") /\ v1[w].state = "none"
      [] kind \in {"fund", "mintTo"} -> TRUE
      [] kind = "session" -> Deployed("v1") /\ session.state = "none"
      [] kind = "setup" -> v2[w].state = "none"
      [] kind = "migrate" -> Deployed("sunset") /\ v1[w].state = "open" /\ v2[w].state = "open"

\* The same bytes are sent again, or a new transaction with the same instructions:
\* what landed once is refused (AlreadyProcessed, AccountAlreadyInitialized).
Lands ==
    CASE kind \in {"v1", "sunset"} ->
           /\ binary' = [what |-> kind, since |-> slot] /\ UNCHANGED <<v1, v2, session>>
      [] kind = "create" ->
           /\ v1' = [v1 EXCEPT ![w].state = "open"] /\ UNCHANGED <<binary, v2, session>>
      [] kind = "fund" ->
           /\ v1' = [v1 EXCEPT ![w].sol = @ + 1] /\ UNCHANGED <<binary, v2, session>>
      [] kind = "mintTo" ->
           /\ v1' = [v1 EXCEPT ![w].tokens = @ + 1] /\ UNCHANGED <<binary, v2, session>>
      [] kind = "session" ->
           /\ session' = [state |-> "open", expires |-> since + SessionSlots]
           /\ UNCHANGED <<binary, v1, v2>>
      [] kind = "setup" ->
           /\ v2' = [v2 EXCEPT ![w].state = "open"] /\ UNCHANGED <<binary, v1, session>>
      [] kind = "migrate" ->
           /\ v2' = [v2 EXCEPT ![w] = [@ EXCEPT !.sol = @ + v1[w].sol, !.tokens = @ + v1[w].tokens]]
           /\ v1' = [v1 EXCEPT ![w] = Held(@)]
           /\ UNCHANGED <<binary, session>>

-----------------------------------------------------------------------------
(* The steps. *)

Done == at' = at + 1 /\ tries' = 0 /\ since' = slot /\ from' = 0
Throw(reason) == ended' = "thrown" /\ why' = <<kind, reason>>
Running == ended = "no" /\ at <= Len(Script)

\* An attempt that is answered: it landed, or the error is not transient.
Answered ==
    /\ Running /\ kind \in Sends
    /\ IF Accepts THEN Lands /\ Done /\ UNCHANGED <<saved, failed, ended, why>>
       ELSE /\ Throw(IF kind \in {"create", "session", "migrate"} /\ slot <= binary.since
                     THEN "not deployed" ELSE "refused")
            /\ UNCHANGED <<chain, at, tries, since, from, saved, failed>>
    /\ UNCHANGED <<slot, faults>>

Exhausted == tries + 1 >= TRIES

\* A transient error, with the transaction landed or not: retried, or thrown at the
\* last attempt.
Transient ==
    /\ Running /\ kind \in Retried /\ faults < MaxFaults
    /\ faults' = faults + 1
    /\ \/ kind \in Sends /\ Accepts /\ Lands
       \/ UNCHANGED chain
    /\ IF Exhausted THEN Throw("transient") /\ UNCHANGED tries
       ELSE tries' = tries + 1 /\ UNCHANGED <<ended, why>>
    /\ UNCHANGED <<slot, at, since, from, saved, failed>>

\* The scan and the plan: reads, answered.
Scan ==
    /\ Running /\ kind = "scan"
    /\ Done
    /\ UNCHANGED <<saved, failed, ended, why, slot, faults, chain>>

\* settle(): reads the slot until it is two further than at first.
Settle ==
    /\ Running /\ kind = "settle"
    /\ IF from = 0 THEN from' = slot /\ UNCHANGED <<at, tries, since>>
       ELSE slot >= from + 2 /\ Done
    /\ UNCHANGED <<saved, failed, ended, why, slot, faults, chain>>

Save ==
    /\ Running /\ kind = "save"
    /\ saved' = saved \cup {w} /\ Done
    /\ UNCHANGED <<failed, ended, why, slot, faults, chain>>

\* Mutant: the last check decides.
Checked_LastOnly(ok) == failed' = IF ok THEN {} ELSE {step}

Checked(ok) == failed' = IF ok THEN failed ELSE failed \cup {step}

\* The refusals are looked at by trying, the rest by reading.
Looks ==
    CASE kind = "refusal" -> Deployed("sunset")
      [] kind = "swap" -> TRUE
      [] kind = "checks" -> v1[w].state = "closed" /\ v2[w].sol >= 1 /\ v2[w].tokens = 1
      [] kind = "sessionCheck" -> session.state = "closed"

Check ==
    /\ Running /\ kind \in {"refusal", "swap", "checks", "sessionCheck"}
    /\ Checked(Looks) /\ Done
    /\ UNCHANGED <<saved, ended, why, slot, faults, chain>>

\* Not retried: a refusal that could not be tried and a balance that could not be read
\* fail the check, an account that could not be read ends the run.
CheckErrs ==
    /\ Running /\ kind \in {"refusal", "swap", "checks"} /\ faults < MaxFaults
    /\ faults' = faults + 1
    /\ \/ Checked(FALSE) /\ Done /\ UNCHANGED <<ended, why>>
       \/ kind = "checks" /\ Throw("transient") /\ UNCHANGED <<at, tries, since, from, failed>>
    /\ UNCHANGED <<saved, slot, chain>>

AwaitExpiry ==
    /\ Running /\ kind = "expiry" /\ slot > session.expires
    /\ Done
    /\ UNCHANGED <<saved, failed, ended, why, slot, faults, chain>>

\* close-expired-sessions, run once and not retried: a failed batch is only logged, a
\* failed read ends it with an error.
Keeper ==
    /\ Running /\ kind = "keeper"
    /\ session' = [session EXCEPT !.state = "closed"] /\ Done
    /\ UNCHANGED <<saved, failed, ended, why, slot, faults, binary, v1, v2>>

KeeperErrs ==
    /\ Running /\ kind = "keeper" /\ faults < MaxFaults
    /\ faults' = faults + 1
    /\ \/ Done /\ UNCHANGED <<ended, why>>
       \/ Throw("transient") /\ UNCHANGED <<at, tries, since, from>>
    /\ UNCHANGED <<saved, failed, slot, chain>>

Exit ==
    /\ ended = "no" /\ at > Len(Script)
    /\ ended' = IF failed = {} THEN "green" ELSE "red"
    /\ UNCHANGED <<at, tries, since, from, saved, failed, why, slot, faults, chain>>

Waits == (kind = "settle" /\ slot < from + 2) \/ (kind = "expiry" /\ slot <= session.expires)

SlotPasses ==
    /\ Running /\ (Waits \/ slot < since + MaxIdle)
    /\ slot' = slot + 1
    /\ UNCHANGED <<script, faults, chain>>

-----------------------------------------------------------------------------
Empty == [state |-> "none", sol |-> 0, tokens |-> 0]

Init ==
    /\ at = 1 /\ tries = 0 /\ since = 1 /\ from = 0 /\ saved = {} /\ failed = {}
    /\ ended = "no" /\ why = <<>> /\ slot = 1 /\ faults = 0
    /\ binary = [what |-> "none", since |-> 0]
    /\ v1 = [x \in Wallets |-> Empty] /\ v2 = [x \in Wallets |-> Empty]
    /\ session = [state |-> "none", expires |-> 0]

Step ==
    \/ Answered \/ Transient \/ Scan \/ Settle \/ Save \/ Check \/ CheckErrs
    \/ AwaitExpiry \/ Keeper \/ KeeperErrs \/ Exit

Next == Step \/ SlotPasses

Spec == Init /\ [][Next]_vars

-----------------------------------------------------------------------------
(* Properties. *)

\* However the run ends, no v1 wallet that holds anything is left without its key in
\* STATE_FILE: a fund or mintTo lands only after the key was written.
NothingStranded ==
    \A x \in Wallets :
      (ended # "no" /\ (v1[x].sol > 0 \/ v1[x].tokens > 0)) => x \in saved

\* A run that exits 0 has moved each wallet once, with exactly the tokens the
\* rehearsal meant to give it, and left nothing behind; duplicated sends end red.
GreenIsMigrated ==
    ended = "green" =>
      /\ session.state = "closed" /\ Deployed("sunset")
      /\ \A x \in Wallets : v1[x] = [state |-> "closed", sol |-> 0, tokens |-> 0]
                            /\ v2[x].sol >= 1 /\ v2[x].tokens = 1

\* However a rehearsal ends, it strands nothing; when it ends green, all moved.
RehearsalSafe == NothingStranded /\ GreenIsMigrated
=============================================================================
