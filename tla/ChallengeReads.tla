--------------------------- MODULE ChallengeReads ---------------------------
(***************************************************************************)
(* The reads a passkey challenge is built from                             *)
(* (sdk-kit/src/secp256r1/challengeReads.ts) as prepareExecute and the     *)
(* other prepare calls of client.ts make them: the authority's key and     *)
(* counter, the slot and, beside them, the protocol-fee reads, side by     *)
(* side, from RPC nodes that lag the chain by different amounts.  A read   *)
(* with a floor (minContextSlot) is retried while its node is behind it;   *)
(* the first read to fail stops the others.                                *)
(***************************************************************************)
EXTENDS Integers, FiniteSets

CONSTANTS
    Nodes,          \* RPC nodes behind the endpoint; each request meets any of them
    MaxSlot,
    Budget,         \* minContextSlotWaitMs, in units of the first backoff
    MaxBackoff,     \* the backoff's cap, in the same unit
    MaxFaults,      \* reads that fail for another reason
    Floors          \* the minContextSlot a caller may give, Absent included

Absent == -1
Challenge == {"key", "slot", "counter"}
Readers == Challenge \cup {"fee"}

VARIABLES
    slot,       \* the chain's confirmed slot
    spent,      \* the authority's counter at each slot
    view,       \* the slot each node has reached
    floor,      \* minContextSlot of the call
    call,       \* "none", "reading", "resolved" or "rejected"
    derived,    \* whether the authority's address is derived
    reader,     \* each read: its phase, retries, time waited and result
    stopped,    \* the group's isStopped
    faults

vars == <<slot, spent, view, floor, call, derived, reader, stopped, faults>>

Chain == <<slot, spent, view>>

Reader(phase) == [phase |-> phase, attempt |-> 1, waited |-> 0, result |-> Absent]
Settled(r) == reader[r].phase \in {"none", "done", "failed"}

-----------------------------------------------------------------------------
(* The chain and the nodes.                                                *)

(* A slot passes; a transaction of this authority may land in it.          *)
SlotPasses ==
    /\ slot < MaxSlot
    /\ slot' = slot + 1
    /\ \E spends \in {0, 1} :
          spent' = [s \in 0 .. MaxSlot |->
                       IF s > slot THEN spent[slot] + spends ELSE spent[s]]
    /\ UNCHANGED <<view, floor, call, derived, reader, stopped, faults>>

CatchUp(n) ==
    /\ view[n] < slot
    /\ view' = [view EXCEPT ![n] = @ + 1]
    /\ UNCHANGED <<slot, spent, floor, call, derived, reader, stopped, faults>>

-----------------------------------------------------------------------------
(* prepareExecute starts the fee read at once and derives the authority's  *)
(* address before the challenge reads; the other prepares read no fee.     *)
Prepare ==
    /\ call = "none"
    /\ call' = "reading"
    /\ floor' \in {f \in Floors : f <= slot}
    /\ \E fee \in BOOLEAN :
          reader' = [reader EXCEPT !["fee"] = Reader(IF fee THEN "asked" ELSE "none")]
    /\ UNCHANGED <<Chain, derived, stopped, faults>>

(* readChallengeInputs: nothing starts in a stopped group; what the caller *)
(* has (publicKeyBytes, slotOverride) is not read.                         *)
StartReads ==
    /\ call # "none" /\ ~derived
    /\ derived' = TRUE
    /\ \E have \in SUBSET {"key", "slot"} :
          reader' = [r \in Readers |->
                       IF r \in Challenge \ have /\ ~stopped THEN Reader("asked") ELSE reader[r]]
    /\ UNCHANGED <<Chain, floor, call, stopped, faults>>

Backoff(attempt) == IF attempt < MaxBackoff THEN attempt ELSE MaxBackoff

(* ChallengeReadGroup.run and stop: the first failure stops the group, and *)
(* whoever sleeps in it wakes; Promise.all rejects with it.                *)
Fail(r) ==
    /\ stopped' = TRUE
    /\ reader' = [q \in Readers |->
                    IF q = r \/ reader[q].phase = "asleep"
                    THEN [reader[q] EXCEPT !.phase = "failed"] ELSE reader[q]]
    /\ call' = "rejected"

ValueAt(r, n) == CASE r = "counter" -> spent[view[n]] + 1
                   [] r = "slot" -> view[n]
                   [] OTHER -> 0

Behind(r, n) == r \in Challenge /\ floor # Absent /\ view[n] < floor

(* Promise.all resolves with the last of them.                             *)
Finish(r, value) ==
    /\ reader' = [reader EXCEPT ![r].phase = "done", ![r].result = value]
    /\ call' = IF derived /\ \A q \in Readers \ {r} : reader[q].phase \in {"none", "done"}
               THEN "resolved" ELSE call
    /\ UNCHANGED stopped

(* atOrAfterContextSlot, when its node answers -32016: give up in a        *)
(* stopped group or past the budget, else sleep.                           *)
GivesUp(r) == stopped \/ reader[r].waited + Backoff(reader[r].attempt) > Budget

\* Mutant: past the budget the older answer is taken.
Answer_Older(r, n) ==
    /\ reader[r].phase = "asked"
    /\ IF ~Behind(r, n) \/ GivesUp(r) THEN Finish(r, ValueAt(r, n))
       ELSE /\ reader' = [reader EXCEPT ![r].phase = "asleep"]
            /\ UNCHANGED <<call, stopped>>
    /\ UNCHANGED <<Chain, floor, derived, faults>>

Answer(r, n) ==
    /\ reader[r].phase = "asked"
    /\ IF ~Behind(r, n) THEN Finish(r, ValueAt(r, n))
       ELSE IF GivesUp(r) THEN Fail(r)
       ELSE /\ reader' = [reader EXCEPT ![r].phase = "asleep"]
            /\ UNCHANGED <<call, stopped>>
    /\ UNCHANGED <<Chain, floor, derived, faults>>

(* Any other error: a transport fault, an account that is missing or of    *)
(* another kind.                                                           *)
AnswerFails(r) ==
    /\ reader[r].phase = "asked"
    /\ faults < MaxFaults
    /\ faults' = faults + 1
    /\ Fail(r)
    /\ UNCHANGED <<Chain, floor, derived>>

\* Mutant: every retry has the whole budget before it.
Wake_Afresh(r) ==
    /\ reader[r].phase = "asleep"
    /\ reader' = [reader EXCEPT ![r] = Reader("asked")]
    /\ UNCHANGED <<Chain, floor, call, derived, stopped, faults>>

(* The backoff ends: the read is sent again.                               *)
Wake(r) ==
    /\ reader[r].phase = "asleep"
    /\ reader' = [reader EXCEPT ![r].phase = "asked", ![r].attempt = @ + 1,
                                ![r].waited = @ + Backoff(reader[r].attempt)]
    /\ UNCHANGED <<Chain, floor, call, derived, stopped, faults>>

-----------------------------------------------------------------------------
Init ==
    /\ slot = 0 /\ spent = [s \in 0 .. MaxSlot |-> 0] /\ view = [n \in Nodes |-> 0]
    /\ floor = Absent /\ call = "none" /\ derived = FALSE
    /\ reader = [r \in Readers |-> Reader("none")]
    /\ stopped = FALSE /\ faults = 0

Read(r) == (\E n \in Nodes : Answer(r, n)) \/ AnswerFails(r) \/ Wake(r)

Next ==
    \/ SlotPasses \/ (\E n \in Nodes : CatchUp(n))
    \/ Prepare \/ StartReads
    \/ \E r \in Readers : Read(r)

Spec == Init /\ [][Next]_vars

(* Timers fire, and an RPC request is answered or fails; no node need ever *)
(* catch up.                                                               *)
FairSpec ==
    /\ Spec
    /\ WF_vars(StartReads)
    /\ \A r \in Readers : WF_vars(Read(r))

-----------------------------------------------------------------------------
(* With a floor at a slot where the authority's previous transaction is    *)
(* visible, the counter a challenge commits to is past every one spent up  *)
(* to it, and its slot is no older, whatever nodes answered the reads      *)
(* (readChallengeInputs, atOrAfterContextSlot): the signature cannot fail  *)
(* with SignatureReused (3006) for a transaction the caller knew of.       *)
SignedCounterUnspent ==
    (call = "resolved" /\ floor # Absent) =>
        /\ reader["counter"].result > spent[floor]
        /\ reader["slot"].phase = "done" => reader["slot"].result >= floor

(* A prepare always ends, and its reads with it: the wait for the floor is *)
(* bounded even when no node ever reaches it, and a rejected call leaves   *)
(* no timer behind.                                                        *)
EveryPrepareEnds ==
    (call = "reading") ~>
        (call \in {"resolved", "rejected"} /\ \A r \in Readers : Settled(r))
=============================================================================
