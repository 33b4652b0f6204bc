------------------------------- MODULE Relayer -------------------------------
(***************************************************************************)
(* The devnet relayer: concurrent JSON-RPC handlers that vet, sign, send   *)
(* and confirm transactions as their fee payer, against a pool of RPC      *)
(* nodes that lag, fail, or forward a transaction without answering.       *)
(*                                                                         *)
(* A step is what a handler does between two awaits, one thing the cluster *)
(* does, or a restart of the relayer.  A read is answered by some node of  *)
(* the pool: it shows the chain as of a slot at most MaxLag behind.  One   *)
(* Tick is the two seconds between two blockhash polls, in which the       *)
(* cluster confirms one block or abandons it.  A transaction is abstracted *)
(* to the counter and the slot its passkey signed and to the slot of its   *)
(* blockhash.                                                              *)
(***************************************************************************)
EXTENDS Integers, FiniteSets

CONSTANTS
    Requests,       \* calls of signTransaction and signAndSendTransaction
    Txs,            \* transactions (the bytes a caller may send again)
    Sponsored,      \* the ones inspectTransaction lets through
    Modes,          \* "signTransaction", or what respond_after says
    Cost,           \* lamports a transaction takes out of the fee payer
    MaxLamports,    \* --max-lamports
    MaxTxPerHour,   \* --max-tx-per-hour
    Hour,           \* the rate window, in ticks
    Validity,       \* ticks a blockhash stays valid
    ConfirmTimeout, \* --confirm-timeout, in ticks
    WatchTimeout,   \* the 90 s of the background watch, in ticks
    SignedAheadMax, \* SIGNED_SLOT_AHEAD_MAX
    ReadRetries,    \* retries of the balance read (5)
    SimRetries,     \* retries of a simulation (5)
    CounterRetries, \* the ones a counter error may use (2)
    SendRetries,    \* retries of a send (4)
    MaxLag,         \* bound: how far behind a node of the pool may be
    MaxSlot,        \* bound: no block is produced past this slot
    MaxCrashes,     \* bound: restarts of the relayer
    NotSigned, NotLanded, Open

\* What a request can be answered, and what an answer says of a fate.
Answers ==
    {"refused", "rpc_behind", "internal", "over_cap", "rate_limited", "signed",
     "sim_failed", "stale_counter", "landed_failed", "sent", "ok", "send_failed",
     "failed", "expired"}
Verdicts == {"ok", "failed", "expired", "unsettled"}

ASSUME RelayerAssumption ==
    /\ IsFiniteSet(Requests) /\ IsFiniteSet(Txs)
    /\ Hour \in Nat /\ Validity \in Nat /\ ConfirmTimeout \in Nat
    /\ WatchTimeout \in Nat /\ SignedAheadMax \in Nat
    /\ MaxLag \in Nat /\ MaxSlot \in Nat /\ MaxTxPerHour \in Nat
    /\ NotSigned \notin Nat \cup [counter: Nat, slot: Nat, hash: Nat]
    /\ NotLanded \notin [slot: Nat, ok: BOOLEAN]
    /\ Open \notin Answers \cup (Txs \X Verdicts)

VARIABLES
    slot,       \* newest confirmed slot of the cluster
    tx,         \* what each transaction's passkey signed, or NotSigned
    landed,     \* where a transaction landed, or NotLanded
    sent,       \* transactions some node has forwarded
    req,        \* the handlers
    signedAt,   \* the last signatures: whose request, and when
    slotFloor,  \* newest slot one of the relayer's transactions confirmed in
    watching,   \* ticks left of each background watch, 0 when there is none
    life        \* restarts so far

cluster == <<slot, tx, landed, sent>>
vars == <<slot, tx, landed, sent, req, signedAt, slotFloor, watching, life>>

-----------------------------------------------------------------------------
(***************************************************************************)
(* The cluster as a node of the pool shows it.                             *)
(***************************************************************************)
Views == {v \in 0 .. slot : v >= slot - MaxLag}

Landed(t) == landed[t] # NotLanded

\* A block above the confirmed slot is processed and may still be abandoned.
Confirmed(t) == Landed(t) /\ landed[t].slot <= slot

Succeeded(v) == {t \in Txs : Landed(t) /\ landed[t].ok /\ landed[t].slot <= v}
CounterAt(v) == Cardinality(Succeeded(v))

\* What has left the fee payer's balance by slot v, as the number of lamports
\* in it.
SpentAt(v) ==
    Cardinality(UNION {{t} \X (1 .. Cost[t]) :
                          t \in {t \in Txs : Landed(t) /\ landed[t].slot <= v}})

BlockhashKnown(t, v) == v \in tx[t].hash .. tx[t].hash + Validity

\* How a bank at slot v answers a simulation or a preflight of t.
SimulatedAt(t, v) ==
    IF Landed(t) /\ landed[t].slot <= v THEN "processed"
    ELSE IF ~BlockhashKnown(t, v) THEN "blockhash"
    ELSE IF tx[t].counter # CounterAt(v) + 1 THEN "counter"
    ELSE "ok"

\* The statuses a node at slot v may give for t: it knows the confirmed
\* blocks up to v and may have seen the one being voted on.
StatusAt(t, v) ==
    IF ~Landed(t) THEN {"none"}
    ELSE IF landed[t].slot <= v THEN {"settled"}
    ELSE {"none", "processed"}

-----------------------------------------------------------------------------
(***************************************************************************)
(* The handlers.  A request's record holds what its closures hold:         *)
(*   pre   the slot its balance was read at                                *)
(*   min   minContextSlot of its simulation, then of what follows          *)
(*   tries retries used by the current loop, and ctries by counter errors  *)
(*   why   the error its simulation ended with                             *)
(*   left  ticks until the confirmation deadline                           *)
(*   expired, gap  consecutive "expired" answers, a tick since the last    *)
(*   resent  it was found sent before (explainIfAlreadySent)               *)
(* and what the properties speak of: the time it was signed (at), the      *)
(* slots its callers knew of when it came (due), and whether the newer     *)
(* banks were hidden from it (blind), by RPC errors or by other lag that   *)
(* used up the retries.                                                    *)
(***************************************************************************)
Request(pc, t, mode, at, l, due, blind, resent, answer) ==
    [pc |-> pc, tx |-> t, mode |-> mode, pre |-> 0, min |-> 0,
     tries |-> 0, ctries |-> 0, why |-> Open, left |-> 0, expired |-> 0,
     gap |-> FALSE, at |-> at, life |-> l, due |-> due, blind |-> blind,
     resent |-> resent, answer |-> answer]

Idle == Request("idle", Open, Open, NotSigned, 0, {}, FALSE, FALSE, Open)

Max2(a, b) == IF a >= b THEN a ELSE b

Set(r, new) == req' = [req EXCEPT ![r] = new]

\* A request answered earlier (respond_after "signed") keeps its answer.
Answered(q, a) ==
    Request("done", q.tx, q.mode, q.at, q.life, {}, q.blind, q.resent,
            IF q.answer = Open THEN a ELSE q.answer)

\* Slots that callers of this life were told their transaction confirmed in.
Told == {landed[req[r].tx].slot :
            r \in {r \in Requests : /\ req[r].answer = "ok"
                                   /\ ~req[r].resent
                                   /\ req[r].life = life}}

\* decodeParams and inspectTransaction, before anything is awaited.
Receive(r, t, mode) ==
    /\ req[r].pc = "idle"
    /\ tx[t] # NotSigned
    /\ LET q == Request("balance", t, mode, NotSigned, life, Told, FALSE, FALSE,
                        Open)
       IN  Set(r, IF t \in Sponsored THEN q ELSE Answered(q, "refused"))
    /\ UNCHANGED <<cluster, signedAt, slotFloor, watching, life>>

\* getBalance at or past slotFloor; a node behind it is asked again.
ReadBalance(r) ==
    /\ req[r].pc = "balance"
    /\ LET q == req[r] IN
       \/ \E v \in Views :
            Set(r, IF v >= slotFloor
                     THEN [q EXCEPT !.pc = "simulate", !.pre = v, !.tries = 0,
                                    !.min = slotFloor]
                   ELSE IF q.tries < ReadRetries
                     THEN [q EXCEPT !.tries = @ + 1]
                   ELSE Answered(q, "rpc_behind"))
       \/ Set(r, Answered(q, "internal"))
    /\ UNCHANGED <<cluster, signedAt, slotFloor, watching, life>>

\* Mutant: a signature an hour old is forgotten one tick early.
Recent_Early == {e \in signedAt : slot - e[2] < Hour}

Recent == {e \in signedAt : slot - e[2] <= Hour}

\* A simulation that passed, on a bank at slot v: the fee payer's loss, the
\* rate limit and the signature, with nothing awaited in between.
VetAndSign(r, v) ==
    LET q == req[r]
        loss == SpentAt(v) + Cost[q.tx] - SpentAt(q.pre)
        signed == [q EXCEPT !.at = slot, !.min = v, !.tries = 0, !.why = Open]
    IN  \/ /\ loss > MaxLamports
           /\ Set(r, Answered(q, "over_cap"))
           /\ UNCHANGED signedAt
        \/ /\ loss <= MaxLamports /\ Cardinality(Recent) >= MaxTxPerHour
           /\ Set(r, Answered(q, "rate_limited"))
           /\ signedAt' = Recent
        \/ /\ loss <= MaxLamports /\ Cardinality(Recent) < MaxTxPerHour
           /\ Set(r, CASE q.mode = "signTransaction" -> Answered(signed, "signed")
                       [] q.mode = "signed" -> [signed EXCEPT !.pc = "send",
                                                             !.answer = "signed"]
                       [] OTHER -> [signed EXCEPT !.pc = "send"])
           /\ signedAt' = Recent \cup {<<r, slot>>}

\* lagKind, and the bounds of the loop in checkSimulation.
Retried(q, kind) ==
    /\ q.tries < SimRetries
    /\ \/ kind \in {"slot", "blockhash"}
       \/ kind = "counter" /\ q.ctries < CounterRetries

\* Mutant: the slot the passkey signed is not asked for.
NextMin_HeadOnly(q, kind, head) ==
    IF kind = "slot" THEN q.min ELSE Max2(q.min, head)

\* minContextSlot of the next try: at least the head a node reported (0 when
\* getSlot failed) and, after a counter error, the slot the passkey signed.
NextMin(q, kind, head) ==
    IF kind = "slot" THEN q.min
    ELSE IF /\ kind = "counter" /\ head > 0
            /\ tx[q.tx].slot <= head + SignedAheadMax
      THEN Max2(Max2(q.min, head), tx[q.tx].slot)
      ELSE Max2(q.min, head)

SimKind(q, v) == IF v < q.min THEN "slot" ELSE SimulatedAt(q.tx, v)

\* One answer to simulateTransaction, and what checkSimulation makes of it.
Simulate(r) ==
    /\ req[r].pc = "simulate"
    /\ \E v \in Views :
         LET q == req[r]
             kind == SimKind(q, v)
             seen == IF kind = "slot" THEN q.why ELSE kind
         IN  \/ /\ Retried(q, kind)
                /\ \E head \in IF kind = "slot" THEN {0} ELSE Views \cup {0} :
                     Set(r, [q EXCEPT !.tries = @ + 1, !.why = seen,
                               !.ctries = IF kind = "counter" THEN @ + 1 ELSE @,
                               !.min = NextMin(q, kind, head),
                               !.blind = @ \/ (kind = "counter" /\ head = 0)])
                /\ UNCHANGED signedAt
             \/ /\ ~Retried(q, kind) /\ kind = "slot"
                /\ Set(r, Answered(q, "rpc_behind"))
                /\ UNCHANGED signedAt
             \/ /\ ~Retried(q, kind) /\ kind = "ok"
                /\ VetAndSign(r, v)
             \/ /\ ~Retried(q, kind) /\ kind \notin {"slot", "ok"}
                /\ Set(r, [q EXCEPT !.pc = "explain", !.why = kind,
                               !.blind = @ \/ (kind = "counter" /\ q.ctries = 0)])
                /\ UNCHANGED signedAt
    /\ UNCHANGED <<cluster, slotFloor, watching, life>>

\* An RPC error instead of a simulation: the last result there was stands in
\* for it, unless the request itself failed.
SimulateFails(r) ==
    /\ req[r].pc = "simulate"
    /\ LET q == req[r] IN
       \/ Set(r, Answered(q, "sim_failed"))
       \/ q.why # Open /\ Set(r, [q EXCEPT !.pc = "explain", !.blind = TRUE])
    /\ UNCHANGED <<cluster, signedAt, slotFloor, watching, life>>

\* waitConfirmed begins: the deadline is set.
Waiting(q) ==
    [q EXCEPT !.pc = "poll", !.left = ConfirmTimeout, !.expired = 0,
              !.gap = TRUE, !.tries = 0]

\* explainIfAlreadySent and what the caller is answered when these bytes have
\* landed: nothing is sent again.
Explain(r) ==
    /\ req[r].pc = "explain"
    /\ \E v \in Views : \E st \in StatusAt(req[r].tx, v) \cup {"error"} :
         LET q == [req[r] EXCEPT !.resent = TRUE, !.why = Open,
                                 !.min = slotFloor] IN
         Set(r, CASE st \in {"none", "error"} ->
                       Answered(req[r], IF req[r].why = "counter"
                                          THEN "stale_counter" ELSE "sim_failed")
                  [] OTHER ->
                       IF ~landed[q.tx].ok THEN Answered(q, "landed_failed")
                       ELSE IF q.mode = "signTransaction" THEN Answered(q, "signed")
                       ELSE IF q.mode # "confirmed" THEN Answered(q, "sent")
                       ELSE IF st = "settled" THEN Answered(q, "ok")
                       ELSE Waiting(q))
    /\ UNCHANGED <<cluster, signedAt, slotFloor, watching, life>>

\* The send is over: wait for the confirmation, or answer and watch.
Sent(r) ==
    LET q == req[r] IN
    IF q.mode = "confirmed"
      THEN Set(r, Waiting(q)) /\ UNCHANGED watching
      ELSE /\ Set(r, Answered(q, "sent"))
           /\ watching' = [watching EXCEPT ![q.tx] = WatchTimeout]

SendAgain(r) ==
    /\ Set(r, IF req[r].tries < SendRetries
                 THEN [req[r] EXCEPT !.tries = @ + 1]
                 ELSE [req[r] EXCEPT !.pc = "lookup", !.tries = 0])
    /\ UNCHANGED watching

\* One sendRawTransaction, with the preflight of a node at slot v.
Send(r) ==
    /\ req[r].pc = "send"
    /\ \E v \in Views :
         LET q == req[r]
             kind == SimKind(q, v)
         IN  \/ kind = "ok" /\ sent' = sent \cup {q.tx} /\ Sent(r)
             \/ kind = "processed" /\ UNCHANGED sent /\ Sent(r)
             \/ kind \in {"slot", "blockhash"} /\ UNCHANGED sent /\ SendAgain(r)
             \/ /\ kind = "counter" /\ UNCHANGED <<sent, watching>>
                /\ Set(r, [q EXCEPT !.pc = "lookup", !.tries = 0])
    /\ UNCHANGED <<slot, tx, landed, signedAt, slotFloor, life>>

\* No answer: the node may have forwarded the transaction or not.
SendUnanswered(r) ==
    /\ req[r].pc = "send"
    /\ \/ UNCHANGED sent
       \/ /\ \E v \in Views : SimKind(req[r], v) = "ok"
          /\ sent' = sent \cup {req[r].tx}
    /\ SendAgain(r)
    /\ UNCHANGED <<slot, tx, landed, signedAt, slotFloor, life>>

\* The last resort of sendWithLagRetry: does the cluster know the signature?
LookUp(r) ==
    /\ req[r].pc = "lookup"
    /\ \E v \in Views : \E st \in StatusAt(req[r].tx, v) \cup {"error"} :
         IF st \in {"none", "error"}
           THEN Set(r, Answered(req[r], "send_failed")) /\ UNCHANGED watching
           ELSE Sent(r)
    /\ UNCHANGED <<cluster, signedAt, slotFloor, life>>

-----------------------------------------------------------------------------
(***************************************************************************)
(* waitConfirmed.                                                          *)
(***************************************************************************)
\* Mutant: the floor is not raised.
Raised_Kept(s) == slotFloor

Raised(s) == Max2(slotFloor, s)

\* Mutant: a processed block counts as settled.
Settled_Processed(st) == st # "none"

Settled(st) == st = "settled"

\* One status poll.  Nothing seen: every two seconds the blockhash is asked
\* about.
Poll(r) ==
    /\ req[r].pc = "poll" /\ req[r].left > 0
    /\ \E v \in Views : \E st \in StatusAt(req[r].tx, v) :
         LET q == req[r] IN
         \/ /\ Settled(st) /\ landed[q.tx].ok
            /\ Set(r, Answered(q, "ok"))
            /\ slotFloor' = Raised(landed[q.tx].slot)
         \/ /\ Settled(st) /\ ~landed[q.tx].ok
            /\ Set(r, Answered(q, "failed"))
            /\ UNCHANGED slotFloor
         \/ /\ st = "processed"
            /\ Set(r, [q EXCEPT !.expired = 0])
            /\ UNCHANGED slotFloor
         \/ /\ st = "none" /\ q.gap
            /\ Set(r, [q EXCEPT !.pc = "valid"])
            /\ UNCHANGED slotFloor
    /\ UNCHANGED <<cluster, signedAt, watching, life>>

ExpiredEnough(n) == n >= 2

\* isBlockhashValid; an error, or a node behind min, leaves expired as it was.
AskBlockhash(r) ==
    /\ req[r].pc = "valid" /\ req[r].left > 0
    /\ LET q == [req[r] EXCEPT !.gap = FALSE]
           n == IF q.expired < 2 THEN q.expired + 1 ELSE 2
       IN  \/ \E v \in Views :
                /\ v >= q.min
                /\ Set(r, IF BlockhashKnown(q.tx, v)
                            THEN [q EXCEPT !.pc = "poll", !.expired = 0]
                          ELSE [q EXCEPT !.expired = n,
                                 !.pc = IF ExpiredEnough(n) THEN "last" ELSE "poll"])
           \/ Set(r, [q EXCEPT !.pc = "poll"])
    /\ UNCHANGED <<cluster, signedAt, slotFloor, watching, life>>

\* The last look in the status history before calling it expired.
LastLook(r) ==
    /\ req[r].pc = "last" /\ req[r].left > 0
    /\ \E v \in Views : \E st \in StatusAt(req[r].tx, v) \cup {"error"} :
         Set(r, CASE st = "none" -> Answered(req[r], "expired")
                  [] st = "error" -> [req[r] EXCEPT !.pc = "poll"]
                  [] OTHER -> [req[r] EXCEPT !.pc = "poll", !.expired = 0])
    /\ UNCHANGED <<cluster, signedAt, slotFloor, watching, life>>

\* Mutant: a call still running at the deadline is waited for.
OutOfTime_Never(q) == FALSE

OutOfTime(q) == q.left = 0

\* The deadline: answered with the signature, and watched from here on.
ConfirmTimesOut(r) ==
    /\ req[r].pc \in {"poll", "valid", "last"} /\ OutOfTime(req[r])
    /\ Set(r, Answered(req[r], "sent"))
    /\ watching' = [watching EXCEPT ![req[r].tx] = WatchTimeout]
    /\ UNCHANGED <<cluster, signedAt, slotFloor, life>>

\* A background watch sees its transaction settle.
Watch(t) ==
    /\ watching[t] > 0
    /\ \E v \in Views : \E st \in StatusAt(t, v) :
         \/ /\ Settled(st) /\ landed[t].ok
            /\ slotFloor' = Raised(landed[t].slot)
         \/ st # "none" /\ ~landed[t].ok /\ UNCHANGED slotFloor
    /\ watching' = [watching EXCEPT ![t] = 0]
    /\ UNCHANGED <<cluster, req, signedAt, life>>

-----------------------------------------------------------------------------
(***************************************************************************)
(* The caller, the cluster and the relayer's process.                      *)
(***************************************************************************)
\* A wallet reads its counter, a slot and a blockhash, and its passkey signs.
WalletSigns(t) ==
    /\ tx[t] = NotSigned
    /\ \E v \in Views : \E h \in {h \in Views : h <= v} :
         tx' = [tx EXCEPT ![t] = [counter |-> CounterAt(v) + 1, slot |-> v,
                                  hash |-> h]]
    /\ UNCHANGED <<slot, landed, sent, req, signedAt, slotFloor, watching, life>>

\* Whoever was given the signed transaction may send it, too.
CallerSends(t) ==
    /\ t \notin sent
    /\ \E r \in Requests : /\ req[r].tx = t
                          /\ req[r].answer \in {"ok", "sent", "signed"}
    /\ sent' = sent \cup {t}
    /\ UNCHANGED <<slot, tx, landed, req, signedAt, slotFloor, watching, life>>

\* A leader puts t into the block being voted on.
Land(t) ==
    /\ t \in sent /\ ~Landed(t) /\ slot < MaxSlot
    /\ BlockhashKnown(t, slot + 1)
    /\ landed' = [landed EXCEPT ![t] =
                    [slot |-> slot + 1,
                     ok |-> tx[t].counter = CounterAt(slot + 1) + 1]]
    /\ UNCHANGED <<slot, tx, sent, req, signedAt, slotFloor, watching, life>>

\* Two seconds pass: the block is confirmed, or abandoned with what was in it.
Tick ==
    /\ slot' = IF slot < MaxSlot THEN slot + 1 ELSE slot
    /\ \/ UNCHANGED landed
       \/ landed' = [t \in Txs |-> IF Landed(t) /\ ~Confirmed(t)
                                     THEN NotLanded ELSE landed[t]]
    /\ req' = [r \in Requests |->
                 [req[r] EXCEPT !.left = Max2(@ - 1, 0),
                                !.gap = @ \/ req[r].pc \in {"poll", "valid", "last"}]]
    /\ watching' = [t \in Txs |-> Max2(watching[t] - 1, 0)]
    /\ UNCHANGED <<tx, sent, signedAt, slotFloor, life>>

\* The process restarts: its memory is gone and its callers get no answer.
Restart ==
    /\ life < MaxCrashes
    /\ life' = life + 1
    /\ req' = [r \in Requests |->
                 IF req[r].pc \in {"idle", "done"} THEN req[r]
                 ELSE [req[r] EXCEPT !.pc = "done"]]
    /\ signedAt' = {} /\ slotFloor' = 0
    /\ watching' = [t \in Txs |-> 0]
    /\ UNCHANGED cluster

Init ==
    /\ slot = 0
    /\ tx = [t \in Txs |-> NotSigned]
    /\ landed = [t \in Txs |-> NotLanded]
    /\ sent = {}
    /\ req = [r \in Requests |-> Idle]
    /\ signedAt = {}
    /\ slotFloor = 0
    /\ watching = [t \in Txs |-> 0]
    /\ life = 0

\* What a handler does once its pending RPC call has ended, one way or another.
Handle(r) ==
    \/ ReadBalance(r) \/ Simulate(r) \/ SimulateFails(r) \/ Explain(r)
    \/ Send(r) \/ SendUnanswered(r) \/ LookUp(r)
    \/ Poll(r) \/ AskBlockhash(r) \/ LastLook(r) \/ ConfirmTimesOut(r)

Next ==
    \/ \E r \in Requests : Handle(r)
    \/ \E r \in Requests, t \in Txs, mode \in Modes : Receive(r, t, mode)
    \/ \E t \in Txs : WalletSigns(t) \/ CallerSends(t) \/ Land(t) \/ Watch(t)
    \/ Tick
    \/ Restart

Spec == Init /\ [][Next]_vars

\* Every RPC request gives up after RPC_TIMEOUT_MS, so a pending call ends
\* and its handler goes on; time passes.  Callers and leaders promise nothing.
Fairness == WF_vars(Tick) /\ \A r \in Requests : WF_vars(Handle(r))

FairSpec == Spec /\ Fairness

-----------------------------------------------------------------------------
\* takeRateSlot: in no window of Hour ticks does one life of the relayer sign
\* more than MaxTxPerHour transactions, however its handlers interleave.
RateBound ==
    \A s \in 0 .. MaxSlot, l \in 0 .. MaxCrashes :
        Cardinality({r \in Requests :
                        /\ req[r].at # NotSigned /\ req[r].life = l
                        /\ req[r].at \in s .. s + Hour}) <= MaxTxPerHour

\* checkSimulation: unless the newer banks were hidden from the relayer, by an
\* RPC error or by other lag that used up its retries, a caller told that its
\* counter is stale has really had it used by another transaction.
StaleCounterTrue ==
    \A r \in Requests :
        req[r].answer = "stale_counter" /\ ~req[r].blind =>
            tx[req[r].tx].counter <= CounterAt(slot)

\* slotFloor: a request that arrives after a caller was told "confirmed" is
\* judged by a bank that has executed that transaction, for its balance and
\* for its simulation.
ReadsOwnWrites ==
    \A r \in Requests :
        /\ req[r].pc = "simulate" =>
              \A told \in req[r].due : req[r].pre >= told
        /\ req[r].pc = "send" =>
              \A told \in req[r].due : req[r].min >= told

\* signAndSendTransaction: every request is answered, unless the process it
\* came to restarts.
EveryRequestAnswered ==
    \A r \in Requests : req[r].pc # "idle" ~> req[r].pc = "done"

-----------------------------------------------------------------------------
(***************************************************************************)
(* The promise, and how this state is seen by it.                          *)
(***************************************************************************)
FateOf(t) ==
    IF Confirmed(t) THEN (IF landed[t].ok THEN "ok" ELSE "failed")
    ELSE IF tx[t] # NotSigned /\ slot > tx[t].hash + Validity THEN "expired"
    ELSE "open"

ToldTo(r) ==
    IF req[r].answer = Open THEN Open
    ELSE <<req[r].tx, IF req[r].answer \in {"ok", "failed", "expired"}
                        THEN req[r].answer ELSE "unsettled">>

Promise == INSTANCE PaymasterService WITH
    fate <- [t \in Txs |-> FateOf(t)], told <- [r \in Requests |-> ToldTo(r)]

\* The relayer implements PaymasterService: what its answers say of a
\* transaction's fate (waitConfirmed: confirmed, failed, expired unlanded) is
\* true when they say it and stays true.
Service == Promise!Spec
=============================================================================
