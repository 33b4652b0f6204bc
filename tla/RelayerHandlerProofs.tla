------------------------ MODULE RelayerHandlerProofs ------------------------
(***************************************************************************)
(* The inductive invariant of Relayer, and what each step of a handler     *)
(* makes of its own request: it stays good, it answers what is so, and it  *)
(* signs only when the rate window has room.                               *)
(***************************************************************************)
EXTENDS Relayer, TLAPS

\* The solver's time limit, for the steps that expand a whole request.
USE SMTT(20)

Confirming == {"poll", "valid", "last"}

Fields ==
    {"pc", "tx", "mode", "pre", "min", "tries", "ctries", "why", "left",
     "expired", "gap", "at", "life", "due", "blind", "resent", "answer"}

\* A bank never shows fewer transactions than an older one.
CountsUp ==
    \A v, w \in Nat :
        v <= w => /\ CounterAt(v) \in Nat /\ CounterAt(w) \in Nat
                  /\ CounterAt(v) <= CounterAt(w)

\* The cluster: what was signed names a slot it had reached and the counter
\* of that slot; what landed did so before its blockhash expired.
ClusterInv ==
    /\ slot \in 0 .. MaxSlot /\ slotFloor \in Nat /\ life \in Nat
    /\ tx \in [Txs -> [counter: Nat, slot: Nat, hash: Nat] \cup {NotSigned}]
    /\ landed \in [Txs -> [slot: Nat, ok: BOOLEAN] \cup {NotLanded}]
    /\ \A t \in Txs : tx[t] # NotSigned =>
         /\ tx[t].hash <= tx[t].slot /\ tx[t].slot <= slot
         /\ tx[t].counter = CounterAt(tx[t].slot) + 1
    /\ \A t \in Txs : Landed(t) =>
         /\ tx[t] # NotSigned
         /\ landed[t].slot <= slot + 1 /\ landed[t].slot <= MaxSlot
         /\ landed[t].slot \in tx[t].hash + 1 .. tx[t].hash + Validity
    /\ \A t \in sent : t \in Txs /\ tx[t] # NotSigned
    /\ CountsUp

\* The fields the handlers compute with.
WellFormed(q) ==
    /\ DOMAIN q = Fields
    /\ q.pre \in Nat /\ q.min \in Nat /\ q.ctries \in Nat /\ q.expired \in Nat
    /\ q.life \in Nat /\ q.at \in Nat \cup {NotSigned} /\ q.due \subseteq Nat

\* A handler that is at work belongs to this life, has a transaction, and
\* has signed nothing before it passed its simulation.
AtWork(q) ==
    /\ q.at # NotSigned => q.at <= slot
    /\ q.pc \in {"idle", "balance", "simulate", "explain"} =>
         q.at = NotSigned /\ ~q.resent
    /\ q.pc \in {"send", "lookup"} => ~q.resent
    /\ q.life <= life
    /\ q.pc \notin {"idle", "done"} => q.life = life
    /\ q.pc # "idle" => q.tx \in Txs /\ tx[q.tx] # NotSigned
    /\ q.pc = "idle" => q.answer = Open
    /\ q.answer # Open => q.pc = "done" \/ q.answer = "signed"

\* The slots its callers knew of bound every bank it is judged by.
OverFloor(q) ==
    /\ q.pc = "balance" => \A told \in q.due : told <= slotFloor
    /\ q.pc = "simulate" => \A told \in q.due : told <= q.pre /\ told <= q.min
    /\ q.pc = "send" => \A told \in q.due : told <= q.min

\* After one counter error the bank has to show the slot the passkey signed,
\* which no node of the pool is too far behind to be asked for.
Stale(q) ==
    MaxLag <= SignedAheadMax =>
    /\ q.pc = "balance" => q.ctries = 0
    /\ q.pc = "simulate" /\ q.ctries > 0 /\ ~q.blind => tx[q.tx].slot <= q.min
    /\ \/ q.pc = "explain" /\ q.why = "counter"
       \/ q.answer = "stale_counter"
       => q.blind \/ tx[q.tx].counter <= CounterAt(slot)

\* When "expired" may be counted: a node that is asked knows the blockhash,
\* or it is the first answer to a resent transaction.
Expiring(q) ==
    /\ q.pc \in {"send", "lookup"} => tx[q.tx].hash <= q.min
    /\ q.pc \in Confirming =>
         /\ IF q.resent THEN tx[q.tx].hash < MaxSlot ELSE tx[q.tx].hash <= q.min
         /\ q.expired >= 1 =>
              \/ slot > tx[q.tx].hash
              \/ q.resent /\ q.expired = 1 /\ ~q.gap
    /\ q.pc = "valid" => q.gap
    /\ q.pc = "last" /\ MaxLag <= 1 => slot > tx[q.tx].hash + Validity

Good(q) ==
    WellFormed(q) /\ AtWork(q) /\ OverFloor(q) /\ Stale(q) /\ Expiring(q)

\* "ok" is said of what is confirmed; the floor has been raised to it, unless
\* it was a resent transaction or another life that said so.
SaidOk(q) ==
    q.answer = "ok" =>
        /\ Confirmed(q.tx)
        /\ ~q.resent /\ q.life = life => landed[q.tx].slot <= slotFloor

\* The signatures of life l in the Hour from slot s.
SignedIn(s, l) ==
    {r \in Requests : /\ req[r].at # NotSigned /\ req[r].life = l
                      /\ req[r].at \in s .. s + Hour}

RateInv ==
    /\ signedAt \subseteq Requests \X Nat /\ IsFiniteSet(signedAt)
    /\ \A r \in Requests :
         /\ req[r].at # NotSigned /\ req[r].life = life
         /\ slot - req[r].at <= Hour
         => <<r, req[r].at>> \in signedAt
    /\ \A s \in Nat, l \in Nat : Cardinality(SignedIn(s, l)) <= MaxTxPerHour

RequestsInv ==
    /\ DOMAIN req = Requests
    /\ \A r \in Requests : Good(req[r]) /\ SaidOk(req[r])

IInv == ClusterInv /\ RequestsInv /\ RateInv

-----------------------------------------------------------------------------
\* What a passkey has signed, with the numbers it names.
LEMMA SignedTx ==
    ASSUME ClusterInv, NEW t \in Txs, tx[t] # NotSigned
    PROVE  /\ tx[t].counter \in Nat /\ tx[t].slot \in Nat /\ tx[t].hash \in Nat
           /\ slot \in Nat /\ tx[t].slot <= slot /\ tx[t].hash <= slot
           /\ tx[t].counter = CounterAt(tx[t].slot) + 1
<1>1. tx[t] \in [counter: Nat, slot: Nat, hash: Nat]
  BY DEF ClusterInv
<1>2. /\ tx[t].hash <= tx[t].slot /\ tx[t].slot <= slot /\ slot \in Nat
      /\ tx[t].counter = CounterAt(tx[t].slot) + 1
  BY RelayerAssumption DEF ClusterInv
<1> QED
  BY <1>1, <1>2

\* A bank at or past the slot a passkey signed that refuses its counter has
\* seen the counter used.
LEMMA RefusedIsUsed ==
    ASSUME ClusterInv, NEW t \in Txs, tx[t] # NotSigned, NEW v \in Nat,
           tx[t].slot <= v, v <= slot, tx[t].counter # CounterAt(v) + 1
    PROVE  tx[t].counter <= CounterAt(slot)
<1>1. /\ tx[t].slot \in Nat /\ tx[t].counter \in Nat /\ slot \in Nat
      /\ tx[t].counter = CounterAt(tx[t].slot) + 1
  BY SignedTx
<1>2. CounterAt(tx[t].slot) \in Nat /\ CounterAt(tx[t].slot) <= CounterAt(v)
  BY <1>1 DEF ClusterInv, CountsUp
<1>3. CounterAt(v) \in Nat /\ CounterAt(slot) \in Nat
      /\ CounterAt(v) <= CounterAt(slot)
  BY <1>1 DEF ClusterInv, CountsUp
<1> QED
  BY <1>1, <1>2, <1>3

-----------------------------------------------------------------------------
(***************************************************************************)
(* What a handler makes of its request.                                    *)
(***************************************************************************)
\* What a new answer says is so.
Tells(q, n) ==
    n.answer # q.answer =>
        /\ q.answer = Open /\ n.answer \in Answers
        /\ n.answer = "ok" => Confirmed(n.tx) /\ landed[n.tx].ok
        /\ n.answer = "failed" => Confirmed(n.tx) /\ ~landed[n.tx].ok
        /\ n.answer = "expired" /\ MaxLag <= 1 =>
             ~Confirmed(n.tx) /\ slot > tx[n.tx].hash + Validity

\* A step that signs nothing.
Quiet(q, n) ==
    Good(n) /\ n.tx = q.tx /\ n.life = q.life /\ Tells(q, n) /\ n.at = q.at

\* An answer that closes a request, when what it says is so; p is the request
\* as the step that answers leaves it.
LEMMA AnsweredGood ==
    ASSUME NEW q, Good(q), q.pc # "idle", q.pc # "done", NEW p,
           p.tx = q.tx, p.life = q.life, p.blind = q.blind, p.answer = q.answer,
           p.at = q.at \/ (p.at = slot /\ slot \in Nat),
           NEW a \in Answers,
           a = "stale_counter" /\ MaxLag <= SignedAheadMax =>
               q.blind \/ tx[q.tx].counter <= CounterAt(slot),
           a = "ok" => Confirmed(q.tx) /\ landed[q.tx].ok,
           a = "failed" => Confirmed(q.tx) /\ ~landed[q.tx].ok,
           a = "expired" /\ MaxLag <= 1 =>
               ~Confirmed(q.tx) /\ slot > tx[q.tx].hash + Validity
    PROVE  /\ Good(Answered(p, a)) /\ Tells(q, Answered(p, a))
           /\ Answered(p, a).tx = q.tx /\ Answered(p, a).life = q.life
           /\ Answered(p, a).at = p.at /\ Answered(p, a).resent = p.resent
           /\ Answered(p, a).answer = "ok" => a = "ok"
<1> DEFINE n == Answered(p, a)
<1>1. /\ DOMAIN n = Fields
      /\ n.pc = "done" /\ n.tx = q.tx /\ n.at = p.at /\ n.life = q.life
      /\ n.blind = q.blind /\ n.resent = p.resent
      /\ n.answer = (IF q.answer = Open THEN a ELSE q.answer)
      /\ n.pre = 0 /\ n.min = 0 /\ n.ctries = 0 /\ n.expired = 0 /\ n.due = {}
  BY DEF Answered, Request, Fields
<1> HIDE DEF n
<1>2. WellFormed(n)
  BY <1>1 DEF Good, WellFormed
<1>3. AtWork(n)
  BY <1>1 DEF Good, AtWork
<1>4. q.answer = Open \/ q.answer = "signed"
  BY DEF Good, AtWork
<1>5. OverFloor(n) /\ Stale(n) /\ Expiring(n)
  BY <1>1, <1>4 DEF OverFloor, Stale, Expiring, Confirming
<1>6. Tells(q, n)
  BY <1>1, <1>4 DEF Tells
<1> QED
  BY <1>1, <1>2, <1>3, <1>4, <1>5, <1>6 DEF Good, n

Outcome(r) ==
    \E n : /\ req' = [req EXCEPT ![r] = n]
           /\ Quiet(req[r], n)
           /\ n.answer = "ok" => n.resent \/ landed[n.tx].slot <= slotFloor'

\* An answer other than "ok" is an outcome.
LEMMA AnswerOutcome ==
    ASSUME NEW r \in Requests, Good(req[r]), NEW a \in Answers \ {"ok"},
           req[r].pc # "idle", req[r].pc # "done",
           a = "stale_counter" /\ MaxLag <= SignedAheadMax =>
               req[r].blind \/ tx[req[r].tx].counter <= CounterAt(slot),
           a = "failed" => Confirmed(req[r].tx) /\ ~landed[req[r].tx].ok,
           a = "expired" /\ MaxLag <= 1 =>
               ~Confirmed(req[r].tx) /\ slot > tx[req[r].tx].hash + Validity,
           Set(r, Answered(req[r], a))
    PROVE  Outcome(r)
<1> DEFINE q == req[r]
           n == Answered(q, a)
<1>1. Quiet(q, n) /\ (n.answer = "ok" => a = "ok")
  BY AnsweredGood DEF Quiet
<1>2. req' = [req EXCEPT ![r] = n]
  BY DEF Set
<1> QED
  BY Zenon, <1>1, <1>2 DEF Outcome

\* A step that changes neither what is answered nor when it was signed.
LEMMA StepOutcome ==
    ASSUME NEW r \in Requests, Good(req[r]), req[r].pc # "done", NEW n, Set(r, n),
           Good(n), n.tx = req[r].tx, n.life = req[r].life, n.at = req[r].at,
           n.answer = req[r].answer
    PROVE  Outcome(r)
<1>1. req' = [req EXCEPT ![r] = n]
  BY DEF Set
<1>2. n.answer # "ok"
  BY RelayerAssumption DEF Good, AtWork, Answers
<1> QED
  BY Zenon, <1>1, <1>2 DEF Outcome, Quiet, Tells

\* Counting a retry changes nothing that matters.
LEMMA RetryOutcome ==
    ASSUME NEW r \in Requests, Good(req[r]), req[r].pc # "done",
           Set(r, [req[r] EXCEPT !.tries = @ + 1])
    PROVE  Outcome(r)
<1> DEFINE q == req[r]
           n == [q EXCEPT !.tries = @ + 1]
<1>1. /\ DOMAIN n = Fields
      /\ n.pc = q.pc /\ n.pre = q.pre /\ n.min = q.min
      /\ n.tx = q.tx /\ n.ctries = q.ctries /\ n.expired = q.expired
      /\ n.at = q.at /\ n.life = q.life /\ n.due = q.due
      /\ n.blind = q.blind /\ n.resent = q.resent /\ n.answer = q.answer
      /\ n.why = q.why /\ n.gap = q.gap
  BY DEF Good, WellFormed, Fields
<1>2. Set(r, n)
  OBVIOUS
<1> HIDE DEF n
<1>3. Good(n)
  BY <1>1 DEF Good, WellFormed, AtWork, OverFloor, Stale, Expiring, Confirming
<1> QED
  BY <1>1, <1>2, <1>3, StepOutcome

\* The balance read puts the floor under what follows.
LEMMA ReadBalanceOutcome ==
    ASSUME IInv, NEW r \in Requests, ReadBalance(r)
    PROVE  Outcome(r)
<1> DEFINE q == req[r]
<1>1. Good(q) /\ q.pc = "balance" /\ slotFloor \in Nat
  BY Zenon DEF IInv, RequestsInv, ReadBalance, ClusterInv
<1>2. \A v \in Views : v \in Nat
  BY DEF Views
<1>3. ASSUME NEW v \in Views, v >= slotFloor,
             Set(r, [q EXCEPT !.pc = "simulate", !.pre = v, !.tries = 0,
                              !.min = slotFloor])
      PROVE  Outcome(r)
  <2> DEFINE n == [q EXCEPT !.pc = "simulate", !.pre = v, !.tries = 0,
                            !.min = slotFloor]
  <2>1. /\ DOMAIN n = Fields
        /\ n.pc = "simulate" /\ n.pre = v /\ n.min = slotFloor
        /\ n.tx = q.tx /\ n.ctries = q.ctries /\ n.expired = q.expired
        /\ n.at = q.at /\ n.life = q.life /\ n.due = q.due
        /\ n.blind = q.blind /\ n.resent = q.resent /\ n.answer = q.answer
    BY <1>1 DEF Good, WellFormed, Fields
  <2>2. Set(r, n)
    BY <1>3
  <2> HIDE DEF n
  <2>3. Good(n)
    BY <1>1, <1>2, <1>3, <2>1
       DEF Good, WellFormed, AtWork, OverFloor, Stale, Expiring, Confirming
  <2> QED
    BY <1>1, <2>1, <2>2, <2>3, StepOutcome
<1>4. ASSUME Set(r, [q EXCEPT !.tries = @ + 1])
      PROVE  Outcome(r)
  BY <1>1, <1>4, RetryOutcome
<1>5. ASSUME NEW a \in {"rpc_behind", "internal"}, Set(r, Answered(q, a))
      PROVE  Outcome(r)
  BY <1>1, <1>5, AnswerOutcome DEF Answers
<1> QED
  BY Zenon, <1>3, <1>4, <1>5 DEF ReadBalance

\* A step that signs: the window has room, and the signature is recorded.
Signs(r) ==
    \E n : /\ req' = [req EXCEPT ![r] = n]
           /\ Good(n) /\ n.tx = req[r].tx /\ n.life = req[r].life
           /\ Tells(req[r], n) /\ n.answer # "ok"
           /\ n.at = slot /\ req[r].at = NotSigned /\ n.life = life
           /\ Cardinality(Recent) < MaxTxPerHour
           /\ signedAt' = Recent \cup {<<r, slot>>}

\* A simulation that passed on a bank at slot v, which is at or past min.
LEMMA VetAndSignOutcome ==
    ASSUME IInv, NEW r \in Requests, req[r].pc = "simulate", NEW v \in Views,
           SimKind(req[r], v) = "ok", VetAndSign(r, v)
    PROVE  \/ Outcome(r) /\ signedAt' \in {signedAt, Recent}
           \/ Signs(r)
<1> DEFINE q == req[r]
           p == [q EXCEPT !.at = slot, !.min = v, !.tries = 0, !.why = Open]
<1>1. /\ Good(q) /\ q.at = NotSigned /\ slot \in Nat /\ q.min \in Nat
      /\ q.answer = Open \/ q.answer = "signed"
      /\ q.life = life
  <2>1. Good(q) /\ slot \in Nat
    BY DEF IInv, RequestsInv, ClusterInv
  <2> QED
    BY <2>1 DEF Good, AtWork, WellFormed
<1>2. v \in Nat /\ v >= q.min /\ tx[q.tx].hash <= v
  <2>1. v \in Nat
    BY DEF Views
  <2>2. ~(v < q.min) /\ BlockhashKnown(q.tx, v)
    BY DEF SimKind, SimulatedAt
  <2> QED
    BY <1>1, <2>1, <2>2 DEF BlockhashKnown
<1>3. ASSUME NEW a \in {"over_cap", "rate_limited"}, Set(r, Answered(q, a))
      PROVE  Outcome(r)
  BY <1>1, <1>3, AnswerOutcome DEF Answers
<1>4. ASSUME Set(r, Answered(p, "signed")), Cardinality(Recent) < MaxTxPerHour,
             signedAt' = Recent \cup {<<r, slot>>}
      PROVE  Signs(r)
  <2> DEFINE n == Answered(p, "signed")
  <2>1. /\ p.tx = q.tx /\ p.life = q.life /\ p.blind = q.blind
        /\ p.answer = q.answer /\ p.at = slot
    BY <1>1 DEF Good, WellFormed, Fields
  <2>2. "signed" \in Answers
    BY DEF Answers
  <2> HIDE DEF p
  <2>3. /\ Good(n) /\ Tells(q, n) /\ n.tx = q.tx /\ n.life = q.life
        /\ n.at = p.at /\ n.resent = p.resent
        /\ n.answer = "ok" => "signed" = "ok"
    BY <1>1, <2>1, <2>2, AnsweredGood
  <2>4. req' = [req EXCEPT ![r] = n]
    BY <1>4 DEF Set
  <2> HIDE DEF n
  <2> QED
    BY Zenon, <1>1, <1>4, <2>1, <2>3, <2>4 DEF Signs
<1>5. ASSUME NEW a \in {q.answer, "signed"},
             Set(r, [p EXCEPT !.pc = "send", !.answer = a]),
             Cardinality(Recent) < MaxTxPerHour,
             signedAt' = Recent \cup {<<r, slot>>}
      PROVE  Signs(r)
  <2> DEFINE n == [p EXCEPT !.pc = "send", !.answer = a]
  <2>1. /\ DOMAIN n = Fields
        /\ n.pc = "send" /\ n.pre = q.pre /\ n.min = v
        /\ n.tx = q.tx /\ n.ctries = q.ctries /\ n.expired = q.expired
        /\ n.at = slot /\ n.life = q.life /\ n.due = q.due
        /\ n.blind = q.blind /\ n.resent = q.resent /\ n.answer = a
    BY <1>1 DEF Good, WellFormed, Fields
  <2>2. req' = [req EXCEPT ![r] = n]
    BY <1>5 DEF Set
  <2> HIDE DEF n
  <2>3. a = Open \/ a = "signed"
    BY <1>1
  <2>4. Good(n)
    <3>1. WellFormed(n) /\ OverFloor(n)
      BY <1>1, <1>2, <2>1 DEF Good, WellFormed, OverFloor
    <3>2. AtWork(n) /\ Stale(n)
      BY <1>1, <2>1, <2>3, RelayerAssumption DEF Good, AtWork, Stale, Answers
    <3>3. Expiring(n)
      BY <1>2, <2>1 DEF Expiring, Confirming
    <3> QED
      BY Zenon, <3>1, <3>2, <3>3 DEF Good
  <2>5. Tells(q, n) /\ n.answer # "ok"
    BY <1>1, <2>1, <2>3, RelayerAssumption DEF Tells, Answers
  <2> QED
    BY Zenon, <1>1, <1>5, <2>1, <2>2, <2>4, <2>5 DEF Signs
<1>6. [p EXCEPT !.pc = "send"] = [p EXCEPT !.pc = "send", !.answer = q.answer]
  BY Zenon, <1>1 DEF Good, WellFormed, Fields
<1> QED
  BY Zenon, <1>3, <1>4, <1>5, <1>6 DEF VetAndSign

\* One answer to a simulation.
LEMMA SimulateOutcome ==
    ASSUME IInv, NEW r \in Requests, Simulate(r)
    PROVE  \/ Outcome(r) /\ signedAt' \in {signedAt, Recent}
           \/ Signs(r)
<1> DEFINE q == req[r]
<1>1. /\ Good(q) /\ q.pc = "simulate" /\ slot \in Nat /\ q.min \in Nat
      /\ q.ctries \in Nat /\ q.tx \in Txs /\ tx[q.tx] # NotSigned
      /\ tx[q.tx].slot \in Nat /\ tx[q.tx].slot <= slot
  <2>1. Good(q) /\ slot \in Nat
    BY DEF IInv, RequestsInv, ClusterInv
  <2>2. q.pc = "simulate"
    BY Zenon DEF Simulate
  <2>3. /\ q.min \in Nat /\ q.ctries \in Nat
        /\ q.tx \in Txs /\ tx[q.tx] # NotSigned
    BY <2>1, <2>2 DEF Good, WellFormed, AtWork
  <2> QED
    BY <2>1, <2>2, <2>3 DEF IInv, ClusterInv
<1>2. ASSUME NEW kind, NEW seen, NEW head \in Views \cup {0},
             Set(r, [q EXCEPT !.tries = @ + 1, !.why = seen,
                       !.ctries = IF kind = "counter" THEN @ + 1 ELSE @,
                       !.min = NextMin(q, kind, head),
                       !.blind = @ \/ (kind = "counter" /\ head = 0)])
      PROVE  Outcome(r)
  <2> DEFINE n == [q EXCEPT !.tries = @ + 1, !.why = seen,
                       !.ctries = IF kind = "counter" THEN @ + 1 ELSE @,
                       !.min = NextMin(q, kind, head),
                       !.blind = @ \/ (kind = "counter" /\ head = 0)]
  <2>1. /\ DOMAIN n = Fields
        /\ n.pc = "simulate" /\ n.pre = q.pre /\ n.min = NextMin(q, kind, head)
        /\ n.tx = q.tx /\ n.expired = q.expired
        /\ n.ctries = (IF kind = "counter" THEN q.ctries + 1 ELSE q.ctries)
        /\ n.at = q.at /\ n.life = q.life /\ n.due = q.due
        /\ n.blind = (q.blind \/ (kind = "counter" /\ head = 0))
        /\ n.resent = q.resent /\ n.answer = q.answer
    BY <1>1 DEF Good, WellFormed, Fields
  <2>2. Set(r, n)
    BY <1>2
  <2> HIDE DEF n
  <2>3. head \in Nat /\ (head # 0 => head >= slot - MaxLag)
    BY <1>1 DEF Views
  <2>4. NextMin(q, kind, head) \in Nat /\ NextMin(q, kind, head) >= q.min
    BY <1>1, <2>3 DEF NextMin, Max2
  <2>5. kind = "counter" /\ head # 0 /\ MaxLag <= SignedAheadMax =>
           NextMin(q, kind, head) >= tx[q.tx].slot
    BY <1>1, <2>3, RelayerAssumption DEF NextMin, Max2
  <2>6. Stale(n)
    <3> SUFFICES ASSUME MaxLag <= SignedAheadMax PROVE Stale(n)
      BY DEF Stale
    <3>1. q.answer # "stale_counter"
      BY <1>1, RelayerAssumption DEF Good, AtWork, Answers
    <3>2. q.ctries > 0 /\ ~q.blind => tx[q.tx].slot <= q.min
      BY <1>1 DEF Good, Stale
    <3>3. ~n.blind => ~q.blind /\ (kind = "counter" => head # 0)
      BY Zenon, <2>1
    <3>4. n.ctries > 0 /\ ~n.blind => tx[n.tx].slot <= n.min
      BY <1>1, <2>1, <2>4, <2>5, <3>2, <3>3
    <3> QED
      BY <2>1, <3>1, <3>4 DEF Stale
  <2>7. OverFloor(n)
    BY <1>1, <2>1, <2>4 DEF Good, WellFormed, OverFloor
  <2>8. Good(n)
    <3>1. WellFormed(n)
      BY <1>1, <2>1, <2>4 DEF Good, WellFormed
    <3>2. AtWork(n)
      BY <1>1, <2>1 DEF Good, AtWork
    <3>3. Expiring(n)
      BY <2>1 DEF Expiring, Confirming
    <3> QED
      BY <2>6, <2>7, <3>1, <3>2, <3>3 DEF Good
  <2> QED
    BY <1>1, <2>1, <2>2, <2>8, StepOutcome
<1>3. ASSUME NEW v \in Views, NEW kind, kind = SimKind(q, v), kind # "slot",
             Set(r, [q EXCEPT !.pc = "explain", !.why = kind,
                       !.blind = @ \/ (kind = "counter" /\ q.ctries = 0)])
      PROVE  Outcome(r)
  <2> DEFINE n == [q EXCEPT !.pc = "explain", !.why = kind,
                       !.blind = @ \/ (kind = "counter" /\ q.ctries = 0)]
  <2>1. /\ DOMAIN n = Fields
        /\ n.pc = "explain" /\ n.pre = q.pre /\ n.min = q.min /\ n.why = kind
        /\ n.tx = q.tx /\ n.ctries = q.ctries /\ n.expired = q.expired
        /\ n.at = q.at /\ n.life = q.life /\ n.due = q.due
        /\ n.blind = (q.blind \/ (kind = "counter" /\ q.ctries = 0))
        /\ n.resent = q.resent /\ n.answer = q.answer
    BY <1>1 DEF Good, WellFormed, Fields
  <2>2. Set(r, n)
    BY <1>3
  <2> HIDE DEF n
  <2>3. v \in Nat /\ v <= slot /\ v >= q.min
    BY <1>1, <1>3 DEF Views, SimKind
  <2>4. ASSUME kind = "counter", q.ctries # 0, ~q.blind, MaxLag <= SignedAheadMax
        PROVE  tx[q.tx].counter <= CounterAt(slot)
    <3>1. tx[q.tx].slot <= v
      BY <1>1, <2>3, <2>4 DEF Good, Stale
    <3>2. tx[q.tx].counter # CounterAt(v) + 1
      BY <1>3, <2>4 DEF SimKind, SimulatedAt
    <3> QED
      BY <1>1, <2>3, <3>1, <3>2, RefusedIsUsed DEF IInv
  <2>5. Stale(n)
    BY Zenon, <1>1, <2>1, <2>4, RelayerAssumption DEF Good, AtWork, Stale, Answers
  <2>6. Good(n)
    <3>1. WellFormed(n)
      BY <1>1, <2>1 DEF Good, WellFormed
    <3>2. OverFloor(n)
      BY Zenon, <1>1, <2>1 DEF Good, OverFloor
    <3>3. AtWork(n) /\ Expiring(n)
      BY <1>1, <2>1 DEF Good, AtWork, Expiring, Confirming
    <3> QED
      BY Zenon, <2>5, <3>1, <3>2, <3>3 DEF Good
  <2> QED
    BY Zenon, <1>1, <2>1, <2>2, <2>6, StepOutcome
<1>4. ASSUME Set(r, Answered(q, "rpc_behind"))
      PROVE  Outcome(r)
  BY <1>1, <1>4, AnswerOutcome DEF Answers
<1>5. ASSUME NEW v \in Views, SimKind(q, v) = "ok", VetAndSign(r, v)
      PROVE  \/ Outcome(r) /\ signedAt' \in {signedAt, Recent}
             \/ Signs(r)
  BY <1>1, <1>5, VetAndSignOutcome
<1> QED
  BY Zenon, <1>2, <1>3, <1>4, <1>5 DEF Simulate

\* An RPC error in place of a simulation.
LEMMA SimulateFailsOutcome ==
    ASSUME IInv, NEW r \in Requests, SimulateFails(r)
    PROVE  Outcome(r)
<1> DEFINE q == req[r]
<1>1. Good(q) /\ q.pc = "simulate"
  BY DEF IInv, RequestsInv, SimulateFails
<1>2. ASSUME Set(r, Answered(q, "sim_failed"))
      PROVE  Outcome(r)
  BY <1>1, <1>2, AnswerOutcome DEF Answers
<1>3. ASSUME Set(r, [q EXCEPT !.pc = "explain", !.blind = TRUE])
      PROVE  Outcome(r)
  <2> DEFINE n == [q EXCEPT !.pc = "explain", !.blind = TRUE]
  <2>1. /\ DOMAIN n = Fields
        /\ n.pc = "explain" /\ n.pre = q.pre /\ n.min = q.min
        /\ n.tx = q.tx /\ n.ctries = q.ctries /\ n.expired = q.expired
        /\ n.at = q.at /\ n.life = q.life /\ n.due = q.due
        /\ n.blind = TRUE /\ n.resent = q.resent /\ n.answer = q.answer
    BY <1>1 DEF Good, WellFormed, Fields
  <2>2. Set(r, n)
    BY <1>3
  <2> HIDE DEF n
  <2>3. Good(n)
    BY <1>1, <2>1
       DEF Good, WellFormed, AtWork, OverFloor, Stale, Expiring, Confirming
  <2> QED
    BY <1>1, <2>1, <2>2, <2>3, StepOutcome
<1> QED
  BY <1>2, <1>3 DEF SimulateFails

\* Bytes that fail to simulate because they have landed already.
LEMMA ExplainOutcome ==
    ASSUME IInv, NEW r \in Requests, Explain(r)
    PROVE  Outcome(r)
<1> DEFINE q == req[r]
           p == [q EXCEPT !.resent = TRUE, !.why = Open, !.min = slotFloor]
<1>1. Good(q) /\ q.pc = "explain" /\ slotFloor \in Nat
  BY DEF IInv, RequestsInv, Explain, ClusterInv
<1>2. /\ p.tx = q.tx /\ p.life = q.life /\ p.blind = q.blind
      /\ p.answer = q.answer /\ p.at = q.at /\ p.resent = TRUE
      /\ p.mode = q.mode
  BY <1>1 DEF Good, WellFormed, Fields
<1>3. PICK v, st :
         /\ v \in Views /\ st \in StatusAt(q.tx, v) \cup {"error"}
         /\ Set(r, CASE st \in {"none", "error"} ->
                          Answered(q, IF q.why = "counter"
                                        THEN "stale_counter" ELSE "sim_failed")
                     [] OTHER ->
                          IF ~landed[p.tx].ok THEN Answered(p, "landed_failed")
                          ELSE IF p.mode = "signTransaction"
                            THEN Answered(p, "signed")
                          ELSE IF p.mode # "confirmed" THEN Answered(p, "sent")
                          ELSE IF st = "settled" THEN Answered(p, "ok")
                          ELSE Waiting(p))
  BY DEF Explain
<1>4. CASE st \in {"none", "error"}
  <2>1. MaxLag <= SignedAheadMax /\ q.why = "counter" =>
           q.blind \/ tx[q.tx].counter <= CounterAt(slot)
    BY <1>1 DEF Good, Stale
  <2>2. PICK a \in {"stale_counter", "sim_failed"} :
           Set(r, Answered(q, a)) /\ (a = "stale_counter" => q.why = "counter")
    BY <1>3, <1>4
  <2> QED
    BY <1>1, <2>1, <2>2, AnswerOutcome DEF Answers
<1>5. CASE st \notin {"none", "error"}
  <2>1. /\ Landed(q.tx)
        /\ st = "settled" => landed[q.tx].slot <= v
    BY <1>3, <1>5 DEF StatusAt
  <2>2. q.tx \in Txs /\ tx[q.tx] # NotSigned
    BY <1>1 DEF Good, AtWork
  <2>3. /\ landed[q.tx].slot \in Nat /\ landed[q.tx].slot <= MaxSlot
        /\ tx[q.tx].hash \in Nat /\ landed[q.tx].slot > tx[q.tx].hash
        /\ slot \in Nat
    BY <2>1, <2>2, RelayerAssumption DEF IInv, ClusterInv, Landed
  <2>4. st = "settled" => Confirmed(q.tx)
    BY <1>3, <2>1, <2>3 DEF Views, Confirmed
  <2>5. ASSUME NEW a \in {"landed_failed", "signed", "sent", "ok"},
               Set(r, Answered(p, a)),
               a = "ok" => landed[q.tx].ok /\ st = "settled"
        PROVE  Outcome(r)
    <3> DEFINE n == Answered(p, a)
    <3>1. a \in Answers
      BY DEF Answers
    <3> HIDE DEF p
    <3>2. /\ Good(n) /\ Tells(q, n) /\ n.tx = q.tx /\ n.life = q.life
          /\ n.at = p.at /\ n.resent = p.resent
          /\ n.answer = "ok" => a = "ok"
      BY <1>1, <1>2, <2>4, <2>5, <3>1, AnsweredGood
    <3>3. req' = [req EXCEPT ![r] = n]
      BY <2>5 DEF Set
    <3> HIDE DEF n
    <3> QED
      BY Zenon, <1>2, <3>2, <3>3 DEF Outcome, Quiet
  <2>6. ASSUME Set(r, Waiting(p))
        PROVE  Outcome(r)
    <3> DEFINE n == Waiting(p)
    <3>1. /\ DOMAIN n = Fields
          /\ n.pc = "poll" /\ n.pre = q.pre /\ n.min = slotFloor
          /\ n.tx = q.tx /\ n.ctries = q.ctries /\ n.expired = 0
          /\ n.at = q.at /\ n.life = q.life /\ n.due = q.due
          /\ n.blind = q.blind /\ n.resent = TRUE /\ n.answer = q.answer
      BY Zenon, <1>1 DEF Good, WellFormed, Fields, Waiting
    <3>2. Set(r, n)
      BY <2>6
    <3> HIDE DEF n
    <3>3. tx[q.tx].hash < MaxSlot
      BY <2>3, RelayerAssumption
    <3>4. Good(n)
      BY <1>1, <3>1, <3>3
         DEF Good, WellFormed, AtWork, OverFloor, Stale, Expiring, Confirming
    <3> QED
      BY <1>1, <3>1, <3>2, <3>4, StepOutcome
  <2> HIDE DEF p
  <2> QED
    BY <1>2, <1>3, <1>5, <2>5, <2>6
<1> QED
  BY <1>4, <1>5

\* A handler that has sent, and goes on waiting for its transaction: it may
\* count "expired" afresh, or drop its gap, and keeps the rest.
Waits(q, n) ==
    /\ q.pc \in {"send", "lookup", "poll", "valid", "last"}
    /\ DOMAIN n = Fields /\ n.pc \in {"lookup", "poll", "valid"}
    /\ n.pc = "lookup" => q.pc = "send"
    /\ n.pc = "valid" => n.gap
    /\ \/ n.expired = 0
       \/ n.expired = q.expired /\ n.pc = "lookup"
       \/ n.expired = q.expired /\ q.pc \in Confirming /\ (n.gap => q.gap)
    /\ n.pre = q.pre /\ n.min = q.min /\ n.tx = q.tx /\ n.ctries = q.ctries
    /\ n.at = q.at /\ n.life = q.life /\ n.due = q.due /\ n.blind = q.blind
    /\ n.resent = q.resent /\ n.answer = q.answer

\* Waiting on is an outcome.
LEMMA WaitOutcome ==
    ASSUME NEW r \in Requests, Good(req[r]), NEW n, Set(r, n), Waits(req[r], n)
    PROVE  Outcome(r)
<1> DEFINE q == req[r]
<1>1. WellFormed(n) /\ AtWork(n)
  BY DEF Good, WellFormed, AtWork, Waits
<1>2. q.answer # "stale_counter"
  BY RelayerAssumption DEF Good, AtWork, Answers, Waits
<1>3. OverFloor(n) /\ Stale(n)
  BY <1>2 DEF OverFloor, Stale, Waits
<1>4. Expiring(n)
  BY DEF Good, AtWork, Expiring, Confirming, Waits
<1>5. Good(n) /\ q.pc # "done"
  BY Zenon, <1>1, <1>3, <1>4 DEF Good, Waits
<1> QED
  BY Zenon, <1>5, StepOutcome DEF Waits

\* The end of a send: wait for the confirmation, or answer and watch.
LEMMA SentOutcome ==
    ASSUME NEW r \in Requests, Good(req[r]), req[r].pc \in {"send", "lookup"},
           Sent(r)
    PROVE  Outcome(r)
<1> DEFINE q == req[r]
<1>1. ASSUME Set(r, Waiting(q))
      PROVE  Outcome(r)
  <2>1. Waits(q, Waiting(q))
    BY DEF Good, WellFormed, Fields, Waiting, Waits, Confirming
  <2> QED
    BY Zenon, <1>1, <2>1, WaitOutcome
<1>2. ASSUME Set(r, Answered(q, "sent"))
      PROVE  Outcome(r)
  BY <1>2, AnswerOutcome DEF Answers
<1> QED
  BY <1>1, <1>2 DEF Sent

\* A send that is tried again, or given up for a look at the signature.
LEMMA SendAgainOutcome ==
    ASSUME NEW r \in Requests, Good(req[r]), req[r].pc = "send",
           \/ SendAgain(r)
           \/ Set(r, [req[r] EXCEPT !.pc = "lookup", !.tries = 0])
    PROVE  Outcome(r)
<1> DEFINE q == req[r]
<1>1. ASSUME Set(r, [q EXCEPT !.pc = "lookup", !.tries = 0])
      PROVE  Outcome(r)
  <2>1. Waits(q, [q EXCEPT !.pc = "lookup", !.tries = 0])
    BY DEF Good, WellFormed, Fields, Waits, Confirming
  <2> QED
    BY Zenon, <1>1, <2>1, WaitOutcome
<1> QED
  BY <1>1, RetryOutcome DEF SendAgain

\* A send, answered or not, and the look that follows it.
LEMMA SendOutcome ==
    ASSUME IInv, NEW r \in Requests,
           Send(r) \/ SendUnanswered(r) \/ LookUp(r)
    PROVE  Outcome(r)
<1>1. Good(req[r]) /\ req[r].pc \in {"send", "lookup"}
  BY DEF IInv, RequestsInv, Send, SendUnanswered, LookUp
<1>2. CASE Send(r)
  BY Zenon, <1>1, <1>2, SentOutcome, SendAgainOutcome DEF Send
<1>3. CASE SendUnanswered(r)
  BY Zenon, <1>1, <1>3, SendAgainOutcome DEF SendUnanswered
<1>4. CASE LookUp(r)
  BY <1>1, <1>4, SentOutcome, AnswerOutcome DEF LookUp, Answers
<1> QED
  BY <1>2, <1>3, <1>4

\* A status poll: what it answers is confirmed, and the floor is raised to it.
LEMMA PollOutcome ==
    ASSUME IInv, NEW r \in Requests, Poll(r)
    PROVE  Outcome(r)
<1> DEFINE q == req[r]
<1>1. Good(q) /\ q.pc = "poll"
  BY DEF IInv, RequestsInv, Poll
<1>2. ASSUME NEW v \in Views, "settled" \in StatusAt(q.tx, v)
      PROVE  Confirmed(q.tx) /\ landed[q.tx].slot \in Nat /\ slotFloor \in Nat
  <2>1. Landed(q.tx) /\ landed[q.tx].slot <= v
    BY <1>2 DEF StatusAt
  <2>2. q.tx \in Txs
    BY <1>1 DEF Good, AtWork
  <2>3. landed[q.tx].slot \in Nat /\ slotFloor \in Nat /\ slot \in Nat
    BY <2>1, <2>2, RelayerAssumption DEF IInv, ClusterInv, Landed
  <2>4. v \in 0 .. slot
    BY DEF Views
  <2> QED
    BY <2>1, <2>3, <2>4 DEF Confirmed
<1>3. ASSUME NEW v \in Views, "settled" \in StatusAt(q.tx, v), landed[q.tx].ok,
             Set(r, Answered(q, "ok")), slotFloor' = Raised(landed[q.tx].slot)
      PROVE  Outcome(r)
  <2> DEFINE n == Answered(q, "ok")
  <2>1. "ok" \in Answers /\ Confirmed(q.tx) /\ landed[q.tx].ok
    BY Zenon, <1>2, <1>3 DEF Answers
  <2>2. Quiet(q, n)
    BY <1>1, <2>1, AnsweredGood DEF Quiet
  <2>3. landed[n.tx].slot <= slotFloor'
    BY <1>2, <1>3, <2>2 DEF Raised, Max2, Quiet
  <2>4. req' = [req EXCEPT ![r] = n]
    BY <1>3 DEF Set
  <2> QED
    BY Zenon, <2>2, <2>3, <2>4 DEF Outcome
<1>4. ASSUME NEW v \in Views, "settled" \in StatusAt(q.tx, v), ~landed[q.tx].ok,
             Set(r, Answered(q, "failed"))
      PROVE  Outcome(r)
  BY <1>1, <1>2, <1>4, AnswerOutcome DEF Answers
<1>5. ASSUME Set(r, [q EXCEPT !.expired = 0])
      PROVE  Outcome(r)
  <2>1. Waits(q, [q EXCEPT !.expired = 0])
    BY <1>1 DEF Good, WellFormed, Fields, Waits, Confirming
  <2> QED
    BY Zenon, <1>1, <1>5, <2>1, WaitOutcome
<1>6. ASSUME q.gap,
             Set(r, [q EXCEPT !.pc = "valid"])
      PROVE  Outcome(r)
  <2>1. Waits(q, [q EXCEPT !.pc = "valid"])
    BY <1>1, <1>6 DEF Good, WellFormed, Fields, Waits, Confirming
  <2> QED
    BY Zenon, <1>1, <1>6, <2>1, WaitOutcome
<1> QED
  BY <1>3, <1>4, <1>5, <1>6 DEF Poll, Settled

\* One answer about the blockhash: two in a row that know it expired are
\* needed, and the second is given by a node that has the blockhash.
LEMMA AskBlockhashOutcome ==
    ASSUME IInv, NEW r \in Requests, AskBlockhash(r)
    PROVE  Outcome(r)
<1> DEFINE q == req[r]
           m == IF q.expired < 2 THEN q.expired + 1 ELSE 2
<1>1. Good(q) /\ q.pc = "valid"
  BY DEF IInv, RequestsInv, AskBlockhash
<1>2. /\ slot \in Nat /\ q.tx \in Txs /\ tx[q.tx].hash \in Nat
      /\ tx[q.tx].hash <= slot /\ q.min \in Nat /\ q.expired \in Nat
  <2>1. q.tx \in Txs /\ tx[q.tx] # NotSigned /\ q.min \in Nat
        /\ q.expired \in Nat
    BY <1>1 DEF Good, AtWork, WellFormed
  <2> QED
    BY <2>1, SignedTx DEF IInv
<1>3. ASSUME Set(r, [q EXCEPT !.gap = FALSE, !.pc = "poll", !.expired = 0])
      PROVE  Outcome(r)
  <2>1. Waits(q, [q EXCEPT !.gap = FALSE, !.pc = "poll", !.expired = 0])
    BY <1>1 DEF Good, WellFormed, Fields, Waits, Confirming
  <2> QED
    BY Zenon, <1>1, <1>3, <2>1, WaitOutcome
<1>4. ASSUME Set(r, [q EXCEPT !.gap = FALSE, !.pc = "poll"])
      PROVE  Outcome(r)
  <2>1. Waits(q, [q EXCEPT !.gap = FALSE, !.pc = "poll"])
    BY <1>1 DEF Good, WellFormed, Fields, Waits, Confirming
  <2> QED
    BY Zenon, <1>1, <1>4, <2>1, WaitOutcome
<1>5. ASSUME NEW v \in Views, v >= q.min, ~BlockhashKnown(q.tx, v),
             Set(r, [q EXCEPT !.gap = FALSE, !.expired = m,
                        !.pc = IF ExpiredEnough(m) THEN "last" ELSE "poll"])
      PROVE  Outcome(r)
  <2> DEFINE n == [q EXCEPT !.gap = FALSE, !.expired = m,
                       !.pc = IF ExpiredEnough(m) THEN "last" ELSE "poll"]
  <2>1. /\ DOMAIN n = Fields
        /\ n.pc = (IF m >= 2 THEN "last" ELSE "poll") /\ n.pre = q.pre /\ n.min = q.min
        /\ n.tx = q.tx /\ n.ctries = q.ctries /\ n.expired = m
        /\ n.at = q.at /\ n.life = q.life /\ n.due = q.due
        /\ n.blind = q.blind /\ n.resent = q.resent /\ n.answer = q.answer
        /\ n.gap = FALSE
    BY <1>1 DEF Good, WellFormed, Fields, ExpiredEnough
  <2>2. Set(r, n)
    BY <1>5
  <2>3. v \in Nat /\ v <= slot /\ v >= slot - MaxLag
    BY <1>2 DEF Views
  <2>4. v < tx[q.tx].hash \/ v > tx[q.tx].hash + Validity
    BY <1>2, <1>5, <2>3, RelayerAssumption DEF BlockhashKnown
  <2>5. m \in Nat /\ m >= 1 /\ (m >= 2 => q.expired >= 1)
    BY <1>2
  <2> HIDE DEF n, m
  <2>6. q.expired >= 1 => slot > tx[q.tx].hash
    BY <1>1, <1>2 DEF Good, Expiring, Confirming
  <2>7. ~q.resent => v > tx[q.tx].hash + Validity
    BY <1>1, <1>2, <1>5, <2>3, <2>4 DEF Good, Expiring, Confirming
  <2>8. m >= 2 /\ MaxLag <= 1 => slot > tx[q.tx].hash + Validity
    BY <1>2, <2>3, <2>4, <2>5, <2>6, RelayerAssumption
  <2>9. slot > tx[q.tx].hash \/ (q.resent /\ m = 1)
    BY <1>2, <2>3, <2>5, <2>6, <2>7, RelayerAssumption
  <2>10. Expiring(n)
    BY <1>1, <2>1, <2>8, <2>9 DEF Good, Expiring, Confirming
  <2>11. Good(n)
    <3>1. WellFormed(n)
      BY Zenon, <1>1, <2>1, <2>5 DEF Good, WellFormed
    <3>2. AtWork(n) /\ OverFloor(n) /\ Stale(n)
      BY <1>1, <2>1 DEF Good, AtWork, OverFloor, Stale
    <3> QED
      BY Zenon, <2>10, <3>1, <3>2 DEF Good
  <2> QED
    BY <1>1, <2>1, <2>2, <2>11, StepOutcome
<1> QED
  BY <1>3, <1>4, <1>5 DEF AskBlockhash

\* The last look: a transaction called expired is past its blockhash and has
\* not landed, since the node that says so has seen every block it fitted in.
LEMMA LastLookOutcome ==
    ASSUME IInv, NEW r \in Requests, LastLook(r)
    PROVE  Outcome(r)
<1> DEFINE q == req[r]
<1>1. Good(q) /\ q.pc = "last"
  BY DEF IInv, RequestsInv, LastLook
<1>2. ASSUME NEW v \in Views, "none" \in StatusAt(q.tx, v),
             Set(r, Answered(q, "expired"))
      PROVE  Outcome(r)
  <2>1. MaxLag <= 1 => slot > tx[q.tx].hash + Validity
    BY <1>1 DEF Good, Expiring
  <2>2. q.tx \in Txs /\ tx[q.tx] # NotSigned
    BY <1>1 DEF Good, AtWork
  <2>3. tx[q.tx].hash \in Nat /\ slot \in Nat
    BY <2>2 DEF IInv, ClusterInv
  <2>4. ASSUME Landed(q.tx), MaxLag <= 1
        PROVE  FALSE
    <3>1. /\ landed[q.tx].slot \in Nat
          /\ landed[q.tx].slot <= tx[q.tx].hash + Validity
      BY <2>2, <2>3, <2>4, RelayerAssumption DEF IInv, ClusterInv, Landed
    <3>2. ~(landed[q.tx].slot <= v)
      BY <1>2, <2>4 DEF StatusAt
    <3>3. v \in Nat /\ v >= slot - MaxLag
      BY <2>3 DEF Views
    <3> QED
      BY <2>1, <2>3, <2>4, <3>1, <3>2, <3>3, RelayerAssumption
  <2>5. MaxLag <= 1 => ~Confirmed(q.tx)
    BY <2>4 DEF Confirmed
  <2> QED
    BY <1>1, <1>2, <2>1, <2>5, AnswerOutcome DEF Answers
<1>3. ASSUME Set(r, [q EXCEPT !.pc = "poll"])
      PROVE  Outcome(r)
  <2>1. Waits(q, [q EXCEPT !.pc = "poll"])
    BY <1>1 DEF Good, WellFormed, Fields, Waits, Confirming
  <2> QED
    BY Zenon, <1>1, <1>3, <2>1, WaitOutcome
<1>4. ASSUME Set(r, [q EXCEPT !.pc = "poll", !.expired = 0])
      PROVE  Outcome(r)
  <2>1. Waits(q, [q EXCEPT !.pc = "poll", !.expired = 0])
    BY <1>1 DEF Good, WellFormed, Fields, Waits, Confirming
  <2> QED
    BY Zenon, <1>1, <1>4, <2>1, WaitOutcome
<1> QED
  BY <1>2, <1>3, <1>4 DEF LastLook

\* The deadline.
LEMMA ConfirmTimesOutOutcome ==
    ASSUME IInv, NEW r \in Requests, ConfirmTimesOut(r)
    PROVE  Outcome(r)
<1>1. Good(req[r]) /\ req[r].pc \in Confirming
  BY DEF IInv, RequestsInv, ConfirmTimesOut, Confirming
<1>2. Set(r, Answered(req[r], "sent"))
  BY DEF ConfirmTimesOut
<1> QED
  BY <1>1, <1>2, AnswerOutcome DEF Answers, Confirming

=============================================================================
