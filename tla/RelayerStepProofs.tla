------------------------- MODULE RelayerStepProofs --------------------------
(***************************************************************************)
(* What is good of a request stays good under the steps of the others, and *)
(* under those of the cluster, the passkey and the process.                *)
(***************************************************************************)
EXTENDS RelayerHandlerProofs

USE SMTT(20)

\* A handler's step leaves the chain alone, never lowers the floor, forwards
\* at most its own transaction, and answers or signs as above.
LEMMA HandleOutcome ==
    ASSUME IInv, NEW r \in Requests, Handle(r)
    PROVE  /\ UNCHANGED <<slot, tx, landed, life>>
           /\ slotFloor' \in Nat /\ slotFloor' >= slotFloor
           /\ sent' \subseteq sent \cup {req[r].tx} /\ req[r].pc # "idle"
           /\ \/ Outcome(r) /\ signedAt' \in {signedAt, Recent}
              \/ Signs(r)
<1>1. slotFloor \in Nat
  BY DEF IInv, ClusterInv
<1>2. ASSUME ~Simulate(r)
      PROVE  Outcome(r)
  BY <1>2, ReadBalanceOutcome, SimulateFailsOutcome, ExplainOutcome, SendOutcome,
     PollOutcome, AskBlockhashOutcome, LastLookOutcome, ConfirmTimesOutOutcome
     DEF Handle
<1>3. ASSUME Simulate(r)
      PROVE  \/ Outcome(r) /\ signedAt' \in {signedAt, Recent}
             \/ Signs(r)
  BY <1>3, SimulateOutcome
<1>4. CASE ReadBalance(r) \/ SimulateFails(r) \/ Explain(r)
  <2>1. UNCHANGED <<cluster, signedAt, slotFloor, life>> /\ req[r].pc # "idle"
    BY Zenon, <1>4 DEF ReadBalance, SimulateFails, Explain
  <2> QED
    BY <1>1, <1>2, <1>3, <2>1 DEF cluster
<1>5. CASE Simulate(r)
  <2>1. UNCHANGED <<cluster, slotFloor, life>> /\ req[r].pc # "idle"
    BY Zenon, <1>5 DEF Simulate
  <2> QED
    BY <1>1, <1>3, <1>5, <2>1 DEF cluster
<1>6. CASE Send(r) \/ SendUnanswered(r)
  <2>1. /\ UNCHANGED <<slot, tx, landed, signedAt, slotFloor, life>>
        /\ req[r].pc # "idle"
    BY <1>6 DEF Send, SendUnanswered
  <2>2. sent' \subseteq sent \cup {req[r].tx}
    BY <1>6 DEF Send, SendUnanswered
  <2> QED
    BY <1>1, <1>2, <1>3, <2>1, <2>2
<1>7. CASE LookUp(r) \/ AskBlockhash(r) \/ LastLook(r) \/ ConfirmTimesOut(r)
  <2>1. UNCHANGED <<cluster, signedAt, slotFloor, life>> /\ req[r].pc # "idle"
    BY <1>7 DEF LookUp, AskBlockhash, LastLook, ConfirmTimesOut
  <2> QED
    BY <1>1, <1>2, <1>3, <2>1 DEF cluster
<1>8. CASE Poll(r)
  <2>1. slotFloor' \in Nat /\ slotFloor' >= slotFloor
    <3>1. req[r].tx \in Txs
      BY <1>8 DEF IInv, RequestsInv, Good, AtWork, Poll
    <3>2. ASSUME NEW v \in Views, "settled" \in StatusAt(req[r].tx, v)
          PROVE  landed[req[r].tx].slot \in Nat
      BY <3>1, <3>2 DEF IInv, ClusterInv, StatusAt, Landed
    <3> QED
      BY <1>1, <1>8, <3>2 DEF Poll, Settled, Raised, Max2
  <2>2. UNCHANGED <<cluster, signedAt, life>> /\ req[r].pc # "idle"
    BY <1>8 DEF Poll
  <2> QED
    BY <1>2, <1>3, <2>1, <2>2 DEF cluster
<1> QED
  BY Zenon, <1>4, <1>5, <1>6, <1>7, <1>8 DEF Handle

-----------------------------------------------------------------------------
(***************************************************************************)
(* The other requests.                                                     *)
(***************************************************************************)
\* What is good of a request stays good while the chain is as it was and the
\* floor does not fall.
LEMMA GoodKept ==
    ASSUME NEW q, Good(q), UNCHANGED <<slot, tx, landed, life>>,
           slotFloor \in Nat, slotFloor' \in Nat, slotFloor' >= slotFloor
    PROVE  Good(q)'
<1>1. CounterAt(slot)' = CounterAt(slot)
  BY DEF CounterAt, Succeeded, Landed
<1>2. WellFormed(q)' /\ AtWork(q)'
  BY DEF Good, WellFormed, AtWork
<1>3. OverFloor(q)'
  BY DEF Good, OverFloor, WellFormed
<1>4. Stale(q)'
  BY <1>1 DEF Good, Stale
<1>5. Expiring(q)'
  BY DEF Good, Expiring
<1> QED
  BY <1>2, <1>3, <1>4, <1>5 DEF Good

\* So does what was said of it.
LEMMA RequestKept ==
    ASSUME IInv, NEW p, Good(p), SaidOk(p), UNCHANGED <<slot, tx, landed, life>>,
           slotFloor' \in Nat, slotFloor' >= slotFloor
    PROVE  Good(p)' /\ SaidOk(p)'
<1>1. slotFloor \in Nat
  BY DEF IInv, ClusterInv
<1>2. Good(p)'
  BY <1>1, GoodKept
<1>3. p.answer = "ok" => Confirmed(p.tx) /\ landed[p.tx].slot \in Nat
  <2> SUFFICES ASSUME p.answer = "ok" PROVE landed[p.tx].slot \in Nat
    BY DEF SaidOk
  <2>1. p.tx \in Txs
    BY RelayerAssumption DEF Good, AtWork, Answers
  <2> QED
    BY <2>1 DEF SaidOk, Confirmed, Landed, IInv, ClusterInv
<1>4. SaidOk(p)'
  BY <1>1, <1>3 DEF SaidOk, Confirmed, Landed
<1> QED
  BY <1>2, <1>4

\* And of every request, when none changes.
LEMMA RequestsKept ==
    ASSUME IInv, UNCHANGED <<slot, tx, landed, life, req>>,
           slotFloor' \in Nat, slotFloor' >= slotFloor
    PROVE  RequestsInv'
<1>1. ASSUME NEW q \in Requests
      PROVE  Good(req[q])' /\ SaidOk(req[q])'
  <2>1. PICK p : p = req[q]
    OBVIOUS
  <2>2. Good(p) /\ SaidOk(p) /\ req'[q] = p
    BY <2>1 DEF IInv, RequestsInv
  <2>3. Good(p)' /\ SaidOk(p)'
    BY <2>2, RequestKept
  <2> QED
    BY <2>2, <2>3
<1> QED
  BY <1>1 DEF IInv, RequestsInv

\* One request changes, into n, and the chain does not.
LEMMA OneChanges ==
    ASSUME IInv, UNCHANGED <<slot, tx, landed, life>>,
           slotFloor' \in Nat, slotFloor' >= slotFloor,
           NEW r \in Requests, NEW n, req' = [req EXCEPT ![r] = n], Good(n),
           n.answer = "ok" =>
               Confirmed(n.tx) /\ (n.resent \/ n.life # life
                                     \/ landed[n.tx].slot <= slotFloor')
    PROVE  RequestsInv'
<1>1. slotFloor \in Nat /\ DOMAIN req = Requests
  BY DEF IInv, ClusterInv, RequestsInv
<1>2. DOMAIN req' = Requests
  BY <1>1
<1>3. ASSUME NEW q \in Requests
      PROVE  Good(req[q])' /\ SaidOk(req[q])'
  <2>1. CASE q = r
    <3>1. req'[q] = n
      BY <1>1, <2>1
    <3>2. Good(n)'
      BY <1>1, GoodKept
    <3>3. SaidOk(n)'
      BY DEF SaidOk, Confirmed, Landed
    <3> QED
      BY <3>1, <3>2, <3>3
  <2>2. CASE q # r
    <3>1. PICK p : p = req[q]
      OBVIOUS
    <3>2. req'[q] = p
      BY <1>1, <2>2, <3>1
    <3>3. Good(p) /\ SaidOk(p)
      BY <3>1 DEF IInv, RequestsInv
    <3>4. Good(p)' /\ SaidOk(p)'
      BY <3>3, RequestKept
    <3> QED
      BY <3>2, <3>4
  <2> QED
    BY <2>1, <2>2
<1> QED
  BY <1>2, <1>3 DEF RequestsInv

\* The counter is read off what has landed.
LEMMA CountsKept ==
    ASSUME CountsUp, UNCHANGED landed
    PROVE  CountsUp'
<1>1. \A v \in Nat : CounterAt(v)' = CounterAt(v)
  BY DEF CounterAt, Succeeded, Landed
<1> QED
  BY <1>1 DEF CountsUp

\* The chain as it was: at most one more signed transaction is forwarded.
LEMMA ClusterKept ==
    ASSUME ClusterInv, UNCHANGED <<slot, tx, landed, life>>, slotFloor' \in Nat,
           \A t \in sent' : t \in Txs /\ tx[t] # NotSigned
    PROVE  ClusterInv'
<1>1. \A t \in Txs : tx[t] # NotSigned =>
         CounterAt(tx[t].slot)' = CounterAt(tx[t].slot)
  BY DEF CounterAt, Succeeded, Landed
<1>2. CountsUp'
  BY CountsKept DEF ClusterInv
<1> QED
  BY <1>1, <1>2 DEF ClusterInv, Landed

\* What callers of this life were told is under the floor.
LEMMA ToldUnderFloor ==
    ASSUME IInv
    PROVE  Told \subseteq Nat /\ \A told \in Told : told <= slotFloor
<1> SUFFICES ASSUME NEW q \in Requests, req[q].answer = "ok", ~req[q].resent,
                    req[q].life = life
             PROVE  /\ landed[req[q].tx].slot \in Nat
                    /\ landed[req[q].tx].slot <= slotFloor
  BY DEF Told
<1>1. Good(req[q]) /\ SaidOk(req[q])
  BY DEF IInv, RequestsInv
<1>2. req[q].tx \in Txs
  BY <1>1, RelayerAssumption DEF Good, AtWork, Answers
<1> QED
  BY <1>1, <1>2 DEF SaidOk, Confirmed, Landed, IInv, ClusterInv

\* A request arrives: what callers were told is below the floor.
LEMMA ReceiveOutcome ==
    ASSUME IInv, NEW r \in Requests, NEW t \in Txs, NEW mode,
           Receive(r, t, mode)
    PROVE  /\ UNCHANGED <<slot, tx, landed, life>>
           /\ UNCHANGED <<sent, signedAt, slotFloor>>
           /\ req[r].at = NotSigned /\ req[r].answer = Open
           /\ \E n : /\ req' = [req EXCEPT ![r] = n] /\ Good(n)
                     /\ n.at = NotSigned /\ n.answer \in {Open, "refused"}
<1> DEFINE q == Request("balance", t, mode, NotSigned, life, Told, FALSE, FALSE,
                        Open)
           n == IF t \in Sponsored THEN q ELSE Answered(q, "refused")
<1>1. /\ UNCHANGED <<slot, tx, landed, life, sent, signedAt, slotFloor>>
      /\ req' = [req EXCEPT ![r] = n] /\ tx[t] # NotSigned
      /\ req[r].pc = "idle"
  BY DEF Receive, cluster, Set
<1>2. /\ req[r].at = NotSigned /\ req[r].answer = Open
      /\ life \in Nat /\ slotFloor \in Nat
  BY <1>1 DEF IInv, RequestsInv, ClusterInv, Good, AtWork
<1>3. /\ DOMAIN q = Fields
      /\ q.pc = "balance" /\ q.pre = 0 /\ q.min = 0
      /\ q.tx = t /\ q.ctries = 0 /\ q.expired = 0
      /\ q.at = NotSigned /\ q.life = life /\ q.due = Told
      /\ q.resent = FALSE /\ q.answer = Open
  BY Zenon DEF Request, Fields
<1>4. Told \subseteq Nat /\ \A told \in Told : told <= slotFloor
  BY ToldUnderFloor
<1> HIDE DEF q
<1>5. Good(q)
  <2>1. WellFormed(q) /\ AtWork(q)
    BY <1>1, <1>2, <1>3, <1>4 DEF WellFormed, AtWork
  <2>2. OverFloor(q) /\ Expiring(q)
    BY Zenon, <1>3, <1>4 DEF OverFloor, Expiring, Confirming
  <2>3. Stale(q)
    BY <1>3, RelayerAssumption DEF Stale, Answers
  <2> QED
    BY <2>1, <2>2, <2>3 DEF Good
<1>6. "refused" \in Answers
  BY DEF Answers
<1>7. /\ Good(Answered(q, "refused")) /\ Tells(q, Answered(q, "refused"))
      /\ Answered(q, "refused").tx = q.tx /\ Answered(q, "refused").life = q.life
      /\ Answered(q, "refused").at = q.at
      /\ Answered(q, "refused").resent = q.resent
      /\ Answered(q, "refused").answer = "ok" => "refused" = "ok"
  BY <1>3, <1>5, <1>6, AnsweredGood
<1>8. Answered(q, "refused").answer = "refused"
  BY <1>3 DEF Answered, Request
<1>9. Good(n) /\ n.at = NotSigned /\ n.answer \in {Open, "refused"}
  BY <1>3, <1>5, <1>7, <1>8
<1> HIDE DEF n
<1> QED
  BY Zenon, <1>1, <1>2, <1>9

-----------------------------------------------------------------------------
(***************************************************************************)
(* The chain and the requests.                                             *)
(***************************************************************************)
\* A request n that differs from p in its clocks only, as the chain grows: a
\* clock tick comes with a new slot, or finds the last one.
LEMMA RequestGrows ==
    ASSUME IInv, UNCHANGED <<tx, slotFloor, life>>, slot' \in slot .. slot + 1,
           CounterAt(slot) \in Nat, CounterAt(slot)' \in Nat,
           CounterAt(slot)' >= CounterAt(slot),
           \A t \in Txs : Confirmed(t) => landed'[t] = landed[t],
           NEW p, Good(p), SaidOk(p), NEW n, DOMAIN n = Fields,
           n.pc = p.pc /\ n.pre = p.pre /\ n.min = p.min,
           n.tx = p.tx /\ n.ctries = p.ctries /\ n.expired = p.expired,
           n.at = p.at /\ n.life = p.life /\ n.due = p.due /\ n.why = p.why,
           n.blind = p.blind /\ n.resent = p.resent /\ n.answer = p.answer,
           \/ n.gap = p.gap
           \/ /\ n.gap = (p.gap \/ p.pc \in Confirming)
              /\ slot' = slot + 1 \/ slot = MaxSlot
    PROVE  Good(n)' /\ SaidOk(n)'
<1>1. slot \in Nat /\ slot' \in Nat /\ slot' >= slot
  BY DEF IInv, ClusterInv
<1>2. WellFormed(n)' /\ OverFloor(n)'
  BY DEF Good, WellFormed, OverFloor
<1>3. AtWork(n)'
  <2>1. p.at # NotSigned => p.at \in Nat
    BY DEF Good, WellFormed
  <2> QED
    BY <1>1, <2>1 DEF Good, AtWork
<1>4. p.pc # "idle" =>
         /\ p.tx \in Txs /\ tx[p.tx].hash \in Nat /\ tx[p.tx].counter \in Nat
         /\ tx[p.tx].hash <= slot
  <2> SUFFICES ASSUME p.pc # "idle"
               PROVE  /\ p.tx \in Txs /\ tx[p.tx].hash \in Nat
                      /\ tx[p.tx].counter \in Nat /\ tx[p.tx].hash <= slot
    OBVIOUS
  <2>1. p.tx \in Txs /\ tx[p.tx] # NotSigned
    BY DEF Good, AtWork
  <2>2. tx[p.tx] \in [counter: Nat, slot: Nat, hash: Nat]
    BY <2>1 DEF IInv, ClusterInv
  <2>3. tx[p.tx].hash <= tx[p.tx].slot /\ tx[p.tx].slot <= slot
    BY <2>1 DEF IInv, ClusterInv
  <2> QED
    BY <1>1, <2>1, <2>2, <2>3
<1>5. Stale(n)'
  <2>1. p.answer = "stale_counter" => p.pc # "idle"
    BY RelayerAssumption DEF Good, AtWork, Answers
  <2>2. (p.pc = "explain" \/ p.answer = "stale_counter")
        /\ tx[p.tx].counter <= CounterAt(slot) =>
           tx[p.tx].counter <= CounterAt(slot)'
    BY <1>4, <2>1
  <2> QED
    BY <2>2 DEF Good, Stale
<1>6. Expiring(n)'
  <2>1. p.pc = "last" /\ MaxLag <= 1 => slot' > tx[p.tx].hash + Validity
    BY <1>1, <1>4, RelayerAssumption DEF Good, Expiring
  <2>2. p.pc = "valid" => n.gap
    BY Zenon DEF Good, Expiring, Confirming
  <2>3. p.pc \in Confirming =>
          IF p.resent THEN tx[p.tx].hash < MaxSlot ELSE tx[p.tx].hash <= p.min
    BY DEF Good, Expiring
  <2>4. ASSUME p.pc \in Confirming, p.expired >= 1
        PROVE  \/ slot' > tx[p.tx].hash
               \/ p.resent /\ p.expired = 1 /\ ~n.gap
    <3>1. CASE slot > tx[p.tx].hash
      BY <1>1, <1>4, <2>4, <3>1 DEF Confirming
    <3>2. CASE p.resent /\ p.expired = 1 /\ ~p.gap
      <4>1. tx[p.tx].hash < MaxSlot
        BY <2>3, <2>4, <3>2
      <4> QED
        BY <1>1, <1>4, <2>4, <3>2, <4>1, RelayerAssumption DEF Confirming
    <3> QED
      BY <2>4, <3>1, <3>2 DEF Good, Expiring
  <2> QED
    BY <2>1, <2>2, <2>3, <2>4 DEF Good, Expiring, Confirming
<1>7. SaidOk(n)'
  <2>1. ASSUME p.answer = "ok"
        PROVE  /\ p.tx \in Txs /\ landed[p.tx].slot \in Nat
               /\ Confirmed(p.tx) /\ landed'[p.tx] = landed[p.tx]
    <3>1. p.tx \in Txs
      BY <2>1, RelayerAssumption DEF Good, AtWork, Answers
    <3>2. Confirmed(p.tx)
      BY <2>1 DEF SaidOk
    <3> QED
      BY <3>1, <3>2 DEF Confirmed, Landed, IInv, ClusterInv
  <2> QED
    BY <1>1, <2>1 DEF SaidOk, Confirmed, Landed
<1> QED
  BY <1>2, <1>3, <1>5, <1>6, <1>7 DEF Good

\* A passkey signs: no request has that transaction yet.
LEMMA WalletSignsKeeps ==
    ASSUME IInv, NEW t \in Txs, WalletSigns(t)
    PROVE  ClusterInv' /\ RequestsInv'
<1>1. /\ tx[t] = NotSigned
      /\ UNCHANGED <<slot, landed, sent, req, signedAt, slotFloor, life>>
  BY DEF WalletSigns
<1>2. PICK v \in Views, h \in Views :
         h <= v /\ tx' = [tx EXCEPT ![t] = [counter |-> CounterAt(v) + 1,
                                            slot |-> v, hash |-> h]]
  BY Zenon DEF WalletSigns
<1>3. slot \in Nat /\ v \in Nat /\ h \in Nat /\ v <= slot
  BY DEF IInv, ClusterInv, Views
<1>4. CounterAt(v) \in Nat
  BY <1>3 DEF IInv, ClusterInv, CountsUp
<1>5. /\ tx'[t] = [counter |-> CounterAt(v) + 1, slot |-> v, hash |-> h]
      /\ tx'[t] \in [counter: Nat, slot: Nat, hash: Nat]
      /\ tx'[t] # NotSigned /\ \A s \in Txs : s # t => tx'[s] = tx[s]
      /\ tx' \in [Txs -> [counter: Nat, slot: Nat, hash: Nat] \cup {NotSigned}]
  BY <1>2, <1>3, <1>4, RelayerAssumption DEF IInv, ClusterInv
<1>6. ASSUME NEW s \in Txs, tx'[s] # NotSigned
      PROVE  /\ tx'[s].hash <= tx'[s].slot /\ tx'[s].slot <= slot
             /\ tx'[s].counter = CounterAt(tx[s].slot)' + 1
  <2>1. CASE s = t
    <3>1. CounterAt(tx[s].slot)' = CounterAt(v)
      <4>1. tx'[s].slot = v
        BY <1>5, <2>1
      <4> QED
        BY <1>1, <4>1 DEF CounterAt, Succeeded, Landed
    <3> QED
      BY <1>2, <1>3, <1>5, <2>1, <3>1
  <2>2. CASE s # t
    <3>1. CounterAt(tx[s].slot)' = CounterAt(tx[s].slot)
      BY Zenon, <1>1, <1>5, <2>2 DEF CounterAt, Succeeded, Landed
    <3> QED
      BY <1>5, <1>6, <2>2, <3>1 DEF IInv, ClusterInv
  <2> QED
    BY <2>1, <2>2
<1>7. ClusterInv'
  <2>1. ASSUME NEW s \in Txs, Landed(s)
        PROVE  s # t /\ tx'[s] = tx[s]
    BY <1>1, <1>5, <2>1 DEF IInv, ClusterInv
  <2>2. \A s \in sent : s # t
    BY <1>1 DEF IInv, ClusterInv
  <2>3. /\ slot \in 0 .. MaxSlot /\ slotFloor \in Nat /\ life \in Nat
        /\ landed \in [Txs -> [slot: Nat, ok: BOOLEAN] \cup {NotLanded}]
    BY DEF IInv, ClusterInv
  <2>4. \A s \in Txs : Landed(s)' =>
             /\ tx'[s] # NotSigned
             /\ landed[s].slot <= slot + 1 /\ landed[s].slot <= MaxSlot
             /\ landed[s].slot \in tx'[s].hash + 1 .. tx'[s].hash + Validity
    BY <1>1, <2>1 DEF IInv, ClusterInv, Landed
  <2>5. \A s \in sent' : s \in Txs /\ tx'[s] # NotSigned
    BY <1>1, <1>5, <2>2 DEF IInv, ClusterInv
  <2>6. CountsUp'
    BY <1>1, CountsKept DEF IInv, ClusterInv
  <2> QED
    BY <1>1, <1>5, <1>6, <2>3, <2>4, <2>5, <2>6 DEF ClusterInv
<1>8. ASSUME NEW q \in Requests
      PROVE  Good(req[q])' /\ SaidOk(req[q])'
  <2>1. PICK p : p = req[q]
    OBVIOUS
  <2>2. Good(p) /\ SaidOk(p) /\ req'[q] = p
    BY <1>1, <2>1 DEF IInv, RequestsInv
  <2>3. p.pc # "idle" => p.tx \in Txs /\ tx'[p.tx] = tx[p.tx]
    BY Zenon, <1>1, <1>5, <2>2 DEF Good, AtWork
  <2>4. CounterAt(slot)' = CounterAt(slot)
    BY Zenon, <1>1 DEF CounterAt, Succeeded, Landed
  <2>5. WellFormed(p)' /\ AtWork(p)' /\ OverFloor(p)'
    BY <1>1, <2>2, <2>3 DEF Good, WellFormed, AtWork, OverFloor
  <2>6. Stale(p)'
    BY <1>1, <2>2, <2>3, <2>4, RelayerAssumption DEF Good, Stale, AtWork, Answers
  <2>7. Expiring(p)'
    BY Zenon, <1>1, <2>2, <2>3 DEF Good, Expiring, Confirming
  <2>8. SaidOk(p)'
    BY <1>1, <2>2 DEF SaidOk, Confirmed, Landed
  <2> QED
    BY <2>2, <2>5, <2>6, <2>7, <2>8 DEF Good
<1>9. RequestsInv'
  BY <1>1, <1>8 DEF IInv, RequestsInv
<1> QED
  BY <1>7, <1>9

\* A block after slot a, within the w slots of the blockhash of slot h, is one
\* a transaction can land in.
LEMMA NextSlotFits ==
    ASSUME NEW a \in Nat, NEW b \in Nat, b >= a, NEW m \in Nat, a < m,
           NEW h \in Nat, h <= a, NEW w \in Nat, a + 1 <= h + w
    PROVE  /\ a + 1 <= b + 1 /\ a + 1 <= m
           /\ a + 1 \in h + 1 .. h + w
  OBVIOUS

\* What the confirmed blocks show does not change as the chain grows, and
\* what is signed or has landed stays within its bounds.
LEMMA ChainGrows ==
    ASSUME IInv, CountsUp', slot' \in slot .. slot + 1, slot' <= MaxSlot,
           UNCHANGED <<tx, sent, slotFloor, life>>,
           landed' \in [Txs -> [slot: Nat, ok: BOOLEAN] \cup {NotLanded}],
           \A t \in Txs : Confirmed(t) => landed'[t] = landed[t],
           \A t \in Txs : landed'[t] # NotLanded /\ ~Confirmed(t) =>
               /\ landed'[t].slot = slot + 1 /\ tx[t] # NotSigned
               /\ slot < MaxSlot /\ slot + 1 <= tx[t].hash + Validity
    PROVE  /\ ClusterInv'
           /\ CounterAt(slot) \in Nat /\ CounterAt(slot)' \in Nat
           /\ CounterAt(slot)' >= CounterAt(slot)
<1>1. slot \in Nat /\ slot' \in Nat /\ slot' >= slot
  BY DEF IInv, ClusterInv
<1>2. ASSUME NEW v \in Nat, v <= slot
      PROVE  Succeeded(v)' = Succeeded(v)
  <2>1. ASSUME NEW s \in Txs
        PROVE  (Landed(s)' /\ landed'[s].slot <= v) <=> (Landed(s) /\ landed[s].slot <= v)
    <3>1. CASE Confirmed(s)
      BY <3>1 DEF Confirmed, Landed
    <3>2. CASE ~Confirmed(s)
      <4>1. ~(Landed(s) /\ landed[s].slot <= v)
        BY <1>1, <1>2, <3>2 DEF Confirmed, Landed, IInv, ClusterInv
      <4>2. ~(Landed(s)' /\ landed'[s].slot <= v)
        BY <1>1, <1>2, <3>2 DEF Landed
      <4> QED
        BY <4>1, <4>2
    <3> QED
      BY <3>1, <3>2
  <2>2. ASSUME NEW s \in Txs, Landed(s) /\ landed[s].slot <= v
        PROVE  landed'[s] = landed[s]
    <3>1. landed[s].slot \in Nat
      BY <2>2 DEF Landed, IInv, ClusterInv
    <3> QED
      BY <1>1, <1>2, <2>2, <3>1 DEF Confirmed
  <2> QED
    BY <2>1, <2>2 DEF Succeeded
<1>3. ASSUME NEW s \in Txs, tx[s] # NotSigned
      PROVE  CounterAt(tx[s].slot)' = CounterAt(tx[s].slot)
  <2>1. PICK v : v = tx[s].slot
    OBVIOUS
  <2>2. v \in Nat /\ v <= slot
    BY <1>3, <2>1, SignedTx DEF IInv
  <2>3. Succeeded(v)' = Succeeded(v)
    BY <1>2, <2>2
  <2> QED
    BY Zenon, <2>1, <2>3 DEF CounterAt, Succeeded
<1>4. /\ CounterAt(slot) \in Nat /\ CounterAt(slot)' \in Nat
      /\ CounterAt(slot)' >= CounterAt(slot)
  <2>1. PICK v : v = slot
    OBVIOUS
  <2>2. Succeeded(v)' = Succeeded(slot)
    BY <1>1, <1>2, <2>1
  <2>3. CounterAt(v)' = CounterAt(slot)
    BY <2>2 DEF CounterAt
  <2>4. CounterAt(slot) \in Nat
    BY <1>1 DEF IInv, ClusterInv, CountsUp
  <2>5. PICK w : w = slot'
    OBVIOUS
  <2>6. CounterAt(v)' <= CounterAt(w)' /\ CounterAt(w)' \in Nat
    BY <1>1, <2>1, <2>5 DEF CountsUp
  <2>7. CounterAt(w)' = CounterAt(slot)'
    BY <2>5
  <2> QED
    BY <2>3, <2>4, <2>6, <2>7
<1>5. ASSUME NEW s \in Txs, Landed(s)'
      PROVE  /\ tx[s] # NotSigned
             /\ landed'[s].slot <= slot' + 1 /\ landed'[s].slot <= MaxSlot
             /\ landed'[s].slot \in tx[s].hash + 1 .. tx[s].hash + Validity
  <2>1. CASE Confirmed(s)
    <3>1. Landed(s) /\ landed'[s] = landed[s] /\ landed[s].slot \in Nat
      BY <2>1 DEF Confirmed, Landed, IInv, ClusterInv
    <3>2. /\ tx[s] # NotSigned /\ landed[s].slot <= MaxSlot
          /\ landed[s].slot \in tx[s].hash + 1 .. tx[s].hash + Validity
      BY Zenon, <3>1 DEF IInv, ClusterInv
    <3>3. landed[s].slot <= slot' + 1
      BY <1>1, <2>1, <3>1 DEF Confirmed
    <3> QED
      BY <3>1, <3>2, <3>3
  <2>2. CASE ~Confirmed(s)
    <3>1. /\ landed'[s].slot = slot + 1 /\ tx[s] # NotSigned
          /\ slot < MaxSlot /\ slot + 1 <= tx[s].hash + Validity
      BY <1>5, <2>2 DEF Landed
    <3>2. tx[s].hash \in Nat /\ tx[s].hash <= slot
      BY <3>1, SignedTx DEF IInv
    <3>3. Validity \in Nat /\ MaxSlot \in Nat
      BY Zenon, RelayerAssumption
    <3>4. /\ slot + 1 <= slot' + 1 /\ slot + 1 <= MaxSlot
          /\ slot + 1 \in tx[s].hash + 1 .. tx[s].hash + Validity
      BY Zenon, <1>1, <3>1, <3>2, <3>3, NextSlotFits
    <3> QED
      BY Zenon, <3>1, <3>4
  <2> QED
    BY <2>1, <2>2
<1>6. ASSUME NEW s \in Txs, tx[s] # NotSigned
      PROVE  /\ tx[s].hash <= tx[s].slot /\ tx[s].slot <= slot'
             /\ tx[s].counter = CounterAt(tx[s].slot)' + 1
  BY <1>1, <1>3, <1>6 DEF IInv, ClusterInv
<1>7. /\ slot' \in 0 .. MaxSlot /\ slotFloor \in Nat /\ life \in Nat
      /\ tx \in [Txs -> [counter: Nat, slot: Nat, hash: Nat] \cup {NotSigned}]
      /\ \A s \in sent : s \in Txs /\ tx[s] # NotSigned
  BY <1>1, RelayerAssumption DEF IInv, ClusterInv
<1>8. ClusterInv'
  BY <1>5, <1>6, <1>7 DEF ClusterInv
<1> QED
  BY Zenon, <1>4, <1>8

\* A transaction gets into the block being voted on.
LEMMA LandKeeps ==
    ASSUME IInv, NEW t \in Txs, Land(t), CountsUp'
    PROVE  ClusterInv' /\ RequestsInv'
<1>1. /\ t \in sent /\ ~Landed(t) /\ slot < MaxSlot /\ BlockhashKnown(t, slot + 1)
      /\ UNCHANGED <<slot, tx, sent, req, signedAt, slotFloor, life>>
  BY Zenon DEF Land
<1>2. PICK b \in BOOLEAN :
         landed' = [landed EXCEPT ![t] = [slot |-> slot + 1, ok |-> b]]
  BY Zenon DEF Land
<1>3. slot \in Nat /\ slot <= MaxSlot /\ tx[t] # NotSigned
      /\ tx[t].hash \in Nat
  BY <1>1 DEF IInv, ClusterInv
<1>4. landed' \in [Txs -> [slot: Nat, ok: BOOLEAN] \cup {NotLanded}]
  BY <1>2, <1>3 DEF IInv, ClusterInv
<1>5. ASSUME NEW s \in Txs, Confirmed(s)
      PROVE  landed'[s] = landed[s]
  BY <1>1, <1>2, <1>5 DEF Confirmed, IInv, ClusterInv
<1>6. ASSUME NEW s \in Txs, landed'[s] # NotLanded, ~Confirmed(s)
      PROVE  /\ landed'[s].slot = slot + 1 /\ tx[s] # NotSigned
             /\ slot < MaxSlot /\ slot + 1 <= tx[s].hash + Validity
  <2>1. CASE s = t
    BY <1>1, <1>2, <1>3, <2>1 DEF IInv, ClusterInv, BlockhashKnown
  <2>2. CASE s # t
    <3>1. landed'[s] = landed[s] /\ Landed(s)
      BY <1>2, <1>6, <2>2 DEF IInv, ClusterInv, Landed
    <3>2. landed[s].slot \in Nat /\ ~(landed[s].slot <= slot)
      BY <1>6, <3>1 DEF Confirmed, Landed, IInv, ClusterInv
    <3>3. /\ tx[s] # NotSigned /\ landed[s].slot <= slot + 1
          /\ landed[s].slot <= tx[s].hash + Validity
      BY <3>1 DEF IInv, ClusterInv
    <3> QED
      BY <1>1, <1>3, <3>1, <3>2, <3>3
  <2> QED
    BY <2>1, <2>2
<1>7. slot' \in slot .. slot + 1 /\ slot' <= MaxSlot
  BY <1>1, <1>3
<1>8. /\ ClusterInv'
      /\ CounterAt(slot) \in Nat /\ CounterAt(slot)' \in Nat
      /\ CounterAt(slot)' >= CounterAt(slot)
  BY <1>1, <1>4, <1>5, <1>6, <1>7, ChainGrows
<1>9. ASSUME NEW q \in Requests
      PROVE  Good(req[q])' /\ SaidOk(req[q])'
  <2>1. PICK p : p = req[q]
    OBVIOUS
  <2>2. Good(p) /\ SaidOk(p) /\ req'[q] = p
    BY <1>1, <2>1 DEF IInv, RequestsInv
  <2>3. DOMAIN p = Fields
    BY <2>2 DEF Good, WellFormed
  <2>4. /\ UNCHANGED <<tx, slotFloor, life>>
        /\ \A s \in Txs : Confirmed(s) => landed'[s] = landed[s]
    BY <1>1, <1>5
  <2>5. Good(p)' /\ SaidOk(p)'
    BY Zenon, <1>7, <1>8, <2>2, <2>3, <2>4, RequestGrows
  <2> QED
    BY <2>2, <2>5
<1>10. RequestsInv'
  BY Zenon, <1>1, <1>9 DEF IInv, RequestsInv
<1> QED
  BY Zenon, <1>8, <1>10

\* Two seconds pass.
LEMMA TickKeeps ==
    ASSUME IInv, Tick, CountsUp'
    PROVE  /\ ClusterInv' /\ RequestsInv'
           /\ \A q \in Requests :
                req'[q].at = req[q].at /\ req'[q].life = req[q].life
<1>1. /\ slot' = (IF slot < MaxSlot THEN slot + 1 ELSE slot)
      /\ UNCHANGED <<tx, sent, signedAt, slotFloor, life>>
      /\ \/ UNCHANGED landed
         \/ landed' = [t \in Txs |-> IF Landed(t) /\ ~Confirmed(t)
                                       THEN NotLanded ELSE landed[t]]
  BY Zenon DEF Tick
<1>2. slot \in Nat /\ slot <= MaxSlot
  BY DEF IInv, ClusterInv
<1>3. /\ slot' \in slot .. slot + 1 /\ slot' <= MaxSlot
      /\ slot' = slot + 1 \/ slot = MaxSlot
  BY <1>1, <1>2, RelayerAssumption
<1>4. landed' \in [Txs -> [slot: Nat, ok: BOOLEAN] \cup {NotLanded}]
  BY <1>1 DEF IInv, ClusterInv
<1>5. ASSUME NEW s \in Txs, Confirmed(s)
      PROVE  landed'[s] = landed[s]
  BY <1>1, <1>5
<1>6. ASSUME NEW s \in Txs, landed'[s] # NotLanded, ~Confirmed(s)
      PROVE  /\ landed'[s].slot = slot + 1 /\ tx[s] # NotSigned
             /\ slot < MaxSlot /\ slot + 1 <= tx[s].hash + Validity
  <2>1. landed'[s] = landed[s] /\ Landed(s)
    BY <1>1, <1>6 DEF Landed
  <2>2. landed[s].slot \in Nat /\ ~(landed[s].slot <= slot)
    BY <1>6, <2>1 DEF Confirmed, Landed, IInv, ClusterInv
  <2>3. /\ tx[s] # NotSigned /\ landed[s].slot <= slot + 1
        /\ landed[s].slot <= MaxSlot /\ landed[s].slot <= tx[s].hash + Validity
    BY <2>1 DEF IInv, ClusterInv
  <2> QED
    BY <1>2, <2>1, <2>2, <2>3, RelayerAssumption
<1>7. /\ ClusterInv'
      /\ CounterAt(slot) \in Nat /\ CounterAt(slot)' \in Nat
      /\ CounterAt(slot)' >= CounterAt(slot)
  BY <1>1, <1>3, <1>4, <1>5, <1>6, ChainGrows
<1>8. /\ req' = [r \in Requests |->
                   [req[r] EXCEPT !.left = Max2(@ - 1, 0),
                                  !.gap = @ \/ req[r].pc \in Confirming]]
      /\ DOMAIN req' = Requests
  BY Zenon DEF Tick, Confirming
<1>9. ASSUME NEW q \in Requests
      PROVE  /\ Good(req[q])' /\ SaidOk(req[q])'
             /\ req'[q].at = req[q].at /\ req'[q].life = req[q].life
  <2>1. PICK p : p = req[q]
    OBVIOUS
  <2>2. Good(p) /\ SaidOk(p)
    BY <2>1 DEF IInv, RequestsInv
  <2>3. PICK n : n = req'[q]
    OBVIOUS
  <2>4. n = [p EXCEPT !.left = Max2(@ - 1, 0), !.gap = @ \/ p.pc \in Confirming]
    BY Zenon, <1>8, <2>1, <2>3
  <2>5. /\ DOMAIN n = Fields
        /\ n.pc = p.pc /\ n.pre = p.pre /\ n.min = p.min
        /\ n.tx = p.tx /\ n.ctries = p.ctries /\ n.expired = p.expired
        /\ n.at = p.at /\ n.life = p.life /\ n.due = p.due /\ n.why = p.why
        /\ n.blind = p.blind /\ n.resent = p.resent /\ n.answer = p.answer
        /\ n.gap = (p.gap \/ p.pc \in Confirming)
    BY <2>2, <2>4 DEF Good, WellFormed, Fields
  <2>6. Good(n)' /\ SaidOk(n)'
    BY <1>1, <1>3, <1>5, <1>7, <2>2, <2>5, RequestGrows
  <2> QED
    BY <2>1, <2>3, <2>5, <2>6
<1>10. RequestsInv'
  BY Zenon, <1>8, <1>9 DEF RequestsInv
<1> QED
  BY Zenon, <1>7, <1>9, <1>10
=============================================================================
