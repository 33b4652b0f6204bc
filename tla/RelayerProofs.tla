--------------------------- MODULE RelayerProofs ----------------------------
(***************************************************************************)
(* The invariant of Relayer is kept by every step, every step stands for a *)
(* step of the promise (PaymasterService) or none, and with that the rate  *)
(* limit, the slot floor, the stale-counter verdict and the promise hold.  *)
(***************************************************************************)
EXTENDS RelayerStepProofs, FiniteSetTheorems

USE SMTT(20)

\* The process restarts: nothing of the new life is signed or told yet.
LEMMA RestartKeeps ==
    ASSUME IInv, Restart
    PROVE  /\ ClusterInv' /\ RequestsInv'
           /\ \A q \in Requests :
                /\ req'[q].at = req[q].at /\ req'[q].life = req[q].life
                /\ req'[q].life # life'
<1>1. /\ UNCHANGED <<slot, tx, landed, sent>> /\ life' = life + 1
      /\ signedAt' = {} /\ slotFloor' = 0 /\ DOMAIN req' = Requests
      /\ req' = [r \in Requests |->
                   IF req[r].pc \in {"idle", "done"} THEN req[r]
                   ELSE [req[r] EXCEPT !.pc = "done"]]
  BY DEF Restart, cluster
<1>2. life \in Nat /\ slot \in Nat
  BY DEF IInv, ClusterInv
<1>3. ClusterInv'
  <2>1. \A t \in Txs : tx[t] # NotSigned =>
           CounterAt(tx[t].slot)' = CounterAt(tx[t].slot)
    BY <1>1 DEF CounterAt, Succeeded, Landed
  <2>2. CountsUp'
    BY <1>1, CountsKept DEF IInv, ClusterInv
  <2> QED
    BY <1>1, <1>2, <2>1, <2>2 DEF IInv, ClusterInv, Landed
<1>4. CounterAt(slot)' = CounterAt(slot)
  BY <1>1 DEF CounterAt, Succeeded, Landed
<1>5. ASSUME NEW q \in Requests
      PROVE  /\ Good(req[q])' /\ SaidOk(req[q])'
             /\ req'[q].at = req[q].at /\ req'[q].life = req[q].life
             /\ req'[q].life # life'
  <2>1. PICK p : p = req[q]
    OBVIOUS
  <2>2. Good(p) /\ SaidOk(p)
    BY <2>1 DEF IInv, RequestsInv
  <2>3. PICK n : n = req'[q]
    OBVIOUS
  <2>4. n = IF p.pc \in {"idle", "done"} THEN p ELSE [p EXCEPT !.pc = "done"]
    BY <1>1, <2>1, <2>3
  <2>5. /\ DOMAIN n = Fields
        /\ n.pc = (IF p.pc = "idle" THEN "idle" ELSE "done")
        /\ n.pre = p.pre /\ n.min = p.min
        /\ n.tx = p.tx /\ n.ctries = p.ctries /\ n.expired = p.expired
        /\ n.at = p.at /\ n.life = p.life /\ n.due = p.due
        /\ n.blind = p.blind /\ n.resent = p.resent /\ n.answer = p.answer
    BY <2>2, <2>4 DEF Good, WellFormed, Fields
  <2>6. p.life \in Nat /\ p.life <= life
    BY <2>2 DEF Good, WellFormed, AtWork
  <2>7. WellFormed(n)' /\ AtWork(n)'
    BY <1>1, <1>2, <2>2, <2>5, <2>6 DEF Good, WellFormed, AtWork
  <2>8. OverFloor(n)' /\ Expiring(n)'
    BY <2>5 DEF OverFloor, Expiring, Confirming
  <2>9. Stale(n)'
    BY <1>1, <1>4, <2>2, <2>5 DEF Good, Stale
  <2>10. SaidOk(n)'
    BY <1>1, <1>2, <2>2, <2>5, <2>6 DEF SaidOk, Confirmed, Landed
  <2>11. Good(n)'
    BY <2>7, <2>8, <2>9 DEF Good
  <2>12. n.life # life'
    BY <1>1, <1>2, <2>5, <2>6
  <2> QED
    BY <2>1, <2>3, <2>5, <2>10, <2>11, <2>12
<1>6. RequestsInv'
  BY <1>1, <1>5 DEF RequestsInv
<1> QED
  BY <1>3, <1>5, <1>6

-----------------------------------------------------------------------------
(***************************************************************************)
(* The promise.                                                            *)
(***************************************************************************)
Fate == [t \in Txs |-> FateOf(t)]
ToldAll == [r \in Requests |-> ToldTo(r)]

\* A step of the promise, or none.
Kept == [Promise!Next]_<<Fate, ToldAll>>

\* While the chain is as it was, so is every fate.
LEMMA FateKept ==
    ASSUME UNCHANGED <<slot, tx, landed>>
    PROVE  Fate' = Fate
  BY DEF Fate, FateOf, Confirmed, Landed

\* While every answer is as it was, so is what was told.
LEMMA ToldKept ==
    ASSUME \A r \in Requests :
               /\ req'[r].answer = req[r].answer
               /\ req[r].answer # Open => req'[r].tx = req[r].tx
    PROVE  ToldAll' = ToldAll
  BY DEF ToldAll, ToldTo

\* One request changes into n; a new answer tells its transaction's fate.
LEMMA AnswerMaps ==
    ASSUME IInv, MaxLag <= 1, UNCHANGED <<slot, tx, landed>>,
           NEW r \in Requests, NEW n, req' = [req EXCEPT ![r] = n], Good(n),
           Tells(req[r], n), req[r].answer # Open => n.tx = req[r].tx
    PROVE  Kept
<1>1. Fate' = Fate /\ DOMAIN req = Requests
  BY FateKept DEF IInv, RequestsInv
<1>2. CASE n.answer = req[r].answer
  <2>1. ToldAll' = ToldAll
    BY <1>1, <1>2, ToldKept
  <2> QED
    BY <1>1, <2>1 DEF Kept
<1>3. CASE n.answer # req[r].answer
  <2> DEFINE says == IF n.answer \in {"ok", "failed", "expired"}
                       THEN n.answer ELSE "unsettled"
  <2>1. req[r].answer = Open /\ n.answer \in Answers /\ n.answer # Open
    BY <1>3 DEF Tells
  <2>2. n.tx \in Txs /\ tx[n.tx] # NotSigned
    BY <2>1 DEF Good, AtWork
  <2>3. says \in {"ok", "failed", "expired"} => FateOf(n.tx) = says
    BY <1>3, <2>2 DEF Tells, FateOf
  <2>4. says \in {"ok", "failed", "expired"} \cup {"unsettled"}
    OBVIOUS
  <2>5. ToldAll[r] = Open /\ <<n.tx, says>> # Open
    BY <2>1, <2>2, <2>4, RelayerAssumption DEF ToldAll, ToldTo, Verdicts
  <2>6. ToldAll' = [ToldAll EXCEPT ![r] = <<n.tx, says>>]
    BY Zenon, <1>1, <2>1 DEF ToldAll, ToldTo
  <2> HIDE DEF says
  <2>7. ToldAll'[r] # Open
    BY <2>5, <2>6 DEF ToldAll
  <2>8. Fate[n.tx] = FateOf(n.tx)
    BY <2>2 DEF Fate
  <2>9. Promise!Answer(r)
    BY Zenon, <1>1, <2>2, <2>3, <2>4, <2>5, <2>6, <2>7, <2>8
       DEF Promise!Answer, Promise!Fates, Fate, ToldAll
  <2> QED
    BY <2>9 DEF Kept, Promise!Next
<1> QED
  BY <1>2, <1>3

\* The cluster decides: a fate that is not open stays what it is.
LEMMA SettleMaps ==
    ASSUME ToldAll' = ToldAll,
           \A t \in Txs : FateOf(t) = "open" \/ FateOf(t)' = FateOf(t)
    PROVE  Kept
<1>1. CASE Fate' = Fate
  BY <1>1 DEF Kept
<1>2. CASE Fate' # Fate
  <2>1. Fate' \in [Txs -> {"ok", "failed", "expired"} \cup {"open"}]
    BY DEF Fate, FateOf
  <2>2. \A t \in Txs : Fate[t] = "open" \/ Fate'[t] = Fate[t]
    BY DEF Fate
  <2>3. Promise!Settle
    BY <1>2, <2>1, <2>2 DEF Promise!Settle, Promise!Fates, Fate, ToldAll
  <2> QED
    BY <2>3 DEF Kept, Promise!Next
<1> QED
  BY <1>1, <1>2

\* A handler's step is an answer, or nothing the promise speaks of.
LEMMA HandleMaps ==
    ASSUME IInv, MaxLag <= 1, NEW r \in Requests, Handle(r)
    PROVE  Kept
<1>1. /\ UNCHANGED <<slot, tx, landed>>
      /\ Outcome(r) \/ Signs(r)
  BY HandleOutcome
<1>2. PICK n : /\ req' = [req EXCEPT ![r] = n] /\ Good(n)
               /\ Tells(req[r], n) /\ n.tx = req[r].tx
  BY <1>1 DEF Outcome, Quiet, Signs
<1> QED
  BY Zenon, <1>1, <1>2, AnswerMaps

\* A refusal is an answer; a request that is taken in is not answered yet.
LEMMA ReceiveMaps ==
    ASSUME IInv, MaxLag <= 1, NEW r \in Requests, NEW t \in Txs, NEW mode,
           Receive(r, t, mode)
    PROVE  Kept
<1>1. UNCHANGED <<slot, tx, landed>> /\ req[r].answer = Open
  BY ReceiveOutcome
<1>2. PICK n : /\ req' = [req EXCEPT ![r] = n] /\ Good(n)
               /\ n.answer \in {Open, "refused"}
  BY ReceiveOutcome
<1>3. Tells(req[r], n)
  BY <1>1, <1>2, RelayerAssumption DEF Tells, Answers
<1> QED
  BY Zenon, <1>1, <1>2, <1>3, AnswerMaps

\* A transaction whose passkey signs now had no fate before.
LEMMA WalletSignsMaps ==
    ASSUME IInv, NEW t \in Txs, WalletSigns(t)
    PROVE  Kept
<1>1. UNCHANGED <<slot, landed, req>> /\ tx[t] = NotSigned
  BY DEF WalletSigns
<1>2. ToldAll' = ToldAll
  BY <1>1, ToldKept
<1>3. \A s \in Txs : s # t => tx'[s] = tx[s]
  BY DEF WalletSigns, IInv, ClusterInv
<1>4. FateOf(t) = "open"
  BY <1>1 DEF FateOf, Confirmed, IInv, ClusterInv
<1>5. \A s \in Txs : s # t => FateOf(s)' = FateOf(s)
  BY <1>1, <1>3 DEF FateOf, Confirmed, Landed
<1> QED
  BY <1>2, <1>4, <1>5, SettleMaps

\* What lands in a block that is being voted on has no fate yet.
LEMMA LandMaps ==
    ASSUME IInv, NEW t \in Txs, Land(t)
    PROVE  Kept
<1>1. UNCHANGED <<slot, tx, req>> /\ ~Landed(t) /\ slot \in Nat
  BY DEF Land, IInv, ClusterInv
<1>2. ToldAll' = ToldAll
  BY <1>1, ToldKept
<1>3. \A s \in Txs : s # t => landed'[s] = landed[s]
  BY DEF Land, IInv, ClusterInv
<1>4. landed'[t].slot = slot + 1
  BY DEF Land, IInv, ClusterInv
<1>5. ~Confirmed(t) /\ ~Confirmed(t)'
  BY <1>1, <1>4 DEF Confirmed
<1>6. \A s \in Txs : s # t => Confirmed(s)' = Confirmed(s)
  BY <1>1, <1>3 DEF Confirmed, Landed
<1>7. \A s \in Txs : FateOf(s)' = FateOf(s)
  BY <1>1, <1>3, <1>5, <1>6 DEF FateOf
<1> QED
  BY <1>2, <1>7, SettleMaps

\* A block is confirmed or abandoned, and blockhashes expire: what was
\* confirmed stays so, and what has expired can land no more.
LEMMA TickMaps ==
    ASSUME IInv, Tick
    PROVE  Kept
<1>1. /\ UNCHANGED tx /\ slot \in Nat
      /\ slot' \in Nat /\ slot' >= slot
      /\ \/ UNCHANGED landed
         \/ landed' = [t \in Txs |-> IF Landed(t) /\ ~Confirmed(t)
                                       THEN NotLanded ELSE landed[t]]
  <2>1. slot \in Nat
    BY DEF IInv, ClusterInv
  <2>2. /\ slot' = (IF slot < MaxSlot THEN slot + 1 ELSE slot) /\ UNCHANGED tx
        /\ \/ UNCHANGED landed
           \/ landed' = [t \in Txs |-> IF Landed(t) /\ ~Confirmed(t)
                                         THEN NotLanded ELSE landed[t]]
    BY Zenon DEF Tick
  <2> QED
    BY <2>1, <2>2
<1>2. ToldAll' = ToldAll
  <2>1. ASSUME NEW r \in Requests
        PROVE  req'[r].answer = req[r].answer /\ req'[r].tx = req[r].tx
    <3>1. DOMAIN req[r] = Fields
      BY DEF IInv, RequestsInv, Good, WellFormed
    <3> QED
      BY Zenon, <3>1 DEF Tick, Fields
  <2> QED
    BY <2>1, ToldKept
<1>3. ASSUME NEW s \in Txs, Confirmed(s)
      PROVE  Confirmed(s)' /\ landed'[s] = landed[s]
  BY <1>1, <1>3 DEF Confirmed, Landed, IInv, ClusterInv
<1>4. ASSUME NEW s \in Txs, ~Confirmed(s), tx[s] # NotSigned,
             slot > tx[s].hash + Validity
      PROVE  ~Confirmed(s)' /\ slot' > tx[s].hash + Validity
  <2>1. tx[s].hash \in Nat
    BY <1>4 DEF IInv, ClusterInv
  <2>2. ASSUME Landed(s)
        PROVE  FALSE
    <3>1. landed[s].slot \in Nat /\ landed[s].slot <= tx[s].hash + Validity
      BY <2>1, <2>2, RelayerAssumption DEF IInv, ClusterInv, Landed
    <3> QED
      BY <1>1, <1>4, <2>1, <2>2, <3>1, RelayerAssumption DEF Confirmed
  <2>3. ~Landed(s)'
    BY <1>1, <2>2 DEF Landed
  <2> QED
    BY <1>1, <1>4, <2>1, <2>3, RelayerAssumption DEF Confirmed
<1>5. ASSUME NEW s \in Txs
      PROVE  FateOf(s) = "open" \/ FateOf(s)' = FateOf(s)
  <2>1. CASE Confirmed(s)
    BY <1>3, <2>1 DEF FateOf
  <2>2. CASE ~Confirmed(s)
    BY <1>1, <1>4, <2>2 DEF FateOf
  <2> QED
    BY <2>1, <2>2
<1> QED
  BY <1>2, <1>5, SettleMaps

\* A restart, a watch and a caller's own send tell nobody anything.
LEMMA OthersMap ==
    ASSUME IInv,
           \/ \E t \in Txs : CallerSends(t) \/ Watch(t)
           \/ Restart
           \/ UNCHANGED vars
    PROVE  Kept
<1>1. UNCHANGED <<slot, tx, landed>>
  BY DEF CallerSends, Watch, Restart, vars, cluster
<1>2. Fate' = Fate
  BY <1>1, FateKept
<1>3. ASSUME NEW r \in Requests
      PROVE  req'[r].answer = req[r].answer /\ req'[r].tx = req[r].tx
  <2>1. DOMAIN req[r] = Fields
    BY DEF IInv, RequestsInv, Good, WellFormed
  <2>2. CASE Restart
    BY <2>1, <2>2 DEF Restart, Fields
  <2>3. CASE ~Restart
    BY <2>3 DEF CallerSends, Watch, vars
  <2> QED
    BY <2>2, <2>3
<1>4. ToldAll' = ToldAll
  BY <1>3, ToldKept
<1> QED
  BY <1>2, <1>4 DEF Kept

-----------------------------------------------------------------------------
\* A later bank has executed what an earlier one has.
LEMMA CounterGrows ==
    ASSUME landed' \in [Txs -> [slot: Nat, ok: BOOLEAN] \cup {NotLanded}]
    PROVE  CountsUp'
<1>1. ASSUME NEW v \in Nat, NEW w \in Nat, v <= w
      PROVE  /\ CounterAt(v)' \in Nat /\ CounterAt(w)' \in Nat
             /\ CounterAt(v)' <= CounterAt(w)'
  <2>1. IsFiniteSet(Succeeded(w)') /\ IsFiniteSet(Succeeded(v)')
    BY RelayerAssumption, FS_Subset DEF Succeeded
  <2>2. Succeeded(v)' \subseteq Succeeded(w)'
    BY <1>1 DEF Succeeded, Landed
  <2> QED
    BY <2>1, <2>2, FS_Subset, FS_CardinalityType DEF CounterAt
<1> QED
  BY <1>1 DEF CountsUp

-----------------------------------------------------------------------------
(***************************************************************************)
(* The rate window.                                                        *)
(***************************************************************************)
\* A step that signs nothing leaves every window as it was.
LEMMA RateKept ==
    ASSUME IInv, slot' \in Nat, slot' >= slot, life' = life,
           signedAt' \in {signedAt, Recent},
           \A q \in Requests :
               /\ req'[q].at = req[q].at
               /\ req[q].at # NotSigned => req'[q].life = req[q].life
    PROVE  RateInv'
<1>1. \A s \in Nat, l \in Nat : SignedIn(s, l)' = SignedIn(s, l)
  BY DEF SignedIn
<1>2. Recent \subseteq signedAt
  BY DEF Recent
<1>3. signedAt' \subseteq Requests \X Nat /\ IsFiniteSet(signedAt')
  BY <1>2, FS_Subset DEF IInv, RateInv
<1>4. ASSUME NEW q \in Requests, req[q].at # NotSigned, req[q].life = life,
             slot' - req[q].at <= Hour
      PROVE  <<q, req[q].at>> \in signedAt'
  <2>1. req[q].at \in Nat /\ slot \in Nat
    BY <1>4 DEF IInv, RequestsInv, ClusterInv, Good, WellFormed
  <2>2. slot - req[q].at <= Hour
    BY <1>4, <2>1, RelayerAssumption
  <2> QED
    BY <1>4, <2>2 DEF IInv, RateInv, Recent
<1>5. \A s \in Nat, l \in Nat : Cardinality(SignedIn(s, l)') <= MaxTxPerHour
  BY <1>1 DEF IInv, RateInv
<1> QED
  BY <1>3, <1>4, <1>5 DEF RateInv

\* takeRateSlot: every signature of this life in a window that ends now or
\* later is among the recent ones it counts.
LEMMA WindowIsRecent ==
    ASSUME IInv, NEW s \in Nat, slot <= s + Hour
    PROVE  Cardinality(SignedIn(s, life)) <= Cardinality(Recent)
<1> DEFINE S == SignedIn(s, life)
           f == [q \in S |-> <<q, req[q].at>>]
<1>1. IsFiniteSet(Recent)
  BY FS_Subset DEF IInv, RateInv, Recent
<1>2. slot \in Nat
  BY DEF IInv, ClusterInv
<1>3. ASSUME NEW q \in S
      PROVE  f[q] \in Recent
  <2>1. q \in Requests /\ req[q].at # NotSigned /\ req[q].life = life
        /\ req[q].at \in s .. s + Hour
    BY DEF SignedIn
  <2>2. slot - req[q].at <= Hour
    BY <1>2, <2>1, RelayerAssumption
  <2>3. <<q, req[q].at>> \in signedAt
    BY <2>1, <2>2 DEF IInv, RateInv
  <2> QED
    BY <2>2, <2>3 DEF Recent
<1>4. f \in Injection(S, Recent)
  BY <1>3 DEF Injection, IsInjective
<1> QED
  BY <1>1, <1>4, FS_Injection

\* A step that signs: the window it signs in had room.
LEMMA RateSigned ==
    ASSUME IInv, UNCHANGED <<slot, life>>, NEW r \in Requests, Signs(r)
    PROVE  RateInv'
<1>1. PICK n : /\ req' = [req EXCEPT ![r] = n]
               /\ n.life = life /\ n.at = slot /\ req[r].at = NotSigned
               /\ Cardinality(Recent) < MaxTxPerHour
               /\ signedAt' = Recent \cup {<<r, slot>>}
  BY Zenon DEF Signs
<1>2. slot \in Nat /\ DOMAIN req = Requests
  BY DEF IInv, ClusterInv, RequestsInv
<1>3. /\ Recent \subseteq signedAt /\ signedAt \subseteq Requests \X Nat
      /\ IsFiniteSet(Recent) /\ Cardinality(Recent) \in Nat
  BY FS_Subset, FS_CardinalityType DEF IInv, RateInv, Recent
<1>4. signedAt' \subseteq Requests \X Nat /\ IsFiniteSet(signedAt')
  <2>1. IsFiniteSet(Recent \cup {<<r, slot>>})
    BY Zenon, <1>3, FS_AddElement
  <2> QED
    BY <1>1, <1>2, <1>3, <2>1
<1>5. ASSUME NEW q \in Requests, req'[q].at # NotSigned, req'[q].life = life,
             slot - req'[q].at <= Hour
      PROVE  <<q, req'[q].at>> \in signedAt'
  BY <1>1, <1>2, <1>5 DEF IInv, RateInv, Recent
<1>6. ASSUME NEW s \in Nat, NEW l \in Nat
      PROVE  Cardinality(SignedIn(s, l)') <= MaxTxPerHour
  <2>1. Cardinality(SignedIn(s, l)) <= MaxTxPerHour
    BY DEF IInv, RateInv
  <2>2. r \notin SignedIn(s, l)
    BY <1>1 DEF SignedIn
  <2>3. CASE l = life /\ slot \in s .. s + Hour
    <3>1. SignedIn(s, l)' \subseteq SignedIn(s, l) \cup {r}
      BY <1>1, <1>2 DEF SignedIn
    <3>2. IsFiniteSet(SignedIn(s, l)) /\ IsFiniteSet(SignedIn(s, l) \cup {r})
      BY RelayerAssumption, FS_Subset, FS_AddElement DEF SignedIn
    <3>3. /\ Cardinality(SignedIn(s, l)') <= Cardinality(SignedIn(s, l) \cup {r})
          /\ Cardinality(SignedIn(s, l)') \in Nat
      BY <3>1, <3>2, FS_Subset, FS_CardinalityType
    <3>4. /\ Cardinality(SignedIn(s, l) \cup {r}) = Cardinality(SignedIn(s, l)) + 1
          /\ Cardinality(SignedIn(s, l)) \in Nat
      BY <2>2, <3>2, FS_AddElement, FS_CardinalityType
    <3>5. Cardinality(SignedIn(s, l)) <= Cardinality(Recent)
      BY <1>2, <2>3, WindowIsRecent, RelayerAssumption
    <3> QED
      BY <1>1, <1>3, <3>3, <3>4, <3>5, RelayerAssumption
  <2>4. CASE ~(l = life /\ slot \in s .. s + Hour)
    <3>1. SignedIn(s, l)' = SignedIn(s, l)
      BY <1>1, <1>2, <2>4 DEF SignedIn
    <3> QED
      BY <2>1, <3>1
  <2> QED
    BY <2>3, <2>4
<1> QED
  BY <1>4, <1>5, <1>6 DEF RateInv

-----------------------------------------------------------------------------
(***************************************************************************)
(* Every step keeps the invariant.                                         *)
(***************************************************************************)
\* A handler's step.
LEMMA HandleKeeps ==
    ASSUME IInv, NEW r \in Requests, Handle(r)
    PROVE  IInv'
<1>1. /\ UNCHANGED <<slot, tx, landed, life>>
      /\ slotFloor' \in Nat /\ slotFloor' >= slotFloor
      /\ sent' \subseteq sent \cup {req[r].tx} /\ req[r].pc # "idle"
      /\ \/ Outcome(r) /\ signedAt' \in {signedAt, Recent}
         \/ Signs(r)
  BY HandleOutcome
<1>2. /\ Good(req[r]) /\ SaidOk(req[r]) /\ DOMAIN req = Requests
      /\ slot \in Nat
  BY DEF IInv, RequestsInv, ClusterInv
<1>3. req[r].tx \in Txs /\ tx[req[r].tx] # NotSigned
  BY <1>1, <1>2 DEF Good, AtWork
<1>4. ClusterInv'
  <2>1. \A t \in sent' : t \in Txs /\ tx[t] # NotSigned
    BY <1>1, <1>3 DEF IInv, ClusterInv
  <2> QED
    BY <1>1, <2>1, ClusterKept DEF IInv
<1>5. CASE Outcome(r) /\ signedAt' \in {signedAt, Recent}
  <2>1. PICK n : /\ req' = [req EXCEPT ![r] = n]
                 /\ Quiet(req[r], n)
                 /\ n.answer = "ok" => n.resent \/ landed[n.tx].slot <= slotFloor'
    BY Zenon, <1>5 DEF Outcome
  <2>2. /\ Good(n) /\ n.at = req[r].at /\ n.life = req[r].life
        /\ n.answer = "ok" => Confirmed(n.tx)
    BY <1>2, <2>1 DEF Quiet, Tells, SaidOk
  <2>3. RequestsInv'
    BY Zenon, <1>1, <2>1, <2>2, OneChanges
  <2>4. \A q \in Requests :
               /\ req'[q].at = req[q].at
               /\ req[q].at # NotSigned => req'[q].life = req[q].life
    BY <1>2, <2>1, <2>2
  <2>5. RateInv'
    BY <1>1, <1>2, <1>5, <2>4, RateKept
  <2> QED
    BY <1>4, <2>3, <2>5 DEF IInv
<1>6. CASE Signs(r)
  <2>1. PICK n : /\ req' = [req EXCEPT ![r] = n] /\ Good(n) /\ n.answer # "ok"
    BY Zenon, <1>6 DEF Signs
  <2>2. RequestsInv'
    BY Zenon, <1>1, <2>1, OneChanges
  <2>3. RateInv'
    BY <1>1, <1>6, RateSigned
  <2> QED
    BY <1>4, <2>2, <2>3 DEF IInv
<1> QED
  BY <1>1, <1>5, <1>6

\* So the invariant survives its arrival.
LEMMA ReceiveKeeps ==
    ASSUME IInv, NEW r \in Requests, NEW t \in Txs, NEW mode,
           Receive(r, t, mode)
    PROVE  IInv'
<1>1. /\ UNCHANGED <<slot, tx, landed, life>>
      /\ UNCHANGED <<sent, signedAt, slotFloor>> /\ req[r].at = NotSigned
  BY ReceiveOutcome
<1>2. PICK n : /\ req' = [req EXCEPT ![r] = n] /\ Good(n)
               /\ n.at = NotSigned /\ n.answer \in {Open, "refused"}
  BY ReceiveOutcome
<1>3. /\ DOMAIN req = Requests /\ slot \in Nat /\ slotFloor \in Nat
      /\ \A s \in sent : s \in Txs /\ tx[s] # NotSigned
  BY DEF IInv, RequestsInv, ClusterInv
<1>4. slotFloor' \in Nat /\ slotFloor' >= slotFloor /\ n.answer # "ok"
  BY <1>1, <1>2, <1>3, RelayerAssumption DEF Answers
<1>5. RequestsInv'
  BY Zenon, <1>1, <1>2, <1>4, OneChanges
<1>6. ClusterInv'
  BY <1>1, <1>3, <1>4, ClusterKept DEF IInv
<1>7. RateInv'
  <2>1. \A p \in Requests :
               /\ req'[p].at = req[p].at
               /\ req[p].at # NotSigned => req'[p].life = req[p].life
    BY <1>1, <1>2, <1>3
  <2> QED
    BY <1>1, <1>3, <2>1, RateKept
<1> QED
  BY <1>5, <1>6, <1>7 DEF IInv

\* Whoever has the signed bytes sends them, a watch raises the floor, or
\* nothing happens.
LEMMA OthersKeep ==
    ASSUME IInv,
           \/ \E t \in Txs : CallerSends(t) \/ Watch(t)
           \/ UNCHANGED vars
    PROVE  IInv'
<1>1. /\ slot \in Nat /\ slotFloor \in Nat
      /\ \A s \in sent : s \in Txs /\ tx[s] # NotSigned
  BY DEF IInv, ClusterInv
<1>2. ASSUME UNCHANGED <<slot, tx, landed, life, req, signedAt>>,
             slotFloor' \in Nat, slotFloor' >= slotFloor,
             \A s \in sent' : s \in Txs /\ tx[s] # NotSigned
      PROVE  IInv'
  <2>1. ClusterInv'
    BY <1>2, ClusterKept DEF IInv
  <2>2. RequestsInv'
    BY <1>2, RequestsKept
  <2>3. RateInv'
    BY <1>1, <1>2, RateKept
  <2> QED
    BY <2>1, <2>2, <2>3 DEF IInv
<1>3. CASE UNCHANGED vars
  BY <1>1, <1>2, <1>3 DEF vars
<1>4. ASSUME NEW t \in Txs, CallerSends(t)
      PROVE  IInv'
  <2>1. PICK r \in Requests :
           req[r].tx = t /\ req[r].answer \in {"ok", "sent", "signed"}
    BY <1>4 DEF CallerSends
  <2>2. tx[t] # NotSigned
    BY <2>1, RelayerAssumption DEF IInv, RequestsInv, Good, AtWork, Answers
  <2> QED
    BY <1>1, <1>2, <1>4, <2>2 DEF CallerSends
<1>5. ASSUME NEW t \in Txs, Watch(t)
      PROVE  IInv'
  <2>1. ASSUME NEW v \in Views, "settled" \in StatusAt(t, v)
        PROVE  landed[t].slot \in Nat
    BY <2>1 DEF IInv, ClusterInv, StatusAt, Landed
  <2>2. slotFloor' \in Nat /\ slotFloor' >= slotFloor
    BY <1>1, <1>5, <2>1 DEF Watch, Settled, Raised, Max2
  <2> QED
    BY Zenon, <1>1, <1>2, <1>5, <2>2 DEF Watch, cluster
<1> QED
  BY <1>3, <1>4, <1>5

\* A passkey signs.
LEMMA WalletSignsGood ==
    ASSUME IInv, NEW t \in Txs, WalletSigns(t)
    PROVE  IInv'
<1>1. UNCHANGED <<slot, req, signedAt, life>> /\ slot \in Nat
  BY DEF WalletSigns, IInv, ClusterInv
<1>2. RateInv'
  BY <1>1, RateKept
<1> QED
  BY <1>2, WalletSignsKeeps DEF IInv

\* A transaction gets into the block being voted on.
LEMMA LandGood ==
    ASSUME IInv, NEW t \in Txs, Land(t)
    PROVE  IInv'
<1>1. UNCHANGED <<slot, req, signedAt, life>> /\ slot \in Nat
  BY DEF Land, IInv, ClusterInv
<1>2. landed' \in [Txs -> [slot: Nat, ok: BOOLEAN] \cup {NotLanded}]
  BY <1>1 DEF Land, IInv, ClusterInv
<1>3. RateInv'
  BY <1>1, RateKept
<1> QED
  BY <1>2, <1>3, CounterGrows, LandKeeps DEF IInv

\* Two seconds pass.
LEMMA TickGood ==
    ASSUME IInv, Tick
    PROVE  IInv'
<1>1. UNCHANGED <<signedAt, life>>
      /\ slot' = (IF slot < MaxSlot THEN slot + 1 ELSE slot)
  BY Zenon DEF Tick
<1>2. landed' \in [Txs -> [slot: Nat, ok: BOOLEAN] \cup {NotLanded}]
  <2>1. \/ UNCHANGED landed
        \/ landed' = [t \in Txs |-> IF Landed(t) /\ ~Confirmed(t)
                                      THEN NotLanded ELSE landed[t]]
    BY Zenon DEF Tick
  <2> QED
    BY <2>1 DEF IInv, ClusterInv
<1>3. /\ ClusterInv' /\ RequestsInv'
      /\ \A q \in Requests :
           req'[q].at = req[q].at /\ req'[q].life = req[q].life
  BY <1>2, CounterGrows, TickKeeps
<1>4. slot' \in Nat /\ slot' >= slot
  BY <1>1 DEF IInv, ClusterInv
<1>5. RateInv'
  BY <1>1, <1>3, <1>4, RateKept
<1> QED
  BY <1>3, <1>5 DEF IInv

\* The process restarts: nothing of the new life is signed yet.
LEMMA RestartGood ==
    ASSUME IInv, Restart
    PROVE  IInv'
<1>1. /\ ClusterInv' /\ RequestsInv'
      /\ \A q \in Requests :
           /\ req'[q].at = req[q].at /\ req'[q].life = req[q].life
           /\ req'[q].life # life'
  BY RestartKeeps
<1>2. \A s \in Nat, l \in Nat : SignedIn(s, l)' = SignedIn(s, l)
  BY <1>1 DEF SignedIn
<1>3. \A s \in Nat, l \in Nat : Cardinality(SignedIn(s, l)') <= MaxTxPerHour
  BY <1>2 DEF IInv, RateInv
<1>4. signedAt' \subseteq Requests \X Nat /\ IsFiniteSet(signedAt')
  BY FS_EmptySet DEF Restart
<1>5. RateInv'
  BY <1>1, <1>3, <1>4 DEF RateInv
<1> QED
  BY <1>1, <1>5 DEF IInv

\* The relayer starts with no request, no signature and no floor.
LEMMA InitGood ==
    ASSUME Init
    PROVE  IInv
<1>1. ClusterInv
  <2>1. \A v \in Nat : Succeeded(v) = {}
    BY DEF Init, Succeeded, Landed
  <2>2. \A v \in Nat : CounterAt(v) = 0
    BY <2>1, FS_EmptySet DEF CounterAt
  <2>3. CountsUp
    BY <2>2 DEF CountsUp
  <2>4. \A t \in Txs : tx[t] = NotSigned /\ ~Landed(t)
    BY DEF Init, Landed
  <2>5. slot \in 0 .. MaxSlot /\ slotFloor \in Nat /\ life \in Nat /\ sent = {}
    BY RelayerAssumption DEF Init
  <2>6. /\ tx \in [Txs -> [counter: Nat, slot: Nat, hash: Nat] \cup {NotSigned}]
        /\ landed \in [Txs -> [slot: Nat, ok: BOOLEAN] \cup {NotLanded}]
    BY DEF Init
  <2> QED
    BY Zenon, <2>3, <2>4, <2>5, <2>6 DEF ClusterInv
<1>2. /\ DOMAIN Idle = Fields
      /\ Idle.pc = "idle" /\ Idle.pre = 0 /\ Idle.min = 0
      /\ Idle.ctries = 0 /\ Idle.expired = 0 /\ Idle.at = NotSigned
      /\ Idle.life = 0 /\ Idle.due = {} /\ Idle.resent = FALSE
      /\ Idle.answer = Open
  BY DEF Idle, Request, Fields
<1>3. Good(Idle) /\ SaidOk(Idle)
  <2>1. WellFormed(Idle) /\ OverFloor(Idle) /\ Expiring(Idle)
    BY <1>2 DEF WellFormed, OverFloor, Expiring, Confirming
  <2>2. Idle.answer \notin Answers
    BY <1>2, RelayerAssumption
  <2>3. AtWork(Idle) /\ Stale(Idle) /\ SaidOk(Idle)
    BY <1>2, <2>2 DEF Init, AtWork, Stale, SaidOk, Answers
  <2> QED
    BY <2>1, <2>3 DEF Good
<1>4. RequestsInv
  BY <1>3 DEF Init, RequestsInv
<1>5. RateInv
  <2>1. \A s \in Nat, l \in Nat : SignedIn(s, l) = {}
    BY <1>2 DEF Init, SignedIn
  <2>2. Cardinality({}) = 0 /\ IsFiniteSet({})
    BY FS_EmptySet
  <2>3. \A s \in Nat, l \in Nat : Cardinality(SignedIn(s, l)) <= MaxTxPerHour
    BY <2>1, <2>2, RelayerAssumption
  <2>4. signedAt = {} /\ \A r \in Requests : req[r].at = NotSigned
    BY <1>2 DEF Init
  <2> QED
    BY <2>2, <2>3, <2>4 DEF RateInv
<1> QED
  BY <1>1, <1>4, <1>5 DEF IInv

-----------------------------------------------------------------------------
(***************************************************************************)
(* The theorems.                                                           *)
(***************************************************************************)
\* Every step of the relayer, its callers and the cluster keeps the invariant.
THEOREM RelayerInductive == Spec => []IInv
<1>1. IInv /\ [Next]_vars => IInv'
  BY HandleKeeps, ReceiveKeeps, OthersKeep, WalletSignsGood, LandGood, TickGood,
     RestartGood DEF Next
<1> QED
  BY <1>1, InitGood, PTL DEF Spec

\* takeRateSlot: in no window of Hour ticks does one life of the relayer sign
\* more than MaxTxPerHour transactions, with any number of handlers.
THEOREM RateLimited == Spec => []RateBound
<1>1. IInv => RateBound
  BY RelayerAssumption DEF IInv, RateInv, SignedIn, RateBound
<1> QED
  BY <1>1, RelayerInductive, PTL

\* slotFloor: a request that comes after a caller was told "confirmed" is
\* judged by banks that have executed that transaction.
THEOREM OwnWritesRead == Spec => []ReadsOwnWrites
<1>1. IInv => ReadsOwnWrites
  BY DEF IInv, RequestsInv, Good, WellFormed, OverFloor, ReadsOwnWrites
<1> QED
  BY <1>1, RelayerInductive, PTL

\* checkSimulation: a counter it calls stale has been used, when no node is
\* further behind than the slot a caller may name (SIGNED_SLOT_AHEAD_MAX).
THEOREM StaleIsStale ==
    MaxLag <= SignedAheadMax => (Spec => []StaleCounterTrue)
<1> SUFFICES ASSUME MaxLag <= SignedAheadMax PROVE Spec => []StaleCounterTrue
  OBVIOUS
<1>1. IInv => StaleCounterTrue
  BY DEF IInv, RequestsInv, Good, Stale, StaleCounterTrue
<1> QED
  BY <1>1, RelayerInductive, PTL

\* The relayer implements PaymasterService when the nodes of the pool are at
\* most two seconds apart: what its answers say of a transaction's fate is
\* true when they say it and stays true.
THEOREM ServiceKept == MaxLag <= 1 => (Spec => Service)
<1> SUFFICES ASSUME MaxLag <= 1 PROVE Spec => Service
  OBVIOUS
<1>1. Init => Promise!Init
  BY DEF Init, Promise!Init, FateOf, ToldTo, Confirmed, Landed, Idle, Request
<1>2. IInv /\ [Next]_vars => Kept
  BY HandleMaps, ReceiveMaps, WalletSignsMaps, LandMaps, TickMaps, OthersMap
     DEF Next
<1>3. Kept => [Promise!Next]_<<[t \in Txs |-> FateOf(t)],
                               [r \in Requests |-> ToldTo(r)]>>
  BY DEF Kept, Fate, ToldAll
<1> QED
  BY <1>1, <1>2, <1>3, RelayerInductive, PTL DEF Spec, Service, Promise!Spec
=============================================================================
