----------------------------- MODULE OwnWallet -----------------------------
(***************************************************************************)
(* Which wallet belongs to a returning passkey user: the chain reads of    *)
(* sdk-legacy/src/utils/ownership.ts, made one RPC call at a time while    *)
(* transactions land, and the rule applied to what they returned.          *)
(*                                                                         *)
(* Every read may be answered by another node of a load balanced endpoint, *)
(* each at its own slot; a read that names a minContextSlot is answered at *)
(* or after it, or is retried and in the end throws.                       *)
(***************************************************************************)
EXTENDS WalletHolders

CONSTANTS
    SlotAhead   \* the node asked for the slot may be ahead of the one scanned next

VARIABLES
    step,       \* next read of findOwnPasskeyWallet
    now,        \* slot expiries are compared against
    found,      \* what the reads returned
    facts       \* WalletFacts, reduced to what the rule uses

lookVars == <<step, now, found, facts>>
vars == <<slot, chain, txs, step, now, found, facts>>

None == [alone |-> FALSE, signed |-> FALSE, at |-> 0]

(* No slot asked for.                                                      *)
AnySlot == 0

(* atOrAfterSlot: a node answers at some slot no older than the floor.     *)
Answers(floor) == {v \in 0 .. slot : v >= floor}

Later(a, b) == IF a >= b THEN a ELSE b

(* scanPasskeyWalletCandidates finds the authority by its public hash, so  *)
(* whatever key it stores; verifyOwnershipProof keeps a candidate whose    *)
(* stored key signed the fresh challenge.                                  *)
ScanCandidates ==
    /\ step = "scan"
    /\ \E v \in Answers(AnySlot) :
         step' = IF chain[v].own = "intact" THEN "slot" ELSE "done"
    /\ UNCHANGED <<slot, chain, txs, now, found, facts>>

(* describePasskeyWallets: the slot, then the wallet account, to drop a    *)
(* candidate whose wallet is gone.                                         *)
ReadSlot ==
    /\ step = "slot"
    /\ \E v \in Answers(AnySlot) : now' = v
    /\ step' = "wallet"
    /\ UNCHANGED <<slot, chain, txs, found, facts>>

ReadWallet ==
    /\ step = "wallet"
    /\ \E v \in Answers(AnySlot) :
         step' = IF chain[v].alive THEN "authorities" ELSE "done"
    /\ UNCHANGED <<slot, chain, txs, now, found, facts>>

(* readSpendingState, first step: the authorities, at no particular slot.  *)
ReadAuthorities ==
    /\ step = "authorities"
    /\ \E v \in Answers(IF SlotAhead THEN AnySlot ELSE now) :
         found' = [found EXCEPT !.after = v, !.upTo = v,
                                !.own = chain[v].own, !.count = chain[v].count,
                                !.others = chain[v].auths]
    /\ step' = "powers"
    /\ UNCHANGED <<slot, chain, txs, now, facts>>

(* Second step: sessions and deferred executions, concurrently, each at or *)
(* after the slot the authorities were read at.                            *)
ReadSessions ==
    /\ step = "powers" /\ "sessions" \notin found.seen
    /\ \E v \in Answers(found.after) :
         found' = [found EXCEPT !.seen = @ \cup {"sessions"},
                                !.upTo = Later(@, v),
                                !.sess = chain[v].sess]
    /\ UNCHANGED <<slot, chain, txs, step, now, facts>>

ReadDeferred ==
    /\ step = "powers" /\ "deferred" \notin found.seen
    /\ \E v \in Answers(found.after) :
         found' = [found EXCEPT !.seen = @ \cup {"deferred"},
                                !.upTo = Later(@, v),
                                !.defer = chain[v].defer]
    /\ UNCHANGED <<slot, chain, txs, step, now, facts>>

\* Mutant: the last reads may be answered from before the powers were read.
PowersRead_FirstFloor ==
    /\ step = "powers" /\ found.seen = {"sessions", "deferred"}
    /\ found' = [found EXCEPT !.seen = {}]
    /\ step' = "vault"
    /\ UNCHANGED <<slot, chain, txs, now, facts>>

PowersRead ==
    /\ step = "powers" /\ found.seen = {"sessions", "deferred"}
    /\ found' = [found EXCEPT !.seen = {}, !.after = found.upTo]
    /\ step' = "vault"
    /\ UNCHANGED <<slot, chain, txs, now, facts>>

(* Third step: the wallet account, the vault and its watched canonical     *)
(* token accounts; and the token accounts the vault owns.                  *)
ReadAccounts ==
    /\ step = "vault" /\ "accounts" \notin found.seen
    /\ \E v \in Answers(found.after) :
         found' = [found EXCEPT !.seen = @ \cup {"accounts"},
                                !.upTo = Later(@, v),
                                !.alive = chain[v].alive, !.plain = chain[v].plain,
                                !.grants = @ \cup {g \in chain[v].grants : g.kind = "owner"}]
    /\ UNCHANGED <<slot, chain, txs, step, now, facts>>

ReadVaultTokenAccounts ==
    /\ step = "vault" /\ "tokens" \notin found.seen
    /\ \E v \in Answers(found.after) :
         found' = [found EXCEPT !.seen = @ \cup {"tokens"},
                                !.upTo = Later(@, v),
                                !.grants = @ \cup {g \in chain[v].grants : g.kind = "delegate"}]
    /\ UNCHANGED <<slot, chain, txs, step, now, facts>>

(* A session or deferred execution still works at the slot it expires at.  *)
Live(exp) == exp >= now

(* describeCandidate's controlledAlone.                                    *)
ControlledAlone ==
    /\ found.own = "intact"
    /\ found.plain
    /\ found.others \subseteq Trusted
    /\ \A x \in found.sess : Live(x.exp) => x.key \in Trusted
    /\ \A e \in found.defer : ~Live(e)
    /\ \A g \in found.grants : g.to \in Trusted

(* describeCandidate: null for a wallet gone since the first read.         *)
Describe ==
    /\ step = "vault" /\ found.seen = {"accounts", "tokens"}
    /\ facts' = IF ~found.alive THEN None
                ELSE [alone |-> ControlledAlone,
                      signed |-> found.own = "intact" /\ found.count > 0,
                      at |-> found.upTo]
    /\ step' = "done"
    /\ UNCHANGED <<slot, chain, txs, now, found>>

(* atOrAfterSlot gives up after its tries: the call throws.                *)
ReadFails ==
    /\ step \in {"powers", "vault"} /\ Answers(found.after) # 0 .. slot
    /\ step' = "done"
    /\ UNCHANGED <<slot, chain, txs, now, found, facts>>

(* pickOwnWallet, for the one wallet described.                            *)
Adopted == step = "done" /\ facts.signed /\ facts.alone

NothingFound ==
    [after |-> AnySlot, upTo |-> AnySlot, seen |-> {}, own |-> "none", count |-> 0,
     others |-> {}, sess |-> {}, defer |-> {}, alive |-> FALSE, plain |-> FALSE,
     grants |-> {}]

Look ==
    \/ ScanCandidates \/ ReadSlot \/ ReadWallet \/ ReadAuthorities
    \/ ReadSessions \/ ReadDeferred \/ PowersRead
    \/ ReadAccounts \/ ReadVaultTokenAccounts \/ Describe \/ ReadFails

Chain == (Lands \/ SlotPasses) /\ UNCHANGED lookVars

Init ==
    /\ ChainInit
    /\ step = "scan" /\ now = 0 /\ found = NothingFound /\ facts = None

Next == Look \/ Chain

Spec == Init /\ [][Next]_vars

-----------------------------------------------------------------------------
(* controlledAlone is true: from the moment describeCandidate reports it,  *)
(* nothing but the passkey and vouched keys can spend from the wallet,     *)
(* whatever landed between and during the reads.  No transaction is seen   *)
(* by halves: a power turned into another (a session into a delegate, an   *)
(* owner into a session) shows as the one or as the other.                 *)
(* And it is adopted without asking the user (pickOwnWallet) only if the   *)
(* passkey itself has signed on it, with the key it still holds.           *)
ControlledAloneHolds ==
    /\ facts.alone => HeldAlone(chain[slot], slot)
    /\ Adopted => \E v \in 0 .. slot : chain[v].own = "intact" /\ chain[v].count > 0
=============================================================================
