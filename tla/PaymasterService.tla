-------------------------- MODULE PaymasterService --------------------------
(***************************************************************************)
(* What the relayer promises its callers: every transaction meets one fate *)
(* and keeps it, and an answer that speaks of a fate tells the true one.   *)
(***************************************************************************)
CONSTANTS Requests, Txs, Open

VARIABLES
    fate,   \* "open", or how the transaction ended for good
    told    \* what each request was answered, or Open

Fates == {"ok", "failed", "expired"}

Init ==
    /\ fate = [t \in Txs |-> "open"]
    /\ told = [r \in Requests |-> Open]

\* The cluster decides.
Settle ==
    /\ fate' # fate
    /\ \A t \in Txs : fate[t] = "open" \/ fate'[t] = fate[t]
    /\ fate' \in [Txs -> Fates \cup {"open"}]
    /\ UNCHANGED told

\* An answer names the fate of its transaction, or no fate at all.
Answer(r) ==
    /\ told[r] = Open /\ told'[r] # Open
    /\ UNCHANGED fate
    /\ \E t \in Txs, says \in Fates \cup {"unsettled"} :
         /\ says \in Fates => fate[t] = says
         /\ told' = [told EXCEPT ![r] = <<t, says>>]

Next == Settle \/ \E r \in Requests : Answer(r)

Spec == Init /\ [][Next]_<<fate, told>>
=============================================================================
