------------------------------ MODULE MCRelayer ------------------------------
(***************************************************************************)
(* An instance of Relayer for TLC: two callers who send two transactions,  *)
(* the same or one each, and a rate limit of one.  Where only one of them  *)
(* has called, the call may be of any mode and the relayer may restart.    *)
(***************************************************************************)
EXTENDS Relayer, TLC

CONSTANTS t1, t2

Callers == Permutations(Requests)
AllModes == {"signTransaction", "confirmed", "sent", "signed"}
EqualCosts == [t \in Txs |-> 1]

(* A bound: two calls meet only up to slot 2, where both are to answer     *)
(* once confirmed and the relayer has not restarted.                       *)
Calls == {r \in Requests : req[r].pc # "idle"}
Meetings ==
    \/ Cardinality(Calls) <= 1
    \/ life = 0 /\ slot <= 2 /\ \A r \in Calls : req[r].mode = "confirmed"
=============================================================================
