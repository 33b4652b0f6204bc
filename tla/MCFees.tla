------------------------------- MODULE MCFees -------------------------------
(***************************************************************************)
(* Instances of Protocol and of FeeClients in front of it for TLC.  One    *)
(* run explores four small worlds of the same constants: the first state   *)
(* picks a scope, and no step may leave it.                                *)
(***************************************************************************)
EXTENDS FeeClients

CONSTANTS u1, u2, c1, k1, k2

VARIABLE scope

\* A user, and a shard: the second makes a sweep's two accounts one.
MC_Treasuries == {u2, Shard(0)}

\* Lamports may reach a shard and a record before they are opened, or after.
MC_Gifts == {Shard(0), Record(u2)}

\* A fee on everything; wallets free.
MC_FeePairs == {<<1, 1>>, <<0, 1>>}

ProgramScope ==
    [clients |-> FALSE, versions |-> 1 .. MaxVersion, admins |-> {u1}, gifts |-> FALSE,
     swept |-> 0, treasuries |-> {u2}, shards |-> {0},
     fees |-> {<<0, 0>>, <<0, 1>>, <<1, 1>>}, numShards |-> {2}, calls |-> {}, kinds |-> {}, made |-> 0]
ClientScope ==
    [ProgramScope EXCEPT !.clients = TRUE, !.versions = {1}]

Scopes ==
    [ledger |-> [ProgramScope EXCEPT !.versions = {1}, !.gifts = TRUE, !.swept = MaxSwept,
                                     !.treasuries = {u2, Shard(0)}, !.fees = {<<1, 1>>}],
     governance |-> [ProgramScope EXCEPT !.admins = {u1, u2}],
     staleConfig |->
       [ClientScope EXCEPT !.shards = {0, 1}, !.fees = MC_FeePairs, !.calls = {k1},
                           !.kinds = CallKinds, !.made = 2],
     races |->
       [ClientScope EXCEPT !.fees = {<<1, 1>>}, !.numShards = {1}, !.calls = {k1, k2},
                           !.kinds = {"execute"}, !.made = MaxCalls]]

Within(s) ==
    /\ binary \in s.versions /\ swept <= s.swept /\ shards \subseteq s.shards
    /\ config # NoAccount =>
         /\ {config.admin, config.pending_admin} \subseteq s.admins \cup {NoKey}
         /\ config.treasury \in s.treasuries /\ config.num_shards \in s.numShards
         /\ <<config.creation_fee, config.execution_fee>> \in s.fees
    /\ calls <= s.made
    /\ \A k \in Calls : call[k] # None => k \in s.calls /\ call[k].kind \in s.kinds

\* Lamports move only by instructions.
NoGift == ~\E from \in Users, to \in Gifts : Transfer(from, to)

MCInit == ClientsInit /\ scope \in DOMAIN Scopes
MCNext ==
    /\ \/ Scopes[scope].clients /\ ClientsNext
       \/ ~Scopes[scope].clients /\ Next /\ UNCHANGED clientVars
    /\ UNCHANGED scope
    /\ Within(Scopes[scope])'
    /\ Scopes[scope].gifts \/ NoGift
MCSpec == MCInit /\ [][MCNext]_<<allVars, scope>>
=============================================================================
