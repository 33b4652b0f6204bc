----------------------------- MODULE MCProgress -----------------------------
(***************************************************************************)
(* What must happen in the end, for TLC: a call to the relayer is answered,*)
(* a prepare of the SDK ends, a Squads upgrade that died is resumed.  The  *)
(* three share no state; part says which one a behaviour is about, and the *)
(* others stay as they began.                                              *)
(***************************************************************************)
EXTENDS Relayer, TLC

CONSTANTS
    t1, t2,
    Nodes, MaxHeight, Budget, MaxBackoff, MaxFaults, Floors,
    Members, Local, Multisigs, THRESHOLD, PROPOSE_ONLY, MIN_EXTEND, BufferSizes,
    Commands, AppActs, MaxTx, MaxAppTx, MaxSize, MaxDeaths, None, Vault, Key,
    a, b

VARIABLES
    part,
    height, spent, view, floor, call, derived, reader, stopped, faults,
    ms, txs, program, buffer, loads, op, deaths, mine, signed, vetted

readVars == <<height, spent, view, floor, call, derived, reader, stopped, faults>>
squadsVars == <<ms, txs, program, buffer, loads, op, deaths, mine, signed, vetted>>

Reads == INSTANCE ChallengeReads WITH slot <- height, MaxSlot <- MaxHeight
Squads == INSTANCE SquadsUpgrade

AllModes == {"signTransaction", "confirmed", "sent", "signed"}
EqualCosts == [t \in Txs |-> 1]
MCFloors == {-1, 1, 2}
MCLocal == <<a, b>>
TwoOfTwo == {[members |-> [m \in {a, b} |-> {"Initiate", "Vote", "Execute"}],
              threshold |-> 2, configAuthority |-> None]}

MCInit == part \in {"relayer", "reads", "squads"} /\ Init /\ Reads!Init /\ Squads!Init

InRelayer == part = "relayer" /\ UNCHANGED <<part, readVars, squadsVars>>
InReads == part = "reads" /\ UNCHANGED <<part, vars, squadsVars>>
InSquads == part = "squads" /\ UNCHANGED <<part, vars, readVars>>

MCVars == <<part, vars, readVars, squadsVars>>

MCNext ==
    \/ InRelayer /\ Next
    \/ InReads /\ Reads!Next
    \/ InSquads /\ Squads!Next

MCSpec == MCInit /\ [][MCNext]_MCVars

(* The fairness of each part, while it is the one at work.                 *)
MCFairSpec ==
    /\ MCSpec
    /\ WF_MCVars(InRelayer /\ Tick)
    /\ \A r \in Requests : WF_MCVars(InRelayer /\ Handle(r))
    /\ WF_MCVars(InReads /\ Reads!StartReads)
    /\ \A r \in Reads!Readers : WF_MCVars(InReads /\ Reads!Read(r))
    /\ WF_MCVars(InSquads /\ Squads!Step)
    /\ WF_MCVars(InSquads /\ Squads!Resume)

(* ChallengeReads': with a floor, the counter a challenge commits to is    *)
(* past every one spent up to it, and its slot is no older, whatever nodes *)
(* answered atOrAfterContextSlot.                                          *)
SignedCounterUnspent == Reads!SignedCounterUnspent

(* ChallengeReads': a prepare always ends, and its reads with it, even     *)
(* when no node ever reaches the floor.                                    *)
EveryPrepareEnds == Reads!EveryPrepareEnds

(* SquadsUpgrade's: "a run that died halfway can be resumed": whatever a   *)
(* command proposed is executed in the end, wherever the runs died.        *)
Resumable == Squads!Resumable
=============================================================================
