---------------------------- MODULE MCOperations ----------------------------
(***************************************************************************)
(* The maintainers' scripts for TLC: the release workflow, the Squads      *)
(* upgrade, the keepers and the two-id rehearsal.  They share no state;    *)
(* part says which one a behaviour is about, and the others stay as they   *)
(* began.                                                                  *)
(***************************************************************************)
EXTENDS Release

CONSTANTS
    r1, r2, r3, r4, c1, c2,         \* runs and commits
    a, b, c, None, Vault, Key,      \* members and authorities
    d1, d2, d3, k1, k2, k3, sp, other

VARIABLES
    part,
    ms, txs, program, buffer, loads, op, deaths, mine, signed, vetted,
    past, script, flying, credited, unprovoked,
    at, tries, since, from, saved, failed, ended, why, slot, errors,
    binary, v1, v2, session

squadsVars == <<ms, txs, program, buffer, loads, op, deaths, mine, signed, vetted>>
keeperVars == <<past, script, flying, credited, unprovoked>>
rehearsalVars == <<at, tries, since, from, saved, failed, ended, why, slot, errors,
                   binary, v1, v2, session>>

-----------------------------------------------------------------------------
(* Releases.                                                               *)

rc(i) == <<[num |-> FALSE, v |-> 1], [num |-> TRUE, v |-> i]>>

Version(major, minor, pre) == [n |-> <<major, minor, 0>>, pre |-> pre]

\* latest follows release candidates: both at 1.0.0-rc.6, as RELEASING.md has it.
Candidates ==
    [p \in Packages |-> [t \in Tags |->
       IF p = "sdk-kit" THEN Version(1, 0, rc(6))
       ELSE IF t = "next" THEN Version(0, 4, <<>>) ELSE Unset]]

Kit(pre, major, on) == [pkg |-> "sdk-kit", version |-> Version(major, 0, pre), commit |-> on]

\* Three releases of one package: the next candidate, the stable version, and a
\* candidate of the next major.
ThreeReleases ==
    r1 :> Kit(rc(7), 1, c1) @@ r2 :> Kit(<<>>, 1, c2) @@ r3 :> Kit(rc(1), 2, c2)

AllBumped == {<<k, TagOf(r)>> : k \in Commits, r \in Runs}

\* A release of one package and two of the other.
Legacy(minor) ==
    [pkg |-> "sdk-legacy", version |-> Version(0, minor, <<>>), commit |-> c2]
TwoPackages == r1 :> Kit(<<>>, 1, c1) @@ r3 :> Legacy(6) @@ r4 :> Legacy(5)

Both == INSTANCE Release WITH
    Runs <- {r1, r3, r4}, RunOf <- TwoPackages, MaxChecks <- 0,
    Bumped <- {<<k, t>> : k \in Commits, t \in {<<TwoPackages[r].pkg, TwoPackages[r].version>> :
                                                r \in {r1, r3, r4}}}

\* A tag pushed twice, at two commits, moved meanwhile, with reads that lag.
TagTwice == r1 :> Kit(<<>>, 1, c1) @@ r2 :> Kit(<<>>, 1, c2)

Twice == INSTANCE Release WITH
    Runs <- {r1, r2}, RunOf <- TagTwice, StaleReads <- TRUE,
    MaxFailures <- 1, MaxRetags <- 1, MaxChecks <- 0,
    Bumped <- {<<k, <<"sdk-kit", Version(1, 0, <<>>)>>>> : k \in Commits}

\* The trusted-publishing check alone.
Checks == INSTANCE Release WITH
    Runs <- {}, RunOf <- <<>>, MaxFailures <- 3, MaxChecks <- 3, Bumped <- {}

-----------------------------------------------------------------------------
(* Squads: three members, two keys here.                                   *)

All == [m \in {a, b, c} |-> {"Initiate", "Vote", "Execute"}]

Three == {[members |-> All, threshold |-> 2, configAuthority |-> None]}

\* Not there yet; three equals; a member who only votes; a config authority.
Found ==
    {None} \cup Three \cup
    {[members |-> All, threshold |-> 2, configAuthority |-> Key]} \cup
    {[members |-> [All EXCEPT ![c] = {"Vote"}], threshold |-> 2, configAuthority |-> None]}

Upgrade == INSTANCE SquadsUpgrade WITH
    Members <- {a, b, c}, Local <- <<a, b>>, Multisigs <- Three, THRESHOLD <- 2,
    PROPOSE_ONLY <- FALSE, MIN_EXTEND <- 2, BufferSizes <- {1, 3},
    Commands <- {"preflight", "authority", "upgrade", "extend"}, AppActs <- TRUE,
    MaxTx <- 2, MaxAppTx <- 1, MaxSize <- 3, MaxDeaths <- 1

HandedOver == INSTANCE SquadsUpgrade WITH
    Members <- {a, b, c}, Local <- <<a, b>>, Multisigs <- Found, THRESHOLD <- 2,
    PROPOSE_ONLY <- FALSE, MIN_EXTEND <- 2, BufferSizes <- {1},
    Commands <- {"preflight", "create", "authority"}, AppActs <- TRUE,
    MaxTx <- 2, MaxAppTx <- 1, MaxSize <- 4, MaxDeaths <- 0

-----------------------------------------------------------------------------
(* The keepers, one script at work at a time, and the rehearsal.           *)

Payers == (d1 :> sp) @@ (d2 :> sp) @@ (d3 :> other)

Close == INSTANCE Keepers WITH
    Deferreds <- {}, SessionsV1 <- {k1}, SessionsV2 <- {k2, k3}, Sponsor <- sp,
    PayerOf <- Payers, Expires <- {1, 2}, BATCH <- 2, MaxSlot <- 3,
    Running <- {"close"}

Reclaim == INSTANCE Keepers WITH
    Deferreds <- {d1, d2, d3}, SessionsV1 <- {}, SessionsV2 <- {}, Sponsor <- sp,
    PayerOf <- Payers, Expires <- {1, 2}, BATCH <- 1, MaxSlot <- 3,
    Running <- {"reclaim"}

\* Many errors, and no slot passes unwaited for; or slots pass in any step.
Rehearse == INSTANCE Rehearsal WITH
    faults <- errors, TRIES <- 2, MaxFaults <- 3, MaxIdle <- 0, SessionSlots <- 4

RehearseSlowly == INSTANCE Rehearsal WITH
    faults <- errors, TRIES <- 2, MaxFaults <- 1, MaxIdle <- 1, SessionSlots <- 2

-----------------------------------------------------------------------------
MCInit ==
    /\ part \in {"releases", "both", "twice", "checks", "upgrade", "handover", "close", "reclaim",
                 "rehearsal", "slow rehearsal"}
    /\ CASE part = "both" -> Both!Init
         [] part = "twice" -> Twice!Init
         [] part = "checks" -> Checks!Init
         [] OTHER -> Init
    /\ IF part = "handover" THEN HandedOver!Init ELSE Upgrade!Init
    /\ CASE part = "close" -> Close!Init
         [] part = "reclaim" -> Reclaim!Init
         [] OTHER -> Close!Init /\ past = <<<<>>>>
    /\ Rehearse!Init

Releasing(A) == A /\ UNCHANGED <<part, squadsVars, keeperVars, rehearsalVars>>
Upgrading(A) == A /\ UNCHANGED <<part, vars, keeperVars, rehearsalVars>>
Keeping(A) == A /\ UNCHANGED <<part, vars, squadsVars, rehearsalVars>>
Rehearsing(A) == A /\ UNCHANGED <<part, vars, squadsVars, keeperVars>>

MCNext ==
    \/ part = "releases" /\ Releasing(Next)
    \/ part = "both" /\ Releasing(Both!Next)
    \/ part = "twice" /\ Releasing(Twice!Next)
    \/ part = "checks" /\ Releasing(Checks!Next)
    \/ part = "upgrade" /\ Upgrading(Upgrade!Next)
    \/ part = "handover" /\ Upgrading(HandedOver!Next)
    \/ part = "close" /\ Keeping(Close!Next)
    \/ part = "reclaim" /\ Keeping(Reclaim!Next)
    \/ part = "rehearsal" /\ Rehearsing(Rehearse!Next)
    \/ part = "slow rehearsal" /\ Rehearsing(RehearseSlowly!Next)

MCSpec == MCInit /\ [][MCNext]_<<part, vars, squadsVars, keeperVars, rehearsalVars>>

-----------------------------------------------------------------------------
(* SquadsUpgrade's: the operator's keys sign only what a command of theirs *)
(* created, a proposed upgrade can be executed, and after the handover the *)
(* vault does only what its members decided.                               *)
SafeUpgrades == Upgrade!SafeUpgrades

(* Keepers': no batch fails unprovoked, what was counted as closed was     *)
(* paid for, what was reported gone is gone.                               *)
KeepersHonest == Close!KeepersHonest

(* Rehearsal's: no key of a wallet with funds is lost, and a green run     *)
(* moved everything.                                                       *)
RehearsalSafe == Rehearse!RehearsalSafe
=============================================================================
