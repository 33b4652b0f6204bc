------------------------------ MODULE Release ------------------------------
(***************************************************************************)
(* The SDK release workflow: scripts/sdk-release.mjs, with the jobs and    *)
(* concurrency groups of .github/workflows/release-sdk.yml around it.      *)
(*                                                                         *)
(* A run is started by the push of a release tag and goes through three    *)
(* jobs: build (plan, pack), publish (verify-tag, publish) and release     *)
(* (github-release).  Every call of npm or gh is a step of its own: other  *)
(* runs, a maintainer moving the tag, and failures come between any two.   *)
(* A call that fails may have taken effect on the registry or not.         *)
(*                                                                         *)
(* A version is [n |-> <<major, minor, patch>>, pre |-> identifiers]; an   *)
(* identifier is [num |-> numeric?, v |-> rank].  What a run built stands  *)
(* for the tarball, so its integrity is the run itself.                    *)
(***************************************************************************)
EXTENDS Integers, Sequences, FiniteSets, TLC

CONSTANTS
  Runs,          \* the workflow runs
  Commits,       \* commits the tags may point at
  RunOf,         \* run -> [pkg, version, commit]: the tag pushed, its commit
  Merged,        \* commits on origin/develop or origin/main
  Bumped,        \* pairs <<commit, tag>> whose package.json and lock agree
  InitialTags,   \* package -> dist-tag -> version, before the first run
  StaleReads,    \* may `npm view` be answered from an older state?
  MaxFailures,   \* failed calls and killed jobs in a behaviour
  MaxRetags,     \* times a maintainer moves or deletes a tag
  MaxChecks,     \* manual runs of the trusted-publishing check
  Unset          \* no version, no run

VARIABLES
  npm,           \* the registry: builds published, and the dist-tags
  replica,       \* an older state of it that a read may still be given
  tagAt,         \* <<package, version>> -> commit its git tag points at
  releases,      \* GitHub releases, by <<package, version>>
  run,           \* run -> where it is and what it has read
  group,         \* package -> the publish group: holder, and one waiting
  scratch,       \* the trusted-publishing check: step, and the scratch tags
  faults         \* failures and retags so far

vars == <<npm, replica, tagAt, releases, run, group, scratch, faults>>

Packages == {"sdk-legacy", "sdk-kit"}

Tags == {"next", "latest"}

\* The dist-tags a release of the package sets, in the order they are set.
DistTags(p) == IF p = "sdk-kit" THEN <<"next", "latest">> ELSE <<"next">>

PublishTag == "next"

PkgOf(r) == RunOf[r].pkg

VersionOf(r) == RunOf[r].version

TagOf(r) == <<PkgOf(r), VersionOf(r)>>

GitTags == {TagOf(r) : r \in Runs}

-----------------------------------------------------------------------------
(* Versions and the decisions over them.                                   *)

Sign(x, y) == IF x = y THEN 0 ELSE IF x < y THEN -1 ELSE 1

Least(S) == CHOOSE i \in S : \A j \in S : i <= j

IsPrerelease(v) == v.pre # <<>>

Major(v) == v.n[1]

\* SemVer precedence of two pre-release identifier lists, both non-empty: the
\* first place where they differ decides, the shorter list being the lower;
\* numbers are below names.
ComparePre(p, q) ==
  LET longest == IF Len(p) < Len(q) THEN Len(q) ELSE Len(p)
      differ == {i \in 1..longest : i > Len(p) \/ i > Len(q) \/ p[i] # q[i]}
      i == Least(differ)
  IN  CASE differ = {}             -> 0
        [] differ # {} /\ i > Len(p) -> -1
        [] differ # {} /\ i > Len(q) -> 1
        [] OTHER -> IF p[i].num = q[i].num THEN Sign(p[i].v, q[i].v)
                    ELSE IF p[i].num THEN -1 ELSE 1

CompareVersions(a, b) ==
  LET differ == {i \in 1..3 : a.n[i] # b.n[i]}
  IN  CASE differ # {} -> Sign(a.n[Least(differ)], b.n[Least(differ)])
        [] differ = {} /\ ~IsPrerelease(a) /\ ~IsPrerelease(b) -> 0
        [] differ = {} /\ ~IsPrerelease(a) /\ IsPrerelease(b) -> 1
        [] differ = {} /\ IsPrerelease(a) /\ ~IsPrerelease(b) -> -1
        [] OTHER -> ComparePre(a.pre, b.pre)

Above(a, b) == a # Unset /\ CompareVersions(a, b) > 0

\* distTagDecision: does the dist-tag, now at current, move to the version?
\* (Its refusal to move sdk-legacy's latest is never met: that package lists
\* next alone.)
Moves(p, version, tag, current) ==
  /\ current # version
  /\ ~Above(current, version)
  /\ tag = "latest" /\ current # Unset =>
       /\ Major(version) <= Major(current)
       /\ IsPrerelease(version) => ~(~IsPrerelease(current))

\* assertPublishKeepsOrder.
KeepsOrder(version, tags) == ~Above(tags[PublishTag], version)

-----------------------------------------------------------------------------
(* The registry, as the script's npm calls see it.                         *)

\* A read is answered by the registry, or by what it served earlier.
View == {npm} \cup (IF StaleReads THEN {replica} ELSE {})

IsPublished(r, view) == view.builds[TagOf(r)] # Unset

DistTagsOf(r, view) == view.tags[PkgOf(r)]

Propagate ==
  /\ StaleReads /\ replica # npm
  /\ replica' = npm
  /\ UNCHANGED <<npm, tagAt, releases, run, group, scratch, faults>>

At(r, pc) == run[r].pc = pc

Goto(r, pc) == run' = [run EXCEPT ![r].pc = pc]

\* Leaving the publish job, with any outcome, frees the package's group and
\* lets the run that waits for it in.
Leave(p) == [group EXCEPT ![p] = [held |-> @.waiting, waiting |-> Unset]]

\* A step of a publish job fails: the job ends and can be re-run.
FailPublish(r) ==
  /\ run' = [run EXCEPT ![r].pc = "publishFailed"]
  /\ group' = Leave(PkgOf(r))

MayFail == faults.failures < MaxFailures

Failing == /\ MayFail
           /\ faults' = [faults EXCEPT !.failures = @ + 1]

-----------------------------------------------------------------------------
(* The build job.                                                          *)

\* A maintainer pushes the release tag.  One run per tag at a time: a second
\* push of the same tag waits until the earlier run has ended.
Ended(r) == run[r].pc \in {"unborn", "refused", "publishFailed", "cancelled",
                           "releaseFailed", "done"}

Push(r) ==
  /\ At(r, "unborn")
  /\ \A s \in Runs : TagOf(s) = TagOf(r) => Ended(s)
  /\ tagAt' = [tagAt EXCEPT ![TagOf(r)] = RunOf[r].commit]
  /\ Goto(r, "plan")
  /\ UNCHANGED <<npm, replica, releases, group, scratch, faults>>

\* plan and pack: the commit is merged and carries the version, and, for a
\* version not on npm, next would not move back.
Plan(r) ==
  \E view \in View :
    LET good == /\ RunOf[r].commit \in Merged
                /\ <<RunOf[r].commit, TagOf(r)>> \in Bumped
                /\ IsPublished(r, view) \/ KeepsOrder(VersionOf(r), DistTagsOf(r, view))
    IN  /\ At(r, "plan")
        /\ Goto(r, IF good THEN "approval" ELSE "refused")
        /\ UNCHANGED <<npm, replica, tagAt, releases, group, scratch, faults>>

-----------------------------------------------------------------------------
(* The publish job: approval, the group, then verify-tag and publish.      *)

\* A bug: approved runs of one package publish side by side.
Approve_NoGroup(r) ==
  /\ At(r, "approval")
  /\ run' = [run EXCEPT ![r].pc = "verify"]
  /\ UNCHANGED <<npm, replica, tagAt, releases, group, scratch, faults>>

\* A reviewer approves.  The run takes the package's group, or waits for it;
\* a run already waiting there is cancelled.
Approve(r) ==
  LET p == PkgOf(r)
      older == group[p].waiting
  IN  /\ At(r, "approval")
      /\ IF group[p].held = Unset
           THEN /\ group' = [group EXCEPT ![p].held = r]
                /\ Goto(r, "verify")
           ELSE /\ group' = [group EXCEPT ![p].waiting = r]
                /\ run' = [s \in Runs |->
                             IF s = r THEN [run[s] EXCEPT !.pc = "verify"]
                             ELSE IF s = older THEN [run[s] EXCEPT !.pc = "cancelled"]
                             ELSE run[s]]
      /\ UNCHANGED <<npm, replica, tagAt, releases, scratch, faults>>

HoldsGroup(r) == group[PkgOf(r)].waiting # r

\* verify-tag: the tag still points at the commit this run built.
VerifyTag(r) ==
  /\ At(r, "verify") /\ HoldsGroup(r)
  /\ IF tagAt[TagOf(r)] = RunOf[r].commit
       THEN Goto(r, "isPublished") /\ UNCHANGED group
       ELSE FailPublish(r)
  /\ UNCHANGED <<npm, replica, tagAt, releases, scratch, faults>>

\* A bug: a version that is on npm already is taken to be finished.
LookOnNpm_Finished(r) ==
  /\ At(r, "isPublished")
  /\ \E view \in View :
       IF IsPublished(r, view)
         THEN /\ Goto(r, "release")
              /\ group' = Leave(PkgOf(r))
         ELSE Goto(r, "order") /\ UNCHANGED group
  /\ UNCHANGED <<npm, replica, tagAt, releases, scratch, faults>>

LookOnNpm(r) ==
  /\ At(r, "isPublished")
  /\ \E view \in View : Goto(r, IF IsPublished(r, view) THEN "integrity" ELSE "order")
  /\ UNCHANGED <<npm, replica, tagAt, releases, group, scratch, faults>>

CheckOrder(r) ==
  /\ At(r, "order")
  /\ \E view \in View :
       IF KeepsOrder(VersionOf(r), DistTagsOf(r, view))
         THEN Goto(r, "upload") /\ UNCHANGED group
         ELSE FailPublish(r)
  /\ UNCHANGED <<npm, replica, tagAt, releases, scratch, faults>>

\* What `npm publish --tag next` does to the registry: a new version is
\* stored and next points at it; a published one is refused.
Uploaded(r) ==
  IF npm.builds[TagOf(r)] # Unset THEN npm
  ELSE [builds |-> [npm.builds EXCEPT ![TagOf(r)] = r],
        tags |-> [npm.tags EXCEPT ![PkgOf(r)][PublishTag] = VersionOf(r)]]

Upload(r) ==
  /\ At(r, "upload")
  /\ npm' = Uploaded(r)
  /\ run' = [run EXCEPT ![r].here = npm.builds[TagOf(r)] = Unset,
                        ![r].pc = IF npm.builds[TagOf(r)] = Unset THEN "wait" ELSE "integrity"]
  /\ UNCHANGED <<replica, tagAt, releases, group, scratch, faults>>

UploadFails(r) ==
  /\ At(r, "upload") /\ Failing
  /\ npm' \in {npm, Uploaded(r)}
  /\ FailPublish(r)
  /\ UNCHANGED <<replica, tagAt, releases, scratch>>

\* waitUntilPublished, which gives up after its attempts.
WaitUntilPublished(r) ==
  /\ At(r, "wait")
  /\ \E view \in View :
       IF IsPublished(r, view) THEN Goto(r, "integrity") /\ UNCHANGED group
       ELSE FailPublish(r)
  /\ UNCHANGED <<npm, replica, tagAt, releases, scratch, faults>>

\* The integrity npm serves: a version another run or a person published is
\* only warned about; one this job published must be this tarball.
CheckIntegrity(r) ==
  /\ At(r, "integrity")
  /\ \E view \in View :
       IF IsPublished(r, view) /\ (run[r].here => view.builds[TagOf(r)] = r)
         THEN Goto(r, "readTags") /\ UNCHANGED group
         ELSE FailPublish(r)
  /\ UNCHANGED <<npm, replica, tagAt, releases, scratch, faults>>

\* The dist-tags are read once; the loop over the package's tags then decides
\* each from that reading.
ReadTags(r) ==
  /\ At(r, "readTags")
  /\ \E view \in View :
       run' = [run EXCEPT ![r].pc = "point", ![r].i = 1, ![r].tags = DistTagsOf(r, view)]
  /\ UNCHANGED <<npm, replica, tagAt, releases, group, scratch, faults>>

Pointing(r) == At(r, "point") /\ run[r].i <= Len(DistTags(PkgOf(r)))

CurrentTag(r) == DistTags(PkgOf(r))[run[r].i]

MovesNow(r) == Moves(PkgOf(r), VersionOf(r), CurrentTag(r), run[r].tags[CurrentTag(r)])

Pointed(r) == [npm EXCEPT !.tags[PkgOf(r)][CurrentTag(r)] = VersionOf(r)]

\* One turn of the loop: `npm dist-tag add` where the decision is to move.
PointTag(r) ==
  /\ Pointing(r)
  /\ npm' = IF MovesNow(r) THEN Pointed(r) ELSE npm
  /\ run' = [run EXCEPT ![r].i = @ + 1]
  /\ UNCHANGED <<replica, tagAt, releases, group, scratch, faults>>

PointTagFails(r) ==
  /\ Pointing(r) /\ MovesNow(r) /\ Failing
  /\ npm' \in {npm, Pointed(r)}
  /\ FailPublish(r)
  /\ UNCHANGED <<replica, tagAt, releases, scratch>>

EndPublish(r) ==
  /\ At(r, "point") /\ ~Pointing(r)
  /\ Goto(r, "release")
  /\ group' = Leave(PkgOf(r))
  /\ UNCHANGED <<npm, replica, tagAt, releases, scratch, faults>>

\* The runner is lost between two steps of the job.
PublishDies(r) ==
  /\ run[r].pc \in {"isPublished", "order", "wait", "integrity", "readTags", "point"}
  /\ Failing
  /\ FailPublish(r)
  /\ UNCHANGED <<npm, replica, tagAt, releases, scratch>>

\* "Re-run the failed jobs": the publish job starts over, with a new approval.
RerunPublish(r) ==
  /\ run[r].pc \in {"publishFailed", "cancelled"}
  /\ \A s \in Runs \ {r} : TagOf(s) = TagOf(r) => Ended(s)
  /\ run' = [run EXCEPT ![r] = [pc |-> "approval", here |-> FALSE, i |-> 0,
                                tags |-> [t \in Tags |-> Unset]]]
  /\ UNCHANGED <<npm, replica, tagAt, releases, group, scratch, faults>>

-----------------------------------------------------------------------------
(* The release job.                                                        *)

\* github-release: an existing release is left; otherwise it is created, from
\* the tag on GitHub (--verify-tag) and what npm shows of the version.
GithubRelease(r) ==
  /\ At(r, "release")
  /\ \E view \in View :
       IF TagOf(r) \in releases
         THEN Goto(r, "done") /\ UNCHANGED releases
         ELSE IF tagAt[TagOf(r)] # Unset /\ IsPublished(r, view)
         THEN Goto(r, "done") /\ releases' = releases \cup {TagOf(r)}
         ELSE Goto(r, "releaseFailed") /\ UNCHANGED releases
  /\ UNCHANGED <<npm, replica, tagAt, group, scratch, faults>>

GithubReleaseFails(r) ==
  /\ At(r, "release") /\ Failing
  /\ releases' \in {releases} \cup
       (IF tagAt[TagOf(r)] = Unset THEN {} ELSE {releases \cup {TagOf(r)}})
  /\ Goto(r, "releaseFailed")
  /\ UNCHANGED <<npm, replica, tagAt, group, scratch>>

RerunRelease(r) ==
  /\ At(r, "releaseFailed")
  /\ \A s \in Runs \ {r} : TagOf(s) = TagOf(r) => Ended(s)
  /\ Goto(r, "release")
  /\ UNCHANGED <<npm, replica, tagAt, releases, group, scratch, faults>>

-----------------------------------------------------------------------------
(* Maintainers, and the trusted-publishing check.                          *)

\* A maintainer moves a pushed release tag, or deletes it.
Retag ==
  /\ faults.retags < MaxRetags
  /\ \E t \in GitTags, c \in Commits \cup {Unset} :
       /\ tagAt[t] # Unset /\ tagAt[t] # c
       /\ tagAt' = [tagAt EXCEPT ![t] = c]
  /\ faults' = [faults EXCEPT !.retags = @ + 1]
  /\ UNCHANGED <<npm, replica, releases, run, group, scratch>>

\* The check goes on to the second package, or ends.
AfterPackage(failed) ==
  [pc |-> IF scratch.pkg = "sdk-legacy" THEN "add" ELSE IF failed THEN "failed" ELSE "passed",
   pkg |-> "sdk-kit", failed |-> failed]

\* A call of the check fails: the package counts as failed, the next is tried.
ScratchAfter(effect) == AfterPackage(TRUE) @@ [on |-> effect, checks |-> scratch.checks]

ScratchEffect ==
  IF scratch.pc = "add" THEN scratch.on \cup {scratch.pkg} ELSE scratch.on \ {scratch.pkg}

\* oidc-check --dist-tag, one package at a time: the scratch dist-tag is
\* removed if an earlier check left it, added, and removed again.
ScratchStep ==
  /\ scratch.pc \in {"add", "remove"}
  /\ scratch' =
       IF scratch.pc = "add"
         THEN [scratch EXCEPT !.pc = "remove", !.on = ScratchEffect]
         ELSE AfterPackage(scratch.failed) @@ [on |-> ScratchEffect, checks |-> scratch.checks]
  /\ UNCHANGED <<npm, replica, tagAt, releases, run, group, faults>>

ScratchFails ==
  /\ scratch.pc \in {"add", "remove"} /\ Failing
  /\ \E effect \in {scratch.on, ScratchEffect} : scratch' = ScratchAfter(effect)
  /\ UNCHANGED <<npm, replica, tagAt, releases, run, group>>

\* A manual run of the workflow on develop, one at a time.
OidcCheck ==
  /\ scratch.pc \in {"idle", "failed", "passed"} /\ scratch.checks < MaxChecks
  /\ scratch' = [scratch EXCEPT !.pc = "add", !.pkg = "sdk-legacy", !.failed = FALSE, !.checks = @ + 1]
  /\ UNCHANGED <<npm, replica, tagAt, releases, run, group, faults>>

-----------------------------------------------------------------------------
Init ==
  /\ npm = [builds |-> [t \in GitTags |-> Unset], tags |-> InitialTags]
  /\ replica = npm
  /\ tagAt = [t \in GitTags |-> Unset]
  /\ releases = {}
  /\ run = [r \in Runs |-> [pc |-> "unborn", here |-> FALSE, i |-> 0,
                            tags |-> [t \in Tags |-> Unset]]]
  /\ group = [p \in Packages |-> [held |-> Unset, waiting |-> Unset]]
  /\ scratch = [pc |-> "idle", pkg |-> "sdk-legacy", on |-> {}, failed |-> FALSE,
                checks |-> 0]
  /\ faults = [failures |-> 0, retags |-> 0]

Next ==
  \/ \E r \in Runs :
       \/ Push(r) \/ Plan(r) \/ Approve(r) \/ VerifyTag(r)
       \/ LookOnNpm(r) \/ CheckOrder(r) \/ Upload(r) \/ UploadFails(r)
       \/ WaitUntilPublished(r) \/ CheckIntegrity(r) \/ ReadTags(r)
       \/ PointTag(r) \/ PointTagFails(r) \/ EndPublish(r) \/ PublishDies(r)
       \/ RerunPublish(r) \/ GithubRelease(r) \/ GithubReleaseFails(r)
       \/ RerunRelease(r)
  \/ Propagate \/ Retag \/ OidcCheck \/ ScratchStep \/ ScratchFails

Spec == Init /\ [][Next]_vars

-----------------------------------------------------------------------------
(* Properties.                                                             *)

\* Every variable has its type; the group of a package holds and queues runs of
\* that package which are inside the publish job, one at a time: a run past
\* verify-tag is the holder.
TypeOK ==
  /\ DOMAIN npm.builds = GitTags /\ DOMAIN tagAt = GitTags
  /\ releases \subseteq GitTags
  /\ \A t \in GitTags : npm.builds[t] # Unset => TagOf(npm.builds[t]) = t
  /\ \A r \in Runs :
       /\ run[r].pc \in {"isPublished", "order", "upload", "wait", "integrity", "readTags", "point"}
            => group[PkgOf(r)].held = r
       /\ group[PkgOf(r)].waiting = r => At(r, "verify") /\ group[PkgOf(r)].held # Unset

\* latest stays on its line: the workflow moves it neither to another major nor
\* from a stable version to a pre-release, and never moves sdk-legacy's.
OnItsLine(before, after) ==
  /\ after["sdk-legacy"]["latest"] = before["sdk-legacy"]["latest"]
  /\ LET old == before["sdk-kit"]["latest"]
         new == after["sdk-kit"]["latest"]
     IN  old # Unset =>
           /\ Major(new) = Major(old)
           /\ IsPrerelease(new) => IsPrerelease(old)

\* "No dist-tag ever moves back to a lower version" (RELEASING.md): no step of
\* any run lowers next or latest, whatever runs of the package were approved,
\* cancelled, re-run or cut off between the check and the upload; and latest
\* stays on its line (distTagDecision, PACKAGES).
TagsNeverBack ==
  [][/\ \A p \in Packages, t \in Tags : ~Above(npm.tags[p][t], npm.tags'[p][t])
     /\ OnItsLine(npm.tags, npm.tags')]_npm

\* A GitHub release stands only beside a version that is on npm and whose
\* dist-tags were dealt with: next is at it or past it, and so is sdk-kit's
\* latest unless the version is of another major or a pre-release of a line
\* whose latest is stable.  Publish runs that died half-way, and re-runs of
\* them that find the version on npm, are the hard cases.
ReleasedIsPointed ==
  \A t \in releases :
    LET p == t[1]
        v == t[2]
        latest == npm.tags[p]["latest"]
    IN  /\ npm.builds[t] # Unset
        /\ ~Above(v, npm.tags[p]["next"])
        /\ p = "sdk-kit" =>
             \/ ~Above(v, latest)
             \/ Major(v) # Major(latest)
             \/ IsPrerelease(v) /\ ~IsPrerelease(latest)

\* A check that passes leaves no scratch dist-tag behind, also after earlier
\* checks that failed and left one (checkDistTagPermission).
ScratchGone == scratch.pc = "passed" => scratch.on = {}

\* What the workflow leaves on npm is in order: released versions are pointed at,
\* and a check that passed left nothing.
NpmInOrder == ReleasedIsPointed /\ ScratchGone
=============================================================================
