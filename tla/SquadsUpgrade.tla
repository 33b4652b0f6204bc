--------------------------- MODULE SquadsUpgrade ---------------------------
(***************************************************************************)
(* scripts/rehearse/squads-upgrade.cjs: an operator upgrades a program     *)
(* whose upgrade authority is a Squads multisig's vault.                   *)
(*                                                                         *)
(* The operator runs one command at a time and any of them may die between *)
(* two requests.  Meanwhile the other members propose, approve and execute *)
(* in the Squads app, anybody may extend the program's data, a buffer is   *)
(* in the hands of whoever its authority is, and a multisig with a config  *)
(* authority may be rewritten by it.  The Squads program and the loader    *)
(* are modelled by what the script expects of them.                        *)
(***************************************************************************)
EXTENDS Integers, Sequences, FiniteSets, SequencesExt

CONSTANTS
    Members,        \* keys that may be members of the multisig
    Local,          \* MEMBERS: the members whose keypair files are here
    Multisigs,      \* multisigs the operator may find; all but one field of
                    \* each is decided by its members
    THRESHOLD,      \* the operator's THRESHOLD, used by create
    PROPOSE_ONLY,   \* stop once the proposal exists
    MIN_EXTEND,     \* least number of bytes the loader extends by
    BufferSizes,    \* sizes of the binary to deploy
    Commands,       \* commands the operator runs
    AppActs,        \* whether the Squads app is used meanwhile
    MaxTx,          \* bound: vault transactions
    MaxAppTx,       \* bound: those there when another is proposed in the app
    MaxSize,        \* bound: bytes of program data
    MaxDeaths,      \* bound: commands that die
    None,           \* no value
    Vault,          \* the vault's address
    Key             \* a single key that is no member

VARIABLES
    ms,         \* the Multisig account, or None
    txs,        \* its vault transactions, with their proposals
    program,    \* authority and size of the program's data
    buffer,     \* authority and size of the buffer
    loads,      \* upgrades and changes of authority the vault has executed
    op,         \* the command under way
    deaths,     \* commands that died
    mine,       \* vault transactions the operator's commands created
    signed,     \* observer: those the operator's keys approved or executed
    vetted      \* the multisig the last passing preflight saw; at the handover
                \* it stays

vars == <<ms, txs, program, buffer, loads, op, deaths, mine, signed, vetted>>
chain == <<ms, txs, program, buffer, loads>>

Idle == [at |-> "idle"]
Go(at) == op' = [op EXCEPT !.at = at]
Throw == op' = Idle

-----------------------------------------------------------------------------
(***************************************************************************)
(* Squads v4 and the loader.                                               *)
(***************************************************************************)
May(member, what) == member \in DOMAIN ms.members /\ what \in ms.members[member]

\* What a vault transaction does when it is executed, and whether it can.
Fits(p, b) == b.size <= p.size
Works(what) ==
    CASE what = "upgrade" ->
            program.authority = Vault /\ buffer.authority = Vault /\ Fits(program, buffer)
      [] what = "authority" -> program.authority = Vault
      [] what = "memo" -> TRUE

\* An upgrade uses the buffer up.
Effect(what) ==
    CASE what = "upgrade" ->
            /\ buffer' = [buffer EXCEPT !.authority = None]
            /\ loads' = loads + 1 /\ UNCHANGED program
      [] what = "authority" ->
            /\ program' = [program EXCEPT !.authority = Key]
            /\ loads' = loads + 1 /\ UNCHANGED buffer
      [] what = "memo" -> UNCHANGED <<program, buffer, loads>>

VaultTx(what, at) == [what |-> what, checked |-> at, status |-> "none", approved |-> {}]

CanApprove(i, member) ==
    /\ txs[i].status = "Active"
    /\ May(member, "Vote") /\ member \notin txs[i].approved

Approved(i, member) ==
    LET votes == txs[i].approved \cup {member} IN
    [txs EXCEPT ![i].approved = votes,
                ![i].status = IF Cardinality(votes) >= ms.threshold THEN "Approved" ELSE @]

CanExecute(i, member) ==
    txs[i].status = "Approved" /\ May(member, "Execute") /\ Works(txs[i].what)

Execute(i) ==
    /\ txs' = [txs EXCEPT ![i].status = "Executed"]
    /\ Effect(txs[i].what)

-----------------------------------------------------------------------------
(***************************************************************************)
(* The commands.                                                           *)
(***************************************************************************)
\* preflight: nothing it prints is a FAIL.
Passes(m) ==
    /\ m.configAuthority = None
    /\ Cardinality({v \in DOMAIN m.members : "Vote" \in m.members[v]}) >= m.threshold
    /\ \E e \in DOMAIN m.members : "Execute" \in m.members[e]
    /\ Local[1] \in DOMAIN m.members /\ "Initiate" \in m.members[Local[1]]

Preflight ==
    /\ "preflight" \in Commands
    /\ op = Idle /\ program.authority = Key
    /\ vetted' = IF ms # None /\ Passes(ms) THEN ms ELSE None
    /\ UNCHANGED <<chain, op, deaths, mine, signed>>

\* The command preflight prints, run with the key that is the authority now.
Handover ==
    /\ program.authority = Key /\ vetted # None
    /\ program' = [program EXCEPT !.authority = Vault]
    /\ UNCHANGED <<ms, txs, buffer, loads, op, deaths, mine, signed, vetted>>

Permissions == {"Initiate", "Vote", "Execute"}

\* multisigCreateV2.
Create ==
    /\ "create" \in Commands
    /\ op = Idle /\ ms = None
    /\ ms' = [members |-> [m \in ToSet(Local) |-> Permissions],
              threshold |-> THRESHOLD, configAuthority |-> None]
    /\ UNCHANGED <<txs, program, buffer, loads, op, deaths, mine, signed, vetted>>

\* dry-run and set-authority go straight to propose.
Start(what) ==
    /\ what \in Commands \cap {"memo", "authority"}
    /\ op = Idle /\ ms # None /\ Len(txs) < MaxTx
    /\ op' = [at |-> "index", what |-> what, checked |-> loads, index |-> 0]
    /\ UNCHANGED <<chain, deaths, mine, signed, vetted>>

\* upgrade reads the buffer and the program at once; the answers come in any
\* order.
UpgradeFromBuffer ==
    /\ "upgrade" \in Commands
    /\ op = Idle /\ ms # None /\ Len(txs) < MaxTx
    /\ op' = [at |-> "read", buffer |-> None, program |-> None, checked |-> loads]
    /\ UNCHANGED <<chain, deaths, mine, signed, vetted>>

ReadAccount ==
    /\ op.at = "read"
    /\ \/ op.buffer = None /\ op' = [op EXCEPT !.buffer = buffer]
       \/ op.program = None /\ op' = [op EXCEPT !.program = program]
    /\ UNCHANGED <<chain, deaths, mine, signed, vetted>>

\* Mutant: any buffer will do.
Proposable_AnyBuffer(p, b) == p.authority = Vault /\ Fits(p, b)

\* The loader will look at the program's authority and at the buffer's.
Proposable(p, b) == p.authority = Vault /\ b.authority = Vault /\ Fits(p, b)

CheckUpgrade ==
    /\ op.at = "read" /\ op.buffer # None /\ op.program # None
    /\ op' = IF Proposable(op.program, op.buffer)
             THEN [at |-> "index", what |-> "upgrade", checked |-> op.checked, index |-> 0]
             ELSE IF op.buffer.authority = Vault /\ op.program.authority = Vault
             THEN [at |-> "too small"] ELSE Idle
    /\ UNCHANGED <<chain, deaths, mine, signed, vetted>>

\* extend, at top level: no authority is asked.
Extended(bytes) == program.size + (IF bytes > MIN_EXTEND THEN bytes ELSE MIN_EXTEND)

Extend ==
    /\ "extend" \in Commands
    /\ op = Idle \/ op.at = "too small"
    /\ \E bytes \in 1 .. MaxSize :
          /\ Extended(bytes) <= MaxSize
          /\ program' = [program EXCEPT !.size = Extended(bytes)]
    /\ op' = Idle
    /\ UNCHANGED <<ms, txs, buffer, loads, deaths, mine, signed, vetted>>

\* propose: the index the next vault transaction will have.
ReadIndex ==
    /\ op.at = "index"
    /\ op' = [op EXCEPT !.at = "create", !.index = Len(txs) + 1]
    /\ UNCHANGED <<chain, deaths, mine, signed, vetted>>

\* The transaction's address is made from its index, so one that somebody else
\* took meanwhile is refused.
VaultTransactionCreate ==
    /\ op.at = "create"
    /\ IF op.index = Len(txs) + 1 /\ May(Local[1], "Initiate")
       THEN /\ txs' = Append(txs, VaultTx(op.what, op.checked))
            /\ mine' = mine \cup {op.index}
            /\ Go("proposal")
       ELSE Throw /\ UNCHANGED <<txs, mine>>
    /\ UNCHANGED <<ms, program, buffer, loads, deaths, signed, vetted>>

\* resume <index>, for one the operator has seen to be theirs.
Resume ==
    /\ op = Idle
    /\ \E i \in mine :
          /\ txs[i].status # "Executed"
          /\ op' = [at |-> "proposal", what |-> txs[i].what, checked |-> 0, index |-> i]
    /\ UNCHANGED <<chain, deaths, mine, signed, vetted>>

\* Mutant: the approvals already there are asked for again.
Missing_All(m, approved) == SubSeq(Local, 1, m.threshold)

\* The first members' approvals that are not there yet.
Missing(m, approved) ==
    SelectSeq(SubSeq(Local, 1, IF m.threshold < Len(Local) THEN m.threshold ELSE Len(Local)),
              LAMBDA k : k \notin approved)

\* finish: what the proposal's state leaves to do.
ReadProposal ==
    /\ op.at = "proposal"
    /\ LET t == txs[op.index] IN
       op' = CASE t.status = "none" -> [op EXCEPT !.at = "open"]
               [] t.status = "Executed" \/ (PROPOSE_ONLY /\ t.status # "none") -> Idle
               [] OTHER -> [at |-> "approve", index |-> op.index,
                            todo |-> Missing(ms, t.approved)]
    /\ UNCHANGED <<chain, deaths, mine, signed, vetted>>

ProposalCreate ==
    /\ op.at = "open"
    /\ IF txs[op.index].status = "none" /\ May(Local[1], "Initiate")
       THEN txs' = [txs EXCEPT ![op.index].status = "Active"] /\ Go("proposal")
       ELSE Throw /\ UNCHANGED txs
    /\ UNCHANGED <<ms, program, buffer, loads, deaths, mine, signed, vetted>>

ProposalApprove ==
    /\ op.at = "approve" /\ op.todo # <<>>
    /\ IF CanApprove(op.index, Head(op.todo))
       THEN /\ txs' = Approved(op.index, Head(op.todo))
            /\ signed' = signed \cup {op.index}
            /\ op' = [op EXCEPT !.todo = Tail(@)]
       ELSE Throw /\ UNCHANGED <<txs, signed>>
    /\ UNCHANGED <<ms, program, buffer, loads, deaths, mine, vetted>>

VaultTransactionExecute ==
    /\ op.at = "approve" /\ op.todo = <<>>
    /\ IF CanExecute(op.index, Local[1])
       THEN Execute(op.index) /\ signed' = signed \cup {op.index}
       ELSE UNCHANGED <<txs, program, buffer, loads, signed>>
    /\ Throw
    /\ UNCHANGED <<ms, deaths, mine, vetted>>

\* The process ends, or a request fails or times out: what was sent has landed
\* or has not.
Dies ==
    /\ op # Idle /\ deaths < MaxDeaths
    /\ deaths' = deaths + 1
    /\ Throw
    /\ UNCHANGED <<chain, mine, signed, vetted>>

-----------------------------------------------------------------------------
(***************************************************************************)
(* Everybody else.                                                         *)
(***************************************************************************)
InTheApp ==
    /\ AppActs /\ ms # None
    /\ \/ \E m \in DOMAIN ms.members, what \in {"memo", "authority"} :
             /\ May(m, "Initiate") /\ Len(txs) < MaxAppTx
             /\ txs' = Append(txs, [VaultTx(what, loads) EXCEPT !.status = "Active"])
             /\ UNCHANGED <<program, buffer, loads>>
       \/ \E i \in DOMAIN txs, m \in DOMAIN ms.members :
             /\ CanApprove(i, m)
             /\ txs' = Approved(i, m)
             /\ UNCHANGED <<program, buffer, loads>>
       \/ \E i \in DOMAIN txs, m \in DOMAIN ms.members : CanExecute(i, m) /\ Execute(i)
    /\ UNCHANGED <<ms, op, deaths, mine, signed, vetted>>

\* A config authority acts alone.
ConfigAuthority ==
    /\ AppActs /\ ms # None /\ ms.configAuthority # None
    /\ ms' = [ms EXCEPT !.members = [m \in {ms.configAuthority} |-> Permissions],
                        !.threshold = 1]
    /\ UNCHANGED <<txs, program, buffer, loads, op, deaths, mine, signed, vetted>>

\* Whoever wrote a buffer keeps it, hands it to the vault, or writes it anew;
\* the vault's is out of reach.
BufferChanges ==
    /\ buffer.authority \in {Key, None}
    /\ \E size \in BufferSizes, to \in {Key, Vault} :
          /\ buffer' = [authority |-> to, size |-> size]
    /\ UNCHANGED <<ms, txs, program, loads, op, deaths, mine, signed, vetted>>

Init ==
    /\ ms \in Multisigs
    /\ txs = <<>>
    /\ program = [authority |-> Key, size |-> 1]
    /\ buffer = [authority |-> Key, size |-> 1]
    /\ loads = 0 /\ op = Idle /\ deaths = 0
    /\ mine = {} /\ signed = {} /\ vetted = None

Step ==
    \/ ReadAccount \/ CheckUpgrade
    \/ ReadIndex \/ VaultTransactionCreate
    \/ ReadProposal \/ ProposalCreate \/ ProposalApprove \/ VaultTransactionExecute

Next ==
    \/ Preflight \/ Handover \/ Create \/ Extend
    \/ Start("memo") \/ Start("authority") \/ UpgradeFromBuffer \/ Resume
    \/ Step \/ Dies
    \/ InTheApp \/ ConfigAuthority \/ BufferChanges

Spec == Init /\ [][Next]_vars

\* A command runs to its end, and the operator resumes what is unfinished.
FairSpec == Spec /\ WF_vars(Step) /\ WF_vars(Resume)

-----------------------------------------------------------------------------
(***************************************************************************)
(* Properties.                                                             *)
(***************************************************************************)
\* The keypair files here approve and execute nothing but what a command of
\* this operator created: not a transaction proposed in the app between the
\* reading of the index and the creation, nor one proposed between a death and
\* the resume.
OwnTransactionsOnly == signed \subseteq mine

\* An upgrade the script proposed can be executed for as long as the vault has
\* upgraded or handed over nothing else since the script looked: whoever
\* extends the program or once wrote the buffer cannot spoil it.
ProposedUpgradeWorks ==
    \A i \in mine :
        (/\ txs[i].what = "upgrade" /\ txs[i].status # "Executed"
         /\ txs[i].checked = loads)
        => Works("upgrade")

\* Once the program was handed over on a preflight without failures, nothing is
\* executed in the vault's name that the threshold of the members preflight
\* listed has not approved.
MembersDecide ==
    \A i \in DOMAIN txs :
        txs[i].status = "Executed" /\ vetted # None
        => Cardinality(txs[i].approved \cap DOMAIN vetted.members) >= vetted.threshold

\* What the operator's keys sign is their own, can be executed, and nothing else
\* is done in the vault's name than its members decided.
SafeUpgrades == OwnTransactionsOnly /\ ProposedUpgradeWorks /\ MembersDecide

\* "Each step skipped if already done, so a run that died halfway can be
\* resumed": with the operator's keys alone at work, whatever a command
\* proposed is executed in the end, wherever the runs died.
Resumable ==
    \A i \in 1 .. MaxTx : i \in mine ~> (i \in mine /\ txs[i].status = "Executed")
=============================================================================
