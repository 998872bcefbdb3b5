---------------------------- MODULE MissionMerge ----------------------------
(***************************************************************************)
(* `ato missions merge` (missions.rs of the CLI): the work of the agents of *)
(* a mission, each on a branch from one base, is squashed agent by agent    *)
(* into the integration branch, checked against the success criteria, and   *)
(* rolled back when it loses one that was met.                              *)
(*                                                                         *)
(* A step is one git command or one insert into mission_events.  Nothing    *)
(* but git's own lock on the index keeps two command lines apart, and a     *)
(* command line may die, or give up on an error of the database, between    *)
(* any two steps.                                                          *)
(***************************************************************************)
EXTENDS Naturals, Sequences, FiniteSets, SequencesExt

CONSTANTS
    Operators,   \* command lines
    Agents,      \* agents with a worktree, each with one lot of changes
    Clashes,     \* pairs of agents whose changes conflict
    Criteria,    \* success criteria
    Needs,       \* the changes each criterion needs
    Breaks,      \* the changes each criterion does not survive
    MaxChecks,   \* bound: approvals that come as far as the checks
    MaxCrashes,  \* bound: deaths of a command line
    MaxRefusals  \* bound: commits that git refuses, for a hook, an identity or a signature

ASSUME MergeAssumption ==
    /\ \A c \in Clashes : c \subseteq Agents
    /\ Needs \in [Criteria -> SUBSET Agents] /\ Breaks \in [Criteria -> SUBSET Agents]
    /\ Criteria # {}
    /\ MaxChecks \in Nat /\ MaxCrashes \in Nat /\ MaxRefusals \in Nat

VARIABLES
    created,    \* does the integration worktree exist?
    branch,     \* the integration branch: what each commit from the base on contains
    staged,     \* changes in the index of its worktree that no commit has
    unmerged,   \* is a conflict in the index?
    events,     \* mission_events that are read again
    pc,         \* where each command line stands
    mine,       \* what it has in hand
    crashes,    \* deaths so far
    refusals,   \* commits refused so far
    broken      \* agents of whom an approval was broken off after its squash

tree == <<branch, staged, unmerged>>
faults == <<crashes, refusals, broken>>
vars == <<created, tree, events, pc, mine, faults>>

NoHand == [agent |-> CHOOSE a \in Agents : TRUE, previous |-> {}, met |-> {},
           merged |-> {}, head |-> {}]

Tip == branch[Len(branch)]
Workspace == Tip \cup staged
Clash(a, others) == \E b \in others : {a, b} \in Clashes

\* run_checks_in_dir: criteria that hold of some content
Met(content) == {c \in Criteria : Needs[c] \subseteq content /\ Breaks[c] \cap content = {}}

\* ... of the files as they are, which may be anything while a conflict marks them
Sees(met) == met \subseteq Criteria /\ (unmerged \/ met = Met(Workspace))

Ids(kind) == {events[i].agent : i \in {j \in DOMAIN events : events[j].kind = kind}}
Pending == Agents \ (Ids("agent_merged") \cup Ids("agent_skipped"))

\* previously_met_criteria: of the latest check, wherever that was run
Checks == {i \in DOMAIN events : events[i].kind \in {"success_check", "merge_check"}}
PreviouslyMet ==
    IF Checks = {} THEN {} ELSE events[CHOOSE i \in Checks : \A j \in Checks : j <= i].met

Record(kind, a, met, merged, head) ==
    events' = Append(events, [kind |-> kind, agent |-> a, met |-> met, merged |-> merged,
                              head |-> head])

\* the mission's ticks have checked the criteria elsewhere
Init ==
    /\ created = FALSE
    /\ branch = <<{}>> /\ staged = {} /\ unmerged = FALSE
    /\ \E met \in SUBSET Criteria :
         events = <<[kind |-> "success_check", agent |-> NoHand.agent, met |-> met,
                     merged |-> {}, head |-> {}]>>
    /\ pc = [p \in Operators |-> "idle"]
    /\ mine = [p \in Operators |-> NoHand]
    /\ crashes = 0 /\ refusals = 0 /\ broken = {}

-----------------------------------------------------------------------------
(* --approve *)

Moves(p, from, to) == pc[p] = from /\ pc' = [pc EXCEPT ![p] = to]
Ends(p, from) == Moves(p, from, "idle") /\ mine' = [mine EXCEPT ![p] = NoHand]

\* ensure_integration_worktree: the worktree is made, or taken up where it stands
EnsureWorktree == created' = TRUE

\* the worktree, then the agent, which has to be pending
Approve(p, a) ==
    /\ Cardinality(Checks) <= MaxChecks
    /\ pc[p] = "idle"
    /\ EnsureWorktree
    /\ IF a \in Pending
       THEN Moves(p, "idle", "squashing") /\ mine' = [mine EXCEPT ![p].agent = a]
       ELSE UNCHANGED <<pc, mine>>
    /\ UNCHANGED <<tree, events, faults>>

\* git merge --squash.  From the base itself it is a fast-forward, which goes with an
\* index that holds other changes; else the index has to be clean.
Squash(p) ==
    LET a == mine[p].agent
        goes == /\ ~unmerged
                /\ IF staged = {} THEN ~Clash(a, Tip) ELSE Tip = {} /\ ~Clash(a, staged)
    IN  IF goes
        THEN /\ Moves(p, "squashing", "committing")
             /\ staged' = staged \cup ({a} \ Tip)
             /\ UNCHANGED <<created, branch, unmerged, events, mine, faults>>
        ELSE /\ Moves(p, "squashing", "aborting")
             /\ unmerged' = (unmerged \/ (staged = {} /\ Clash(a, Tip)))
             /\ UNCHANGED <<created, branch, staged, events, mine, faults>>

\* variant: the fallback goes one commit too far back
AbortTooFar(p) ==
    /\ Ends(p, "aborting")
    /\ branch' = IF Len(branch) > 1 THEN Front(branch) ELSE branch
    /\ staged' = {} /\ unmerged' = FALSE
    /\ UNCHANGED <<created, events, faults>>

\* There is no merge to abort after a squash, so the index is reset, and all that is
\* in it; a brief for the human.
Abort(p) ==
    /\ Ends(p, "aborting")
    /\ staged' = {} /\ unmerged' = FALSE
    /\ UNCHANGED <<created, branch, events, faults>>

\* variant: git commit --allow-empty
CommitEmpty(p) ==
    /\ ~unmerged
    /\ Moves(p, "committing", "checking")
    /\ branch' = Append(branch, Workspace)
    /\ staged' = {}
    /\ mine' = [mine EXCEPT ![p].previous = PreviouslyMet]
    /\ UNCHANGED <<created, unmerged, events, faults>>

\* The baseline is read and the squash committed.
Commit(p) ==
    /\ staged # {} /\ ~unmerged
    /\ Moves(p, "committing", "checking")
    /\ branch' = Append(branch, Workspace)
    /\ staged' = {}
    /\ mine' = [mine EXCEPT ![p].previous = PreviouslyMet]
    /\ UNCHANGED <<created, unmerged, events, faults>>

\* There is nothing to commit, or a conflict in the index: the approval is off.
NothingToCommit(p) ==
    /\ staged = {} \/ unmerged
    /\ Ends(p, "committing")
    /\ UNCHANGED <<created, tree, events, faults>>

\* git commit fails for a reason of its own; the squash stays in the index.
Refused(p) ==
    /\ staged # {} /\ ~unmerged /\ refusals < MaxRefusals
    /\ Ends(p, "committing")
    /\ refusals' = refusals + 1
    /\ broken' = broken \cup {mine[p].agent}
    /\ UNCHANGED <<created, tree, events, crashes>>

\* all criteria are checked in the worktree, and the receipt goes in
Check(p) ==
    \E met \in SUBSET Criteria :
        /\ Sees(met)
        /\ Moves(p, "checking", IF mine[p].previous \subseteq met THEN "recording" ELSE "undoing")
        /\ mine' = [mine EXCEPT ![p].met = met]
        /\ Record("merge_check", mine[p].agent, met, {}, {})
        /\ UNCHANGED <<created, tree, faults>>

\* variant: git reset --soft HEAD~1
RollbackSoft(p) ==
    /\ Ends(p, "undoing")
    /\ branch' = IF Len(branch) > 1 THEN Front(branch) ELSE branch
    /\ staged' = Workspace \ Tip' /\ UNCHANGED unmerged
    /\ UNCHANGED <<created, events, faults>>

\* a criterion of the baseline is lost: git reset --hard HEAD~1, and a brief
Rollback(p) ==
    /\ Ends(p, "undoing")
    /\ branch' = IF Len(branch) > 1 THEN Front(branch) ELSE branch
    /\ staged' = {} /\ unmerged' = FALSE
    /\ UNCHANGED <<created, events, faults>>

Accept(p) ==
    /\ Ends(p, "recording")
    /\ Record("agent_merged", mine[p].agent, mine[p].met, {}, {})
    /\ UNCHANGED <<created, tree, faults>>

\* --skip, which asks nothing
Skip(a) ==
    /\ a \notin Ids("agent_skipped")
    /\ Record("agent_skipped", a, {}, {}, {})
    /\ UNCHANGED <<created, tree, pc, mine, faults>>

-----------------------------------------------------------------------------
(* --finish *)

\* nobody is pending; merged, skipped and the head are read
Finish(p) ==
    /\ created /\ Pending = {}
    /\ "integration_complete" \notin {events[i].kind : i \in DOMAIN events}
    /\ Cardinality(Checks) <= MaxChecks
    /\ Moves(p, "idle", "finishing")
    /\ mine' = [mine EXCEPT ![p].merged = Ids("agent_merged"), ![p].head = Tip]
    /\ UNCHANGED <<created, tree, events, faults>>

\* variant: --finish trusts what the approvals have checked
GateTrusting(p) ==
    /\ Moves(p, "finishing", "completing")
    /\ UNCHANGED <<created, tree, events, mine, faults>>

\* finish_gate: every criterion once more in the worktree, as it is
Gate(p) ==
    \E met \in SUBSET Criteria :
        /\ Sees(met)
        /\ IF met = Criteria THEN Moves(p, "finishing", "completing") /\ UNCHANGED mine
           ELSE Ends(p, "finishing")
        /\ Record("merge_check", mine[p].agent, met, {}, {})
        /\ UNCHANGED <<created, tree, faults>>

Complete(p) ==
    /\ Ends(p, "completing")
    /\ Record("integration_complete", mine[p].agent, {}, mine[p].merged, mine[p].head)
    /\ UNCHANGED <<created, tree, faults>>

\* An approval under way leaves behind what it has done to the worktree.
Crash(p) ==
    /\ pc[p] # "idle" /\ crashes < MaxCrashes
    /\ Ends(p, pc[p])
    /\ crashes' = crashes + 1
    /\ broken' = IF pc[p] \in {"aborting", "committing", "checking", "undoing", "recording"}
                 THEN broken \cup {mine[p].agent} ELSE broken
    /\ UNCHANGED <<created, tree, events, refusals>>

Next ==
    \/ \E p \in Operators :
         \/ \E a \in Agents : Approve(p, a)
         \/ Squash(p) \/ Abort(p) \/ Commit(p) \/ NothingToCommit(p) \/ Refused(p)
         \/ Check(p) \/ Rollback(p) \/ Accept(p)
         \/ Finish(p) \/ Gate(p) \/ Complete(p) \/ Crash(p)
    \/ \E a \in Agents : Skip(a)

Spec == Init /\ [][Next]_vars

-----------------------------------------------------------------------------
(* What the audit trail says of the branch *)

TypeOK ==
    /\ created \in BOOLEAN /\ unmerged \in BOOLEAN
    /\ branch # <<>> /\ branch[1] = {}
    /\ \A i \in 1..Len(branch) - 1 : branch[i] \subseteq branch[i + 1] /\ branch[i] # branch[i + 1]
    /\ staged \subseteq Agents \ Tip
    /\ pc \in [Operators -> {"idle", "squashing", "aborting", "committing", "checking", "undoing",
                             "recording", "finishing", "completing"}]
    /\ crashes \in 0..MaxCrashes /\ refusals \in 0..MaxRefusals /\ broken \subseteq Agents

Rest == \A p \in Operators : pc[p] = "idle"
Completed == {i \in DOMAIN events : events[i].kind = "integration_complete"}

\* No later conflict, regression or death takes the work of an agent recorded as merged
\* off the branch.
MergedIsIntegrated == Rest => Ids("agent_merged") \subseteq Tip

\* The branch of a completed integration holds every agent its record names, and besides
\* them only agents of whom an approval was broken off, by a death or a refused commit:
\* nothing that was rolled back, conflicted or skipped.
BranchIsAccounted ==
    \A i \in Completed :
        events[i].merged \subseteq events[i].head /\ events[i].head \ events[i].merged \subseteq broken

\* Where no approval was broken off, every criterion holds at the commit an integration
\* was completed at, though the first agent's checks have no baseline to fail.
CompleteIsVerified ==
    broken = {} => \A i \in Completed : Met(events[i].head) = Criteria

-----------------------------------------------------------------------------
(* What the code does not keep; README, section 5 *)

\* A refused commit is the right outcome, says approve_one_agent, and the operator skips
\* the agent: refuted, for the squash stays in the index and goes into the next commit.
SkippedIsLeftOut ==
    crashes = 0 => \A i \in Completed : events[i].head = events[i].merged

\* As approve_one_agent tells the human: once an approval has rolled back, the changes
\* of its agent are off the branch.
RolledBackIsGone ==
    [][\A p \in Operators : pc[p] = "undoing" /\ pc'[p] = "idle" /\ crashes' = crashes
         => mine[p].agent \notin Tip']_vars
=============================================================================
