------------------------- MODULE MissionMerge_proofs -------------------------
(***************************************************************************)
(* Proofs about MissionMerge, for any agents, clashes and criteria: the      *)
(* types for any number of command lines, and what the audit trail says of  *)
(* the branch where one operator merges at a time.                          *)
(***************************************************************************)
EXTENDS MissionMerge, Extrema_proofs, SequenceTheorems

AgentIds == Agents \cup {NoHand.agent}
Stages == {"idle", "squashing", "aborting", "committing", "checking", "undoing",
           "recording", "finishing", "completing"}
Approving == {"squashing", "aborting", "committing", "checking", "undoing", "recording"}
Kinds == {"success_check", "merge_check", "agent_merged", "agent_skipped",
          "integration_complete"}
Event == [kind : Kinds, agent : AgentIds, met : SUBSET Criteria, merged : SUBSET AgentIds,
          head : SUBSET Agents]
Hand == [agent : AgentIds, previous : SUBSET Criteria, met : SUBSET Criteria,
         merged : SUBSET AgentIds, head : SUBSET Agents]

\* TypeOK with the types of everything it leaves open.
Types ==
    /\ created \in BOOLEAN /\ unmerged \in BOOLEAN
    /\ branch \in Seq(SUBSET Agents) /\ branch # <<>>
    /\ staged \in SUBSET Agents
    /\ events \in Seq(Event)
    /\ pc \in [Operators -> Stages]
    /\ mine \in [Operators -> Hand]
    /\ crashes \in 0..MaxCrashes /\ refusals \in 0..MaxRefusals /\ broken \in SUBSET Agents
    /\ \A p \in Operators : pc[p] \in Approving => mine[p].agent \in Agents

\* Every commit adds something, and what is staged is not there yet.
Growing ==
    /\ branch[1] = {}
    /\ \A i \in 1..Len(branch) - 1 : branch[i] \subseteq branch[i + 1] /\ branch[i] # branch[i + 1]
    /\ staged \cap Tip = {}

-----------------------------------------------------------------------------
(* The log and the branch as data *)

\* What one more event does to the log.
Logged(kind, a, met, merged, head) ==
    /\ events' \in Seq(Event)
    /\ Len(events') = Len(events) + 1
    /\ \A i \in 1..Len(events) : events'[i] = events[i]
    /\ events'[Len(events) + 1] = [kind |-> kind, agent |-> a, met |-> met,
                                   merged |-> merged, head |-> head]
    /\ \A k : Ids(k)' = IF k = kind THEN Ids(k) \cup {a} ELSE Ids(k)

LEMMA RecordIsLogged ==
  ASSUME Types, NEW kind \in Kinds, NEW a \in AgentIds, NEW met \in SUBSET Criteria,
         NEW merged \in SUBSET AgentIds, NEW head \in SUBSET Agents,
         Record(kind, a, met, merged, head)
  PROVE  Logged(kind, a, met, merged, head)
  <1> DEFINE new == [kind |-> kind, agent |-> a, met |-> met, merged |-> merged, head |-> head]
  <1>1. new \in Event
    BY DEF Event
  <1>2. /\ events' \in Seq(Event)
        /\ Len(events') = Len(events) + 1
        /\ \A i \in 1..Len(events) : events'[i] = events[i]
        /\ events'[Len(events) + 1] = new
    BY <1>1 DEF Types, Record
  <1>3. ASSUME NEW k
        PROVE  Ids(k)' = IF k = kind THEN Ids(k) \cup {a} ELSE Ids(k)
    <2>1. DOMAIN events = 1..Len(events) /\ DOMAIN events' = 1..(Len(events) + 1)
      BY <1>2 DEF Types
    <2>2. \A b : b \in Ids(k)' <=> \E i \in 1..(Len(events) + 1) :
                                     events'[i].kind = k /\ events'[i].agent = b
      BY <2>1 DEF Ids
    <2>3. \A b : b \in Ids(k) <=> \E i \in 1..Len(events) : events[i].kind = k /\ events[i].agent = b
      BY <2>1 DEF Ids
    <2>4. Len(events) \in Nat
      BY DEF Types
    <2>5. \A b : b \in Ids(k)' <=> b \in Ids(k) \/ (k = kind /\ b = a)
      BY <1>2, <2>2, <2>3, <2>4
    <2> QED BY <2>5
  <1> QED BY <1>2, <1>3 DEF Logged

\* What the commands write.
LEMMA ActionsLog ==
  ASSUME Types, NEW p \in Operators
  PROVE  /\ Check(p) \/ Gate(p) =>
              \E met \in SUBSET Criteria : Logged("merge_check", mine[p].agent, met, {}, {})
         /\ Accept(p) => Logged("agent_merged", mine[p].agent, mine[p].met, {}, {})
         /\ Complete(p) => Logged("integration_complete", mine[p].agent, {}, mine[p].merged,
                                  mine[p].head)
  <1>1. /\ mine[p].agent \in AgentIds /\ mine[p].met \in SUBSET Criteria
        /\ mine[p].merged \in SUBSET AgentIds /\ mine[p].head \in SUBSET Agents
    BY DEF Types, Hand
  <1>2. \A S : {} \in SUBSET S
    OBVIOUS
  <1>3. "merge_check" \in Kinds /\ "agent_merged" \in Kinds /\ "integration_complete" \in Kinds
    BY DEF Kinds
  <1>4. ASSUME Check(p) \/ Gate(p)
        PROVE  \E met \in SUBSET Criteria : Logged("merge_check", mine[p].agent, met, {}, {})
    <2>1. PICK met \in SUBSET Criteria : Record("merge_check", mine[p].agent, met, {}, {})
      BY <1>4 DEF Check, Gate
    <2>2. Logged("merge_check", mine[p].agent, met, {}, {})
      BY <2>1, <1>1, <1>2, <1>3, RecordIsLogged
    <2> QED BY <2>2
  <1>5. ASSUME Accept(p)
        PROVE  Logged("agent_merged", mine[p].agent, mine[p].met, {}, {})
    <2>1. Record("agent_merged", mine[p].agent, mine[p].met, {}, {})
      BY <1>5 DEF Accept
    <2> QED BY <2>1, <1>1, <1>2, <1>3, RecordIsLogged
  <1>6. ASSUME Complete(p)
        PROVE  Logged("integration_complete", mine[p].agent, {}, mine[p].merged, mine[p].head)
    <2>1. Record("integration_complete", mine[p].agent, {}, mine[p].merged, mine[p].head)
      BY <1>6 DEF Complete
    <2> QED BY <2>1, <1>1, <1>2, <1>3, RecordIsLogged
  <1> QED BY <1>4, <1>5, <1>6

LEMMA SkipLogs ==
  ASSUME Types, NEW a \in Agents, Skip(a)
  PROVE  Logged("agent_skipped", a, {}, {}, {})
  <1>1. Record("agent_skipped", a, {}, {}, {}) /\ a \in AgentIds
    BY DEF Skip, AgentIds
  <1>2. "agent_skipped" \in Kinds /\ \A S : {} \in SUBSET S
    BY DEF Kinds
  <1> QED BY <1>1, <1>2, RecordIsLogged

\* The tip is a commit, and one commit back is the branch as it was before the last.
LEMMA TipType ==
  ASSUME Types
  PROVE  Len(branch) \in Nat \ {0} /\ Tip \in SUBSET Agents /\ Workspace \in SUBSET Agents
  BY DEF Types, Tip, Workspace

LEMMA BranchBack ==
  ASSUME Types, Growing, Len(branch) > 1, branch' = Front(branch)
  PROVE  /\ branch' \in Seq(SUBSET Agents) /\ branch' # <<>>
         /\ Len(branch') = Len(branch) - 1
         /\ \A i \in 1..Len(branch') : branch'[i] = branch[i]
         /\ Tip' = branch[Len(branch) - 1]
  <1>1. branch' = SubSeq(branch, 1, Len(branch) - 1) /\ Len(branch) \in Nat
    BY DEF Front, Types
  <1>2. \A i \in 1..Len(branch) - 1 : branch[i] \in SUBSET Agents
    BY DEF Types
  <1>3. /\ branch' \in Seq(SUBSET Agents)
        /\ Len(branch') = Len(branch) - 1
        /\ \A i \in 1..Len(branch) - 1 : branch'[i] = branch[i]
    BY <1>1, <1>2, SubSeqProperties
  <1>4. Tip' = branch[Len(branch) - 1] /\ branch' # <<>>
    BY <1>1, <1>3 DEF Tip
  <1> QED BY <1>3, <1>4

LEMMA BranchOn ==
  ASSUME Types, Growing, branch' = Append(branch, Workspace)
  PROVE  /\ branch' \in Seq(SUBSET Agents) /\ branch' # <<>>
         /\ Len(branch') = Len(branch) + 1
         /\ \A i \in 1..Len(branch) : branch'[i] = branch[i]
         /\ Tip' = Workspace
  BY TipType DEF Types, Tip

\* The latest check is one of the log, so that a baseline is a set of criteria.
LEMMA BaselineType ==
  ASSUME Types
  PROVE  PreviouslyMet \in SUBSET Criteria
  <1>1. CASE Checks = {}
    BY <1>1 DEF PreviouslyMet
  <1>2. CASE Checks # {}
    <2>1. Checks \subseteq 0..Len(events) /\ Len(events) \in Nat
      BY DEF Checks, Types
    <2>2. \E i \in Checks : \A j \in Checks : j <= i
      BY <1>2, <2>1, MaxExists
    <2>3. (CHOOSE i \in Checks : \A j \in Checks : j <= i) \in Checks
      BY <2>2
    <2>4. \A i \in Checks : events[i].met \in SUBSET Criteria
      <3>1. \A i \in DOMAIN events : events[i] \in Event
        BY DEF Types
      <3>2. \A e \in Event : e.met \in SUBSET Criteria
        BY DEF Event
      <3> QED BY <3>1, <3>2 DEF Checks
    <2>5. PreviouslyMet = events[CHOOSE i \in Checks : \A j \in Checks : j <= i].met
      BY <1>2 DEF PreviouslyMet
    <2> QED BY <2>3, <2>4, <2>5
  <1> QED BY <1>1, <1>2

-----------------------------------------------------------------------------
(* Types, for any number of operators *)

LEMMA TypeInit == Init => Types /\ Growing
  <1> SUFFICES ASSUME Init
               PROVE  Types /\ Growing
    OBVIOUS
  <1>1. PICK met \in SUBSET Criteria :
          events = <<[kind |-> "success_check", agent |-> NoHand.agent, met |-> met,
                      merged |-> {}, head |-> {}]>>
    BY DEF Init
  <1>2. events \in Seq(Event)
    BY <1>1 DEF Event, Kinds, AgentIds
  <1>3. NoHand \in Hand
    BY DEF NoHand, Hand, AgentIds
  <1>4. branch \in Seq(SUBSET Agents) /\ branch # <<>> /\ branch[1] = {} /\ Len(branch) = 1
    BY DEF Init
  <1>5. mine \in [Operators -> Hand] /\ pc \in [Operators -> Stages]
    BY <1>3 DEF Init, Stages
  <1>6. \A p \in Operators : pc[p] \notin Approving
    BY DEF Init, Approving
  <1>7. /\ crashes = 0 /\ refusals = 0 /\ broken = {}
        /\ created \in BOOLEAN /\ unmerged \in BOOLEAN /\ staged = {}
    BY DEF Init
  <1>8. 0 \in 0..MaxCrashes /\ 0 \in 0..MaxRefusals
    BY MergeAssumption
  <1> QED BY <1>2, <1>4, <1>5, <1>6, <1>7, <1>8 DEF Types, Growing

\* How a command line goes on or ends.
LEMMA MovesTypes ==
  ASSUME Types, NEW p \in Operators, NEW from, NEW to \in Stages, Moves(p, from, to)
  PROVE  /\ pc[p] = from /\ pc'[p] = to /\ pc' \in [Operators -> Stages]
         /\ \A q \in Operators \ {p} : pc'[q] = pc[q]
  BY DEF Moves, Types

LEMMA EndsTypes ==
  ASSUME Types, NEW p \in Operators, NEW from, Ends(p, from)
  PROVE  /\ pc[p] = from /\ pc'[p] = "idle" /\ pc' \in [Operators -> Stages]
         /\ mine' \in [Operators -> Hand]
         /\ \A q \in Operators \ {p} : pc'[q] = pc[q] /\ mine'[q] = mine[q]
         /\ \A q \in Operators : pc'[q] \in Approving => mine'[q].agent \in Agents
  <1>1. NoHand \in Hand
    BY DEF NoHand, Hand, AgentIds
  <1>2. "idle" \in Stages /\ "idle" \notin Approving
    BY DEF Stages, Approving
  <1> QED BY <1>1, <1>2 DEF Ends, Moves, Types

\* What of the types a step has still to show, when it leaves the branch alone.
LEMMA BranchStays ==
  ASSUME Types, Growing, UNCHANGED branch,
         staged' = {} \/ staged' = staged \/ (staged' \in SUBSET Agents /\ staged' \cap Tip = {})
  PROVE  /\ branch' \in Seq(SUBSET Agents) /\ branch' # <<>> /\ staged' \in SUBSET Agents
         /\ Growing'
  BY DEF Types, Growing, Tip

LEMMA TypeStep ==
  ASSUME Types, Growing, [Next]_vars
  PROVE  Types' /\ Growing'
  <1> USE DEF tree, faults
  <1>0. \A x \in Approving : x \in Stages
    BY DEF Approving, Stages
  <1>1. ASSUME NEW p \in Operators, NEW a \in Agents, Approve(p, a)
        PROVE  Types' /\ Growing'
    <2>1. mine' \in [Operators -> Hand]
      <3>1. a \in AgentIds /\ mine \in [Operators -> Hand]
        BY DEF AgentIds, Types
      <3>2. \A h \in Hand : [h EXCEPT !.agent = a] \in Hand
        BY <3>1 DEF Hand
      <3>3. mine' = mine \/ mine' = [mine EXCEPT ![p] = [mine[p] EXCEPT !.agent = a]]
        BY <1>1 DEF Approve
      <3> QED BY <3>1, <3>2, <3>3
    <2>2. pc' \in [Operators -> Stages]
      BY <1>1 DEF Approve, Moves, Types, Stages
    <2>3. \A q \in Operators : pc'[q] \in Approving => mine'[q].agent \in Agents
      BY <1>1 DEF Approve, Moves, Types, Hand
    <2> QED BY <1>1, <2>1, <2>2, <2>3 DEF Approve, EnsureWorktree, Types, Growing, Tip
  <1>2. ASSUME NEW p \in Operators, Squash(p)
        PROVE  Types' /\ Growing'
    <2>1. pc' \in [Operators -> Stages] /\ unmerged' \in BOOLEAN
      BY <1>2 DEF Squash, Moves, Types, Stages
    <2>2. staged' \in SUBSET Agents /\ staged' \cap Tip = {}
      BY <1>2 DEF Squash, Moves, Types, Growing, Approving
    <2>3. UNCHANGED <<created, branch, events, mine, faults>>
      BY <1>2 DEF Squash
    <2>4. \A q \in Operators : pc'[q] \in Approving => pc[q] \in Approving
      BY <1>2 DEF Squash, Moves, Types, Approving
    <2> QED BY <2>1, <2>2, <2>3, <2>4 DEF Types, Growing, Tip
  <1>3. ASSUME NEW p \in Operators, Abort(p)
        PROVE  Types' /\ Growing'
    <2>1. /\ Ends(p, "aborting") /\ staged' = {} /\ unmerged' = FALSE
          /\ UNCHANGED <<created, branch, events, faults>>
      BY <1>3 DEF Abort
    <2> QED BY <2>1, EndsTypes, BranchStays DEF Types
  <1>4. ASSUME NEW p \in Operators, Commit(p)
        PROVE  Types' /\ Growing'
    <2>1. pc' \in [Operators -> Stages]
      BY <1>4 DEF Commit, Moves, Types, Stages
    <2>2. branch' = Append(branch, Workspace) /\ staged' = {} /\ staged # {}
          /\ UNCHANGED <<created, unmerged, events, faults>>
      BY <1>4 DEF Commit
    <2>3. mine' \in [Operators -> Hand]
      <3>1. \A h \in Hand : [h EXCEPT !.previous = PreviouslyMet] \in Hand
        BY BaselineType DEF Hand
      <3>2. mine' = [mine EXCEPT ![p] = [mine[p] EXCEPT !.previous = PreviouslyMet]]
        BY <1>4 DEF Commit
      <3> QED BY <3>1, <3>2 DEF Types
    <2>4. \A q \in Operators : pc'[q] \in Approving =>
             pc[q] \in Approving /\ mine'[q].agent = mine[q].agent
      BY <1>4 DEF Commit, Moves, Types, Hand, Approving
    <2>5. Types'
      BY <2>1, <2>2, <2>3, <2>4, BranchOn DEF Types
    <2>6. Tip \subseteq Workspace /\ Tip # Workspace
      BY <2>2 DEF Growing, Workspace
    <2>7. Growing'
      BY <2>2, <2>6, BranchOn, TipType DEF Growing, Tip
    <2> QED BY <2>5, <2>7
  <1>5. ASSUME NEW p \in Operators, NothingToCommit(p)
        PROVE  Types' /\ Growing'
    <2>1. Ends(p, "committing") /\ UNCHANGED <<created, branch, staged, unmerged, events, faults>>
      BY <1>5 DEF NothingToCommit
    <2> QED BY <2>1, EndsTypes, BranchStays DEF Types
  <1>6. ASSUME NEW p \in Operators, Refused(p)
        PROVE  Types' /\ Growing'
    <2>1. /\ Ends(p, "committing") /\ UNCHANGED <<created, branch, staged, unmerged, events, crashes>>
          /\ refusals < MaxRefusals /\ refusals' = refusals + 1 /\ broken' = broken \cup {mine[p].agent}
      BY <1>6 DEF Refused
    <2>2. mine[p].agent \in Agents
      BY <2>1 DEF Ends, Moves, Types, Approving
    <2>3. refusals' \in 0..MaxRefusals
      BY <2>1, MergeAssumption DEF Types
    <2> QED BY <2>1, <2>2, <2>3, EndsTypes, BranchStays DEF Types
  <1>7. ASSUME NEW p \in Operators, Check(p)
        PROVE  Types' /\ Growing'
    <2>1. events' \in Seq(Event)
      BY <1>7, ActionsLog DEF Logged
    <2>2. mine' \in [Operators -> Hand]
      BY <1>7 DEF Check, Types, Hand
    <2>3. pc' \in [Operators -> Stages]
      BY <1>7 DEF Check, Moves, Types, Stages
    <2>4. \A q \in Operators : pc'[q] \in Approving =>
             pc[q] \in Approving /\ mine'[q].agent = mine[q].agent
      BY <1>7 DEF Check, Moves, Types, Hand, Approving
    <2>5. UNCHANGED <<created, branch, staged, unmerged, faults>>
      BY <1>7 DEF Check
    <2> QED BY <2>1, <2>2, <2>3, <2>4, <2>5, BranchStays DEF Types
  <1>8. ASSUME NEW p \in Operators, Rollback(p)
        PROVE  Types' /\ Growing'
    <2>1. Ends(p, "undoing") /\ staged' = {} /\ unmerged' = FALSE /\ UNCHANGED <<created, events, faults>>
      BY <1>8 DEF Rollback
    <2>2. CASE Len(branch) > 1
      <3>1. branch' = Front(branch)
        BY <1>8, <2>2 DEF Rollback
      <3>2. Types'
        BY <2>1, <2>2, <3>1, BranchBack, EndsTypes DEF Types
      <3>3. Growing'
        <4>1. Len(branch) \in Nat /\ Len(branch') = Len(branch) - 1
              /\ \A i \in 1..Len(branch') : branch'[i] = branch[i]
          BY <2>2, <3>1, BranchBack, TipType
        <4>2. branch'[1] = {}
          BY <2>2, <4>1 DEF Growing
        <4>3. ASSUME NEW i \in 1..Len(branch') - 1
              PROVE  branch'[i] \subseteq branch'[i + 1] /\ branch'[i] # branch'[i + 1]
          BY <4>1 DEF Growing
        <4> QED BY <2>1, <4>2, <4>3 DEF Growing
      <3> QED BY <3>2, <3>3
    <2>3. CASE ~(Len(branch) > 1)
      <3>1. UNCHANGED branch
        BY <1>8, <2>3 DEF Rollback
      <3> QED BY <2>1, <3>1, EndsTypes, BranchStays DEF Types
    <2> QED BY <2>2, <2>3
  <1>9. ASSUME NEW p \in Operators, Accept(p)
        PROVE  Types' /\ Growing'
    <2>1. events' \in Seq(Event)
      BY <1>9, ActionsLog DEF Logged
    <2>2. Ends(p, "recording") /\ UNCHANGED <<created, branch, staged, unmerged, faults>>
      BY <1>9 DEF Accept
    <2> QED BY <2>1, <2>2, EndsTypes, BranchStays DEF Types
  <1>10. ASSUME NEW a \in Agents, Skip(a)
         PROVE  Types' /\ Growing'
    <2>1. events' \in Seq(Event)
      BY <1>10, SkipLogs DEF Logged
    <2>2. UNCHANGED <<created, branch, staged, unmerged, pc, mine, faults>>
      BY <1>10 DEF Skip
    <2> QED BY <2>1, <2>2, BranchStays DEF Types
  <1>11. ASSUME NEW p \in Operators, Finish(p)
         PROVE  Types' /\ Growing'
    <2>1. Ids("agent_merged") \subseteq AgentIds
      <3>1. \A i \in DOMAIN events : events[i] \in Event
        BY DEF Types
      <3>2. \A e \in Event : e.agent \in AgentIds
        BY DEF Event
      <3> QED BY <3>1, <3>2 DEF Ids
    <2>2. mine' \in [Operators -> Hand]
      BY <1>11, <2>1, TipType DEF Finish, Types, Hand
    <2>3. pc' \in [Operators -> Stages]
      BY <1>11 DEF Finish, Moves, Types, Stages
    <2>4. \A q \in Operators : pc'[q] \in Approving => pc[q] \in Approving /\ mine'[q] = mine[q]
      BY <1>11 DEF Finish, Moves, Types, Approving
    <2>5. UNCHANGED <<created, branch, staged, unmerged, events, faults>>
      BY <1>11 DEF Finish
    <2> QED BY <2>2, <2>3, <2>4, <2>5, BranchStays DEF Types
  <1>12. ASSUME NEW p \in Operators, Gate(p)
         PROVE  Types' /\ Growing'
    <2>1. events' \in Seq(Event)
      BY <1>12, ActionsLog DEF Logged
    <2>2. UNCHANGED <<created, branch, staged, unmerged, faults>>
      BY <1>12 DEF Gate
    <2>3. CASE Ends(p, "finishing")
      BY <2>1, <2>2, <2>3, EndsTypes, BranchStays DEF Types
    <2>4. CASE Moves(p, "finishing", "completing") /\ UNCHANGED mine
      <3>1. /\ pc' \in [Operators -> Stages]
            /\ \A q \in Operators : pc'[q] \in Approving => pc[q] \in Approving
        BY <2>4 DEF Moves, Types, Stages, Approving
      <3> QED BY <2>1, <2>2, <2>4, <3>1, BranchStays DEF Types
    <2> QED BY <1>12, <2>3, <2>4 DEF Gate
  <1>13. ASSUME NEW p \in Operators, Complete(p)
         PROVE  Types' /\ Growing'
    <2>1. events' \in Seq(Event)
      BY <1>13, ActionsLog DEF Logged
    <2>2. Ends(p, "completing") /\ UNCHANGED <<created, branch, staged, unmerged, faults>>
      BY <1>13 DEF Complete
    <2> QED BY <2>1, <2>2, EndsTypes, BranchStays DEF Types
  <1>14. ASSUME NEW p \in Operators, Crash(p)
         PROVE  Types' /\ Growing'
    <2>1. /\ Ends(p, pc[p]) /\ UNCHANGED <<created, branch, staged, unmerged, events, refusals>>
          /\ crashes < MaxCrashes /\ crashes' = crashes + 1
      BY <1>14 DEF Crash
    <2>2. crashes' \in 0..MaxCrashes
      BY <2>1, MergeAssumption DEF Types
    <2>3. broken' \in SUBSET Agents
      BY <1>14 DEF Crash, Types, Approving
    <2> QED BY <2>1, <2>2, <2>3, EndsTypes, BranchStays DEF Types
  <1>15. CASE UNCHANGED vars
    <2>1. UNCHANGED <<created, branch, staged, unmerged, events, pc, mine, faults>>
      BY <1>15 DEF vars
    <2> QED BY <2>1, BranchStays DEF Types
  <1> QED
    BY <1>1, <1>2, <1>3, <1>4, <1>5, <1>6, <1>7, <1>8, <1>9, <1>10, <1>11, <1>12, <1>13, <1>14, <1>15
    DEF Next

LEMMA TypesAlways == Spec => [](Types /\ Growing)
  BY TypeInit, TypeStep, PTL DEF Spec

\* The variables keep their types for any number of command lines at once: the branch
\* starts at the base and every commit on it adds something.
THEOREM TypeCorrect == Spec => []TypeOK
  <1>1. Types /\ Growing => TypeOK
    BY DEF Types, Growing, TypeOK, Stages
  <1> QED BY <1>1, TypesAlways, PTL

-----------------------------------------------------------------------------
(* One operator at a time *)

Alone == \A p, q \in Operators : p = q
Merged == Ids("agent_merged")
Before == branch[Len(branch) - 1]

\* The merged agents are on the branch, and on its last commit but one while the last is
\* on trial; an agent under way is where its stage has put it.
Tracked ==
    /\ Merged \subseteq Tip
    /\ \A p \in Operators :
         /\ pc[p] = "committing" => mine[p].agent \in Workspace
         /\ pc[p] \in {"checking", "undoing", "recording"} =>
              Len(branch) > 1 /\ Merged \subseteq Before /\ mine[p].agent \in Tip

\* Whatever was broken off, the branch and the index hold merged agents, agents of whom an
\* approval was broken off, and the one under way; what is on trial is one commit more.
Out == Merged \cup broken

Placed(p) ==
    LET a == mine[p].agent IN
    /\ pc[p] \in {"idle", "squashing", "aborting", "finishing", "completing"} =>
         Tip \subseteq Out /\ staged \subseteq Out
    /\ pc[p] = "committing" => ~unmerged /\ Tip \subseteq Out /\ staged \subseteq Out \cup {a}
    /\ pc[p] \in {"checking", "undoing", "recording"} =>
         staged = {} /\ Before \subseteq Out /\ Tip \subseteq Out \cup {a}
    /\ pc[p] \in {"finishing", "completing"} => mine[p].merged = Merged /\ mine[p].head = Tip

Explained ==
    /\ \A i \in Completed :
         events[i].merged \subseteq events[i].head /\ events[i].head \ events[i].merged \subseteq broken
    /\ \A p \in Operators : Placed(p)

\* Where nothing was broken off, the index is clean but for an approval's own.
Clean(p) ==
    /\ pc[p] # "aborting" => ~unmerged
    /\ pc[p] # "committing" => staged = {}
    /\ pc[p] = "completing" => Met(Tip) = Criteria

Verified ==
    broken = {} =>
      /\ \A i \in Completed : Met(events[i].head) = Criteria
      /\ \A p \in Operators : Clean(p)

\* What the log says of merged agents changes with one kind of event only.
LEMMA MergedLogged ==
  ASSUME Types, NEW p \in Operators
  PROVE  /\ Check(p) \/ Gate(p) \/ Complete(p) => Merged' = Merged
         /\ Accept(p) => Merged' = Merged \cup {mine[p].agent}
         /\ \A a \in Agents : Skip(a) => Merged' = Merged
  BY ActionsLog, SkipLogs DEF Logged, Merged

\* A command line that moves or ends, and what leaves the log alone.
LEMMA EventsStay ==
  ASSUME UNCHANGED events
  PROVE  Merged' = Merged /\ Completed' = Completed
  BY DEF Merged, Ids, Completed

\* What is complete stays so, and only --finish completes.
LEMMA CompletedLogged ==
  ASSUME Types, NEW kind, NEW a, NEW met, NEW merged, NEW head,
         Logged(kind, a, met, merged, head)
  PROVE  /\ \A i \in Completed' :
              \/ i \in Completed /\ events'[i] = events[i]
              \/ kind = "integration_complete" /\ events'[i].merged = merged
                   /\ events'[i].head = head
  <1>1. Len(events) \in Nat /\ DOMAIN events = 1..Len(events)
        /\ DOMAIN events' = 1..(Len(events) + 1)
    BY DEF Types, Logged
  <1>2. ASSUME NEW i \in Completed', i # Len(events) + 1
        PROVE  i \in Completed /\ events'[i] = events[i]
    BY <1>1, <1>2 DEF Completed, Logged
  <1>3. ASSUME NEW i \in Completed', i = Len(events) + 1
        PROVE  kind = "integration_complete" /\ events'[i].merged = merged /\ events'[i].head = head
    BY <1>3 DEF Completed, Logged
  <1> QED BY <1>2, <1>3

\* No step but one takes an integration for complete.
NoneCompleted == \A i \in Completed' : i \in Completed /\ events'[i] = events[i]

LEMMA OnlyCompletes ==
  ASSUME Types
  PROVE  /\ UNCHANGED events => NoneCompleted
         /\ \A p \in Operators : Check(p) \/ Gate(p) \/ Accept(p) => NoneCompleted
         /\ \A a \in Agents : Skip(a) => NoneCompleted
  <1>1. ASSUME UNCHANGED events PROVE NoneCompleted
    BY <1>1 DEF NoneCompleted, Completed
  <1>2. ASSUME NEW p \in Operators, Check(p) \/ Gate(p) PROVE NoneCompleted
    <2>1. PICK met \in SUBSET Criteria : Logged("merge_check", mine[p].agent, met, {}, {})
      BY <1>2, ActionsLog
    <2> QED BY <2>1, CompletedLogged DEF NoneCompleted
  <1>3. ASSUME NEW p \in Operators, Accept(p) PROVE NoneCompleted
    BY <1>3, ActionsLog, CompletedLogged DEF NoneCompleted
  <1>4. ASSUME NEW a \in Agents, Skip(a) PROVE NoneCompleted
    BY <1>4, SkipLogs, CompletedLogged DEF NoneCompleted
  <1> QED BY <1>1, <1>2, <1>3, <1>4

LEMMA TrackedStep ==
  ASSUME Alone, Types, Growing, Types', Tracked, [Next]_vars
  PROVE  Tracked'
  <1> USE DEF tree, faults
  <1>0. ASSUME NEW p \in Operators, pc'[p] \notin {"committing", "checking", "undoing", "recording"},
               Merged' \subseteq Tip'
        PROVE  Tracked'
    BY <1>0 DEF Tracked, Alone
  <1>1. ASSUME NEW p \in Operators, NEW a \in Agents, Approve(p, a)
        PROVE  Tracked'
    <2>1. pc'[p] \notin {"committing", "checking", "undoing", "recording"}
          /\ UNCHANGED <<branch, events>>
      BY <1>1 DEF Approve, Moves, Types
    <2> QED BY <1>0, <2>1, EventsStay DEF Tracked, Tip
  <1>2. ASSUME NEW p \in Operators, Squash(p)
        PROVE  Tracked'
    <2>1. Merged' = Merged /\ Tip' = Tip /\ UNCHANGED mine
      BY <1>2, EventsStay DEF Squash, Tip
    <2>2. pc'[p] = "committing" => mine[p].agent \in Workspace'
      BY <1>2 DEF Squash, Moves, Workspace, Tip, Types
    <2>3. pc'[p] \notin {"checking", "undoing", "recording"}
      BY <1>2 DEF Squash, Moves, Types
    <2> QED BY <2>1, <2>2, <2>3 DEF Tracked, Alone
  <1>3. ASSUME NEW p \in Operators, Abort(p) \/ NothingToCommit(p) \/ Refused(p) \/ Crash(p)
        PROVE  Tracked'
    <2>1. UNCHANGED <<branch, events>> /\ \E from : Ends(p, from)
      BY <1>3 DEF Abort, NothingToCommit, Refused, Crash
    <2>2. pc'[p] = "idle"
      BY <2>1, EndsTypes
    <2> QED BY <1>0, <2>1, <2>2, EventsStay DEF Tracked, Tip
  <1>4. ASSUME NEW p \in Operators, Commit(p)
        PROVE  Tracked'
    <2>1. /\ branch' = Append(branch, Workspace) /\ UNCHANGED events
          /\ pc'[p] = "checking" /\ pc[p] = "committing" /\ mine'[p].agent = mine[p].agent
      BY <1>4 DEF Commit, Moves, Types, Hand
    <2>2. /\ Len(branch') = Len(branch) + 1 /\ Len(branch) \in Nat \ {0}
          /\ branch'[Len(branch)] = branch[Len(branch)] /\ Tip' = Workspace
      BY <2>1, BranchOn, TipType
    <2>3. Before' = Tip
      BY <2>2 DEF Before, Tip
    <2>4. Tip \subseteq Workspace
      BY DEF Workspace
    <2> QED BY <2>1, <2>2, <2>3, <2>4, EventsStay DEF Tracked, Alone
  <1>5. ASSUME NEW p \in Operators, Check(p)
        PROVE  Tracked'
    <2>1. Merged' = Merged /\ UNCHANGED branch
      BY <1>5, MergedLogged DEF Check
    <2>2. mine'[p].agent = mine[p].agent /\ pc[p] = "checking" /\ pc'[p] \in {"recording", "undoing"}
      BY <1>5 DEF Check, Moves, Types, Hand
    <2> QED BY <2>1, <2>2 DEF Tracked, Tip, Before, Alone
  <1>6. ASSUME NEW p \in Operators, Rollback(p)
        PROVE  Tracked'
    <2>1. pc[p] = "undoing" /\ pc'[p] = "idle" /\ Merged' = Merged
      BY <1>6, EndsTypes, EventsStay DEF Rollback
    <2>2. Len(branch) > 1 /\ branch' = Front(branch)
      BY <1>6, <2>1 DEF Rollback, Tracked
    <2>3. Tip' = Before
      BY <2>2, BranchBack DEF Before
    <2>4. Merged' \subseteq Tip'
      BY <2>1, <2>3 DEF Tracked
    <2> QED BY <1>0, <2>1, <2>4
  <1>7. ASSUME NEW p \in Operators, Accept(p)
        PROVE  Tracked'
    <2>1. Merged' = Merged \cup {mine[p].agent} /\ UNCHANGED branch
      BY <1>7, MergedLogged DEF Accept
    <2>2. pc[p] = "recording" /\ pc'[p] = "idle"
      BY <1>7, EndsTypes DEF Accept
    <2>3. Merged' \subseteq Tip'
      BY <2>1, <2>2 DEF Tracked, Tip
    <2> QED BY <1>0, <2>2, <2>3
  <1>8. ASSUME NEW a \in Agents, Skip(a)
        PROVE  Tracked'
    <2>1. UNCHANGED <<branch, staged, pc, mine>>
      BY <1>8 DEF Skip
    <2>2. Merged' = Merged
      BY <1>8, SkipLogs DEF Logged, Merged
    <2> QED BY <2>1, <2>2 DEF Tracked, Tip, Before, Workspace
  <1>9. ASSUME NEW p \in Operators, Finish(p)
        PROVE  Tracked'
    <2>1. pc'[p] = "finishing" /\ UNCHANGED <<branch, events>>
      BY <1>9 DEF Finish, Moves, Types
    <2> QED BY <1>0, <2>1, EventsStay DEF Tracked, Tip
  <1>10. ASSUME NEW p \in Operators, Gate(p) \/ Complete(p)
         PROVE  Tracked'
    <2>1. Merged' = Merged /\ UNCHANGED branch
      BY <1>10, MergedLogged DEF Gate, Complete
    <2>2. pc'[p] \in {"completing", "idle"}
      BY <1>10 DEF Gate, Complete, Ends, Moves, Types
    <2> QED BY <1>0, <2>1, <2>2 DEF Tracked, Tip
  <1>11. CASE UNCHANGED vars
    BY <1>11 DEF vars, Tracked, Merged, Ids, Tip, Before, Workspace
  <1> QED
    BY <1>1, <1>2, <1>3, <1>4, <1>5, <1>6, <1>7, <1>8, <1>9, <1>10, <1>11 DEF Next

\* Where one operator merges at a time, no later conflict, regression, refused commit or
\* death takes the work of a merged agent off the branch.
THEOREM MergedIsIntegratedAlways ==
  ASSUME Alone
  PROVE  Spec => []MergedIsIntegrated
  <1>1. Init => Tracked
    <2> SUFFICES ASSUME Init
                 PROVE  Tracked
      OBVIOUS
    <2>1. DOMAIN events = {1} /\ events[1].kind = "success_check"
      BY DEF Init
    <2>2. Merged = {}
      BY <2>1 DEF Merged, Ids
    <2> QED BY <2>2 DEF Init, Tracked
  <1>2. Tracked => MergedIsIntegrated
    BY DEF Tracked, MergedIsIntegrated, Merged
  <1>3. Types /\ Growing /\ Types' /\ Tracked /\ [Next]_vars => Tracked'
    BY TrackedStep
  <1> QED BY <1>1, <1>2, <1>3, TypesAlways, PTL DEF Spec

-----------------------------------------------------------------------------
(* What a completed integration holds *)

\* No step forgets what was broken off, and what was completed stays explained.
LEMMA ExplainedFrom ==
  ASSUME Alone, Explained, NEW p \in Operators, broken \subseteq broken', NoneCompleted, Placed(p)'
  PROVE  Explained'
  <1>1. \A q \in Operators : q = p
    BY DEF Alone
  <1>2. ASSUME NEW i \in Completed'
        PROVE  /\ events'[i].merged \subseteq events'[i].head
               /\ events'[i].head \ events'[i].merged \subseteq broken'
    BY <1>2 DEF Explained, NoneCompleted
  <1> QED BY <1>1, <1>2 DEF Explained

LEMMA ExplainedStep ==
  ASSUME Alone, Types, Growing, Tracked, Explained, Types', [Next]_vars
  PROVE  Explained'
  <1> USE DEF tree
  <1>0. ASSUME NEW p \in Operators PROVE Placed(p)
    BY DEF Explained
  <1>1. ASSUME NEW p \in Operators, NEW a \in Agents, Approve(p, a)
        PROVE  Explained'
    <2>1. UNCHANGED <<branch, staged, events, broken>>
          /\ pc'[p] \in {"idle", "squashing"} /\ pc[p] = "idle"
      BY <1>1 DEF Approve, Moves, Types, faults
    <2>2. Placed(p)'
      BY <1>0, <2>1, EventsStay DEF Placed, Out, Tip
    <2> QED BY <2>1, <2>2, ExplainedFrom, OnlyCompletes
  <1>2. ASSUME NEW p \in Operators, Squash(p)
        PROVE  Explained'
    <2>1. UNCHANGED <<branch, events, mine, broken>> /\ pc[p] = "squashing"
          /\ pc'[p] \in {"committing", "aborting"}
      BY <1>2 DEF Squash, Moves, Types, faults
    <2>2. /\ pc'[p] = "committing" => ~unmerged' /\ staged' = staged \cup ({mine[p].agent} \ Tip)
          /\ pc'[p] = "aborting" => staged' = staged
      BY <1>2 DEF Squash, Moves, Types
    <2>3. Placed(p)'
      BY <1>0, <2>1, <2>2, EventsStay DEF Placed, Out, Tip
    <2> QED BY <2>1, <2>3, ExplainedFrom, OnlyCompletes
  <1>3. ASSUME NEW p \in Operators, Abort(p) \/ NothingToCommit(p)
        PROVE  Explained'
    <2>1. UNCHANGED <<branch, events, broken>> /\ pc'[p] = "idle"
      BY <1>3, EndsTypes DEF Abort, NothingToCommit, faults
    <2>2. pc[p] \in {"aborting", "committing"} /\ staged' = {}
      BY <1>0, <1>3 DEF Abort, NothingToCommit, Ends, Moves, Placed
    <2>3. Placed(p)'
      BY <1>0, <2>1, <2>2, EventsStay DEF Placed, Out, Tip
    <2> QED BY <2>1, <2>3, ExplainedFrom, OnlyCompletes
  <1>4. ASSUME NEW p \in Operators, Commit(p)
        PROVE  Explained'
    <2>1. /\ branch' = Append(branch, Workspace) /\ staged' = {} /\ UNCHANGED <<events, broken>>
          /\ pc[p] = "committing" /\ pc'[p] = "checking" /\ mine'[p].agent = mine[p].agent
      BY <1>4 DEF Commit, Moves, Types, Hand, faults
    <2>2. Tip' = Workspace /\ Before' = Tip
      BY <2>1, BranchOn, TipType DEF Before, Tip
    <2>3. Out' = Out
      BY <2>1, EventsStay DEF Out
    <2>4. Placed(p)'
      BY <1>0, <2>1, <2>2, <2>3 DEF Placed, Workspace
    <2> QED BY <2>1, <2>4, ExplainedFrom, OnlyCompletes
  <1>5. ASSUME NEW p \in Operators, Refused(p)
        PROVE  Explained'
    <2>1. UNCHANGED <<branch, staged, events>> /\ broken' = broken \cup {mine[p].agent}
          /\ pc[p] = "committing" /\ pc'[p] = "idle"
      BY <1>5, EndsTypes DEF Refused
    <2>2. Placed(p)'
      BY <1>0, <2>1, EventsStay DEF Placed, Out, Tip
    <2> QED BY <2>1, <2>2, ExplainedFrom, OnlyCompletes
  <1>6. ASSUME NEW p \in Operators, Check(p)
        PROVE  Explained'
    <2>1. UNCHANGED <<branch, staged, broken>> /\ mine'[p].agent = mine[p].agent
          /\ pc[p] = "checking" /\ pc'[p] \in {"recording", "undoing"}
      BY <1>6 DEF Check, Moves, Types, Hand, faults
    <2>2. Merged' = Merged
      BY <1>6, MergedLogged
    <2>3. Placed(p)'
      BY <1>0, <2>1, <2>2 DEF Placed, Out, Tip, Before
    <2> QED BY <1>6, <2>1, <2>3, ExplainedFrom, OnlyCompletes
  <1>7. ASSUME NEW p \in Operators, Rollback(p)
        PROVE  Explained'
    <2>1. UNCHANGED <<events, broken>> /\ pc[p] = "undoing" /\ pc'[p] = "idle" /\ staged' = {}
      BY <1>7, EndsTypes DEF Rollback, faults
    <2>2. Len(branch) > 1 /\ branch' = Front(branch)
      BY <1>7, <2>1 DEF Rollback, Tracked
    <2>3. Tip' = Before
      BY <2>2, BranchBack DEF Before
    <2>4. Placed(p)'
      BY <1>0, <2>1, <2>3, EventsStay DEF Placed, Out
    <2> QED BY <2>1, <2>4, ExplainedFrom, OnlyCompletes
  <1>8. ASSUME NEW p \in Operators, Accept(p)
        PROVE  Explained'
    <2>1. UNCHANGED <<branch, staged, broken>> /\ pc[p] = "recording" /\ pc'[p] = "idle"
      BY <1>8, EndsTypes DEF Accept, faults
    <2>2. Merged' = Merged \cup {mine[p].agent}
      BY <1>8, MergedLogged
    <2>3. Placed(p)'
      BY <1>0, <2>1, <2>2 DEF Placed, Out, Tip
    <2> QED BY <1>8, <2>1, <2>3, ExplainedFrom, OnlyCompletes
  <1>9. ASSUME NEW a \in Agents, Skip(a)
        PROVE  Explained'
    <2>1. UNCHANGED <<branch, staged, unmerged, pc, mine, broken>>
      BY <1>9 DEF Skip, faults
    <2>2. Merged' = Merged
      BY <1>9, SkipLogs DEF Logged, Merged
    <2>3. \A p \in Operators : Placed(p)'
      BY <1>0, <2>1, <2>2 DEF Placed, Out, Tip, Before
    <2>4. NoneCompleted
      BY <1>9, OnlyCompletes
    <2>5. ASSUME NEW i \in Completed'
          PROVE  /\ events'[i].merged \subseteq events'[i].head
                 /\ events'[i].head \ events'[i].merged \subseteq broken'
      BY <2>1, <2>4, <2>5 DEF Explained, NoneCompleted
    <2> QED BY <2>3, <2>5 DEF Explained
  <1>10. ASSUME NEW p \in Operators, Finish(p)
         PROVE  Explained'
    <2>1. UNCHANGED <<branch, staged, events, broken>> /\ pc[p] = "idle" /\ pc'[p] = "finishing"
      BY <1>10 DEF Finish, Moves, Types, faults
    <2>2. mine'[p].merged = Merged /\ mine'[p].head = Tip
      BY <1>10 DEF Finish, Merged, Types, Hand
    <2>3. Placed(p)'
      BY <1>0, <2>1, <2>2, EventsStay DEF Placed, Out, Tip
    <2> QED BY <2>1, <2>3, ExplainedFrom, OnlyCompletes
  <1>11. ASSUME NEW p \in Operators, Gate(p)
         PROVE  Explained'
    <2>1. UNCHANGED <<branch, staged, broken>> /\ pc[p] = "finishing"
          /\ (pc'[p] = "idle" \/ (pc'[p] = "completing" /\ UNCHANGED mine))
      BY <1>11 DEF Gate, Ends, Moves, Types, faults
    <2>2. Merged' = Merged
      BY <1>11, MergedLogged
    <2>3. Placed(p)'
      BY <1>0, <2>1, <2>2 DEF Placed, Out, Tip
    <2> QED BY <1>11, <2>1, <2>3, ExplainedFrom, OnlyCompletes
  <1>12. ASSUME NEW p \in Operators, Complete(p)
         PROVE  Explained'
    <2>1. UNCHANGED <<branch, staged, broken>> /\ pc[p] = "completing" /\ pc'[p] = "idle"
      BY <1>12, EndsTypes DEF Complete, faults
    <2>2. Merged' = Merged
      BY <1>12, MergedLogged
    <2>3. Placed(p)'
      BY <1>0, <2>1, <2>2 DEF Placed, Out, Tip
    <2>4. \A i \in Completed' : \/ i \in Completed /\ events'[i] = events[i]
                                \/ events'[i].merged = mine[p].merged /\ events'[i].head = mine[p].head
      BY <1>12, ActionsLog, CompletedLogged
    <2>5. mine[p].merged = Merged /\ mine[p].head = Tip /\ Tip \subseteq Merged \cup broken
      BY <1>0, <2>1 DEF Placed, Out
    <2>6. Merged \subseteq Tip
      BY DEF Tracked
    <2>7. ASSUME NEW i \in Completed'
          PROVE  /\ events'[i].merged \subseteq events'[i].head
                 /\ events'[i].head \ events'[i].merged \subseteq broken'
      BY <2>1, <2>4, <2>5, <2>6, <2>7 DEF Explained
    <2> QED BY <2>3, <2>7 DEF Explained, Alone
  <1>13. ASSUME NEW p \in Operators, Crash(p)
         PROVE  Explained'
    <2>1. UNCHANGED <<branch, staged, events>> /\ pc'[p] = "idle"
      BY <1>13, EndsTypes DEF Crash
    <2>2. /\ broken \subseteq broken'
          /\ pc[p] \in {"committing", "checking", "undoing", "recording"} => mine[p].agent \in broken'
      BY <1>13 DEF Crash
    <2>3. pc[p] \in Stages
      BY DEF Types
    <2>4. Placed(p)'
      BY <1>0, <2>1, <2>2, <2>3, EventsStay DEF Placed, Out, Tip, Stages
    <2> QED BY <2>1, <2>2, <2>4, ExplainedFrom, OnlyCompletes
  <1>14. CASE UNCHANGED vars
    <2>1. UNCHANGED <<branch, staged, unmerged, events, pc, mine, broken>>
      BY <1>14 DEF vars, faults
    <2>2. \A p \in Operators : Placed(p)'
      BY <1>0, <2>1, EventsStay DEF Placed, Out, Tip, Before
    <2> QED BY <2>1, <2>2, EventsStay DEF Explained
  <1> QED
    BY <1>1, <1>2, <1>3, <1>4, <1>5, <1>6, <1>7, <1>8, <1>9, <1>10, <1>11, <1>12, <1>13, <1>14
    DEF Next

LEMMA ExplainedInit == Init => Tracked /\ Explained /\ Verified
  <1> SUFFICES ASSUME Init
               PROVE  Tracked /\ Explained /\ Verified
    OBVIOUS
  <1>1. DOMAIN events = {1} /\ events[1].kind = "success_check"
    BY DEF Init
  <1>2. Merged = {} /\ Completed = {} /\ Tip = {}
    BY <1>1 DEF Merged, Ids, Completed, Init, Tip
  <1> QED BY <1>2 DEF Init, Tracked, Explained, Placed, Out, Verified, Clean

\* Where one operator merges at a time, the branch of a completed integration holds the
\* agents its record names, and besides them only agents of whom an approval was broken
\* off, whatever died and whatever git refused.
THEOREM BranchIsAccountedAlways ==
  ASSUME Alone
  PROVE  Spec => []BranchIsAccounted
  <1>1. Explained => BranchIsAccounted
    BY DEF Explained, BranchIsAccounted
  <1>2. Types /\ Growing /\ Types' /\ Tracked /\ Explained /\ [Next]_vars => Tracked' /\ Explained'
    BY TrackedStep, ExplainedStep
  <1> QED BY <1>1, <1>2, ExplainedInit, TypesAlways, PTL DEF Spec

-----------------------------------------------------------------------------
(* What it was verified at *)

\* A step after which nothing is broken off yet.
LEMMA VerifiedFrom ==
  ASSUME Alone, Verified, NEW p \in Operators, broken \subseteq broken', NoneCompleted,
         broken' = {} => Clean(p)'
  PROVE  Verified'
  <1> SUFFICES ASSUME broken' = {}
               PROVE  /\ \A i \in Completed' : Met(events'[i].head) = Criteria
                      /\ \A q \in Operators : Clean(q)'
    BY DEF Verified, Met
  <1>1. \A q \in Operators : q = p
    BY DEF Alone
  <1>2. broken = {}
    OBVIOUS
  <1>3. \A i \in Completed' : Met(events'[i].head) = Criteria
    BY <1>2 DEF Verified, NoneCompleted
  <1> QED BY <1>1, <1>3

LEMMA VerifiedStep ==
  ASSUME Alone, Types, Growing, Tracked, Explained, Verified, [Next]_vars
  PROVE  Verified'
  <1> USE DEF tree
  <1>0. ASSUME NEW p \in Operators, broken = {} PROVE Clean(p)
    BY <1>0 DEF Verified
  <1>1. ASSUME NEW p \in Operators, NEW a \in Agents, Approve(p, a)
        PROVE  Verified'
    <2>1. UNCHANGED <<staged, unmerged, events, broken>>
          /\ pc'[p] \in {"idle", "squashing"} /\ pc[p] = "idle"
      BY <1>1 DEF Approve, Moves, Types, faults
    <2>2. broken' = {} => Clean(p)'
      BY <1>0, <2>1 DEF Clean
    <2> QED BY <2>1, <2>2, VerifiedFrom, OnlyCompletes
  <1>2. ASSUME NEW p \in Operators, Squash(p)
        PROVE  Verified'
    <2>1. UNCHANGED <<events, broken>> /\ pc[p] = "squashing"
          /\ pc'[p] \in {"committing", "aborting"}
      BY <1>2 DEF Squash, Moves, Types, faults
    <2>2. /\ pc'[p] = "committing" => unmerged' = unmerged
          /\ pc'[p] = "aborting" => staged' = staged
      BY <1>2 DEF Squash, Moves, Types
    <2>3. broken' = {} => Clean(p)'
      BY <1>0, <2>1, <2>2 DEF Clean
    <2> QED BY <2>1, <2>3, VerifiedFrom, OnlyCompletes
  <1>3. ASSUME NEW p \in Operators, Abort(p) \/ Rollback(p)
        PROVE  Verified'
    <2>1. UNCHANGED <<events, broken>> /\ staged' = {} /\ unmerged' = FALSE /\ pc'[p] = "idle"
      BY <1>3, EndsTypes DEF Abort, Rollback, faults
    <2>2. broken' = {} => Clean(p)'
      BY <2>1 DEF Clean
    <2> QED BY <2>1, <2>2, VerifiedFrom, OnlyCompletes
  <1>4. ASSUME NEW p \in Operators, NothingToCommit(p)
        PROVE  Verified'
    <2>1. UNCHANGED <<events, staged, unmerged, broken>> /\ pc[p] = "committing" /\ pc'[p] = "idle"
          /\ (staged = {} \/ unmerged)
      BY <1>4, EndsTypes DEF NothingToCommit, faults
    <2>2. broken' = {} => Clean(p)'
      BY <1>0, <2>1 DEF Clean
    <2> QED BY <2>1, <2>2, VerifiedFrom, OnlyCompletes
  <1>5. ASSUME NEW p \in Operators, Commit(p)
        PROVE  Verified'
    <2>1. UNCHANGED <<events, unmerged, broken>> /\ staged' = {} /\ ~unmerged /\ pc'[p] = "checking"
      BY <1>5 DEF Commit, Moves, Types, faults
    <2>2. broken' = {} => Clean(p)'
      BY <2>1 DEF Clean
    <2> QED BY <2>1, <2>2, VerifiedFrom, OnlyCompletes
  <1>6. ASSUME NEW p \in Operators, Refused(p)
        PROVE  Verified'
    BY <1>6 DEF Refused, Verified
  <1>7. ASSUME NEW p \in Operators, Check(p)
        PROVE  Verified'
    <2>1. UNCHANGED <<staged, unmerged, broken>>
          /\ pc[p] = "checking" /\ pc'[p] \in {"recording", "undoing"}
      BY <1>7 DEF Check, Moves, Types, faults
    <2>2. broken' = {} => Clean(p)'
      BY <1>0, <2>1 DEF Clean
    <2> QED BY <1>7, <2>1, <2>2, VerifiedFrom, OnlyCompletes
  <1>8. ASSUME NEW p \in Operators, Accept(p)
        PROVE  Verified'
    <2>1. UNCHANGED <<staged, unmerged, broken>> /\ pc[p] = "recording" /\ pc'[p] = "idle"
      BY <1>8, EndsTypes DEF Accept, faults
    <2>2. broken' = {} => Clean(p)'
      BY <1>0, <2>1 DEF Clean
    <2> QED BY <1>8, <2>1, <2>2, VerifiedFrom, OnlyCompletes
  <1>9. ASSUME NEW a \in Agents, Skip(a)
        PROVE  Verified'
    <2>1. UNCHANGED <<branch, staged, unmerged, pc, broken>>
      BY <1>9 DEF Skip, faults
    <2>2. \A p \in Operators : Clean(p) => Clean(p)'
      BY <2>1 DEF Clean, Tip, Met
    <2>3. NoneCompleted
      BY <1>9, OnlyCompletes
    <2>4. ASSUME broken' = {}, NEW i \in Completed'
          PROVE  Met(events'[i].head) = Criteria
      BY <2>1, <2>3, <2>4 DEF Verified, NoneCompleted
    <2> QED BY <1>0, <2>1, <2>2, <2>4 DEF Verified, Met
  <1>10. ASSUME NEW p \in Operators, Finish(p)
         PROVE  Verified'
    <2>1. UNCHANGED <<staged, unmerged, events, broken>> /\ pc[p] = "idle" /\ pc'[p] = "finishing"
      BY <1>10 DEF Finish, Moves, Types, faults
    <2>2. broken' = {} => Clean(p)'
      BY <1>0, <2>1 DEF Clean
    <2> QED BY <2>1, <2>2, VerifiedFrom, OnlyCompletes
  <1>11. ASSUME NEW p \in Operators, Gate(p)
         PROVE  Verified'
    <2>1. /\ UNCHANGED <<branch, staged, unmerged, broken>> /\ pc[p] = "finishing"
          /\ pc'[p] \in {"idle", "completing"}
          /\ pc'[p] = "completing" => unmerged \/ Met(Workspace) = Criteria
      BY <1>11 DEF Gate, Sees, Ends, Moves, Types, faults
    <2>2. staged = {} => Workspace = Tip
      BY DEF Workspace
    <2>3. Tip' = Tip
      BY <2>1 DEF Tip
    <2>4. broken' = {} => Clean(p)'
      BY <1>0, <2>1, <2>2, <2>3 DEF Clean, Met
    <2> QED BY <1>11, <2>1, <2>4, VerifiedFrom, OnlyCompletes
  <1>12. ASSUME NEW p \in Operators, Complete(p)
         PROVE  Verified'
    <2>1. UNCHANGED <<staged, unmerged, broken>> /\ pc[p] = "completing" /\ pc'[p] = "idle"
      BY <1>12, EndsTypes DEF Complete, faults
    <2>2. broken' = {} => Clean(p)'
      BY <1>0, <2>1 DEF Clean
    <2>3. \A i \in Completed' : \/ i \in Completed /\ events'[i] = events[i]
                                \/ events'[i].merged = mine[p].merged /\ events'[i].head = mine[p].head
      BY <1>12, ActionsLog, CompletedLogged
    <2>4. mine[p].head = Tip
      BY <2>1 DEF Explained, Placed
    <2>5. broken = {} => Met(Tip) = Criteria
      BY <1>0, <2>1 DEF Clean
    <2>6. ASSUME broken' = {}, NEW i \in Completed'
          PROVE  Met(events'[i].head) = Criteria
      BY <2>1, <2>3, <2>4, <2>5, <2>6 DEF Verified
    <2>7. broken' = {} => \A q \in Operators : Clean(q)'
      BY <2>2 DEF Alone
    <2> QED BY <2>6, <2>7 DEF Verified, Met
  <1>13. ASSUME NEW p \in Operators, Crash(p)
         PROVE  Verified'
    <2>1. UNCHANGED <<staged, unmerged, events>> /\ pc'[p] = "idle" /\ broken \subseteq broken'
      BY <1>13, EndsTypes DEF Crash
    <2>2. pc[p] \in {"aborting", "committing"} => broken' # {}
      BY <1>13 DEF Crash
    <2>3. broken' = {} => Clean(p)'
      BY <1>0, <2>1, <2>2 DEF Clean
    <2> QED BY <2>1, <2>3, VerifiedFrom, OnlyCompletes
  <1>14. CASE UNCHANGED vars
    <2>1. UNCHANGED <<branch, staged, unmerged, events, pc, mine, broken>>
      BY <1>14 DEF vars, faults
    <2> QED BY <2>1, EventsStay DEF Verified, Clean, Tip, Met
  <1> QED
    BY <1>1, <1>2, <1>3, <1>4, <1>5, <1>6, <1>7, <1>8, <1>9, <1>10, <1>11, <1>12, <1>13, <1>14
    DEF Next

\* Where one operator merges at a time and no approval was broken off, no integration is
\* completed at a commit at which a criterion does not hold.
THEOREM CompleteIsVerifiedAlways ==
  ASSUME Alone
  PROVE  Spec => []CompleteIsVerified
  <1>1. Verified => CompleteIsVerified
    BY DEF Verified, CompleteIsVerified
  <1>2. Types /\ Growing /\ Types' /\ Tracked /\ Explained /\ Verified /\ [Next]_vars
          => Tracked' /\ Explained' /\ Verified'
    BY TrackedStep, ExplainedStep, VerifiedStep
  <1> QED BY <1>1, <1>2, ExplainedInit, TypesAlways, PTL DEF Spec
=============================================================================
