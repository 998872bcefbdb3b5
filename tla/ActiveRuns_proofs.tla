-------------------------- MODULE ActiveRuns_proofs --------------------------
(***************************************************************************)
(* Proofs about ActiveRuns, for any number of runs, deaths and reloads: the *)
(* types, the overlap evidence, and that a working command line stays       *)
(* listed.                                                                 *)
(***************************************************************************)
EXTENDS ActiveRuns, TLAPS

LEMMA TypeInit == Init => TypeOK
  BY RunsAssumption DEF Init, TypeOK, Stages, OfKind

\* The paths of a dispatch keep the types.
LEMMA TypePath ==
  ASSUME TypeOK, NEW r \in Runs, Path(r) \/ Reload(r) \/ ChildExits(r)
  PROVE  TypeOK'
  <1> USE DEF TypeOK, Stages, At, OfKind, Desktop, slots, rows, run, killers
  <1>1. CASE Begin(r)
    <2>1. Peers(r) \subseteq Runs
      BY DEF Peers
    <2>2. overlapped' \in [Runs -> SUBSET Runs]
      BY <1>1, <2>1 DEF Begin
    <2> QED BY <1>1, <2>2 DEF Begin
  <1>2. CASE Attach(r)
    BY <1>2 DEF Attach
  <1>3. CASE Spawn(r)
    BY <1>3 DEF Spawn
  <1>4. CASE SpawnFails(r)
    BY <1>4 DEF SpawnFails
  <1>5. CASE SetPid(r)
    BY <1>5 DEF SetPid
  <1>6. CASE CallProvider(r)
    BY <1>6 DEF CallProvider
  <1>7. CASE ReadKill(r)
    BY <1>7 DEF ReadKill
  <1>8. CASE ReadEnd(r)
    BY <1>8 DEF ReadEnd
  <1>9. CASE FinishSlot(r)
    BY <1>9 DEF FinishSlot
  <1>10. CASE FinishRow(r)
    BY <1>10 DEF FinishRow
  <1>11. CASE Reload(r)
    BY <1>11, RunsAssumption DEF Reload
  <1>12. CASE ChildExits(r)
    BY <1>12 DEF ChildExits
  <1> QED BY <1>1, <1>2, <1>3, <1>4, <1>5, <1>6, <1>7, <1>8, <1>9, <1>10, <1>11, <1>12 DEF Path

\* The command line's own steps and those who end runs keep the types.
LEMMA TypeOthers ==
  ASSUME TypeOK, NEW r \in Runs,
         CliInsert(r) \/ CliEnd(r) \/ CliGone(r)
           \/ KillSlot(r) \/ Look(r) \/ Kill(r) \/ Terminate(r) \/ Reap(r)
  PROVE  TypeOK'
  <1> USE DEF TypeOK, Stages, At, OfKind, Desktop, Struck, slots, rows, run, killers
  <1>1. CASE CliInsert(r)
    BY <1>1 DEF CliInsert
  <1>2. CASE CliEnd(r)
    BY <1>2 DEF CliEnd
  <1>3. CASE CliGone(r)
    BY <1>3 DEF CliGone
  <1>4. CASE KillSlot(r)
    BY <1>4 DEF KillSlot
  <1>5. CASE Look(r)
    BY <1>5 DEF Look
  <1>6. CASE Kill(r)
    BY <1>6 DEF Kill
  <1>7. CASE Terminate(r)
    BY <1>7 DEF Terminate
  <1>8. CASE Reap(r)
    BY <1>8 DEF Reap
  <1> QED BY <1>1, <1>2, <1>3, <1>4, <1>5, <1>6, <1>7, <1>8

LEMMA TypeDesktop ==
  ASSUME TypeOK, Crash \/ Boot
  PROVE  TypeOK'
  <1> USE DEF TypeOK, Stages, OfKind, slots, rows, run, killers
  <1>1. CASE Crash
    <2>1. faults' \in [crashes : 0..MaxCrashes, reloads : 0..MaxReloads]
      BY <1>1, RunsAssumption DEF Crash
    <2>2. looked' \subseteq Runs \X {"KILL", "TERM"}
      BY <1>1 DEF Crash
    <2>3. pc' \in [Runs -> Stages]
      BY <1>1 DEF Crash
    <2>4. overlapped' \in [Runs -> SUBSET Runs]
      BY <1>1 DEF Crash
    <2> QED BY <1>1, <2>1, <2>2, <2>3, <2>4 DEF Crash
  <1>2. CASE Boot
    BY <1>2 DEF Boot
  <1> QED BY <1>1, <1>2

LEMMA TypeStep ==
  ASSUME TypeOK, [Next]_vars
  PROVE  TypeOK'
  <1>1. CASE UNCHANGED vars
    BY <1>1 DEF TypeOK, OfKind, vars, slots, rows, run, killers
  <1> QED BY <1>1, TypePath, TypeOthers, TypeDesktop DEF Next

\* Every variable keeps its type, and what hangs on a slot or a row (the kill closure,
\* the status, the process id) never outlives it.
THEOREM TypeCorrect == Spec => []TypeOK
  BY TypeInit, TypeStep, PTL DEF Spec

-----------------------------------------------------------------------------

\* Evidence is added by begin_run alone, and to both sides.
LEMMA OverlapStep ==
  ASSUME TypeOK, OverlapIsMutual, [Next]_vars
  PROVE  OverlapIsMutual'
  <1> USE DEF OverlapIsMutual, Named
  <1>1. CASE \E r \in Runs : Begin(r)
    BY <1>1 DEF Begin, Peers, Named, TypeOK
  <1>2. CASE Crash
    BY <1>2 DEF Crash
  <1>3. CASE \E r \in Runs : FinishSlot(r)
    BY <1>3 DEF FinishSlot
  <1>4. CASE UNCHANGED <<workspace, registry, overlapped>>
    BY <1>4
  <1>5. ASSUME NEW r \in Runs,
               Attach(r) \/ Spawn(r) \/ SpawnFails(r) \/ SetPid(r) \/ CallProvider(r)
                 \/ ReadKill(r) \/ ReadEnd(r) \/ FinishRow(r) \/ Reload(r) \/ ChildExits(r)
                 \/ CliInsert(r) \/ CliEnd(r) \/ CliGone(r)
                 \/ KillSlot(r) \/ Look(r) \/ Kill(r) \/ Terminate(r) \/ Reap(r)
        PROVE  UNCHANGED <<workspace, registry, overlapped>>
    BY <1>5 DEF Attach, Spawn, SpawnFails, SetPid, CallProvider, ReadKill, ReadEnd, FinishRow,
                Reload, ChildExits, CliInsert, CliEnd, CliGone, KillSlot, Look, Kill, Terminate,
                Reap, slots, run
  <1>6. CASE Boot
    BY <1>6 DEF Boot, slots, run
  <1>7. CASE UNCHANGED vars
    BY <1>7 DEF vars, slots, run
  <1> QED BY <1>1, <1>2, <1>3, <1>4, <1>5, <1>6, <1>7 DEF Next, Path

\* However the beginnings and ends of dispatches interleave, two that are out in one
\* workspace at once have each other in their overlap evidence.
THEOREM OverlapIsMutualAlways == Spec => []OverlapIsMutual
  <1>1. Init => OverlapIsMutual
    BY DEF Init, OverlapIsMutual
  <1> QED BY <1>1, OverlapStep, TypeCorrect, PTL DEF Spec

-----------------------------------------------------------------------------

\* A dispatch that works is a command line's and its process lives: all who end the
\* process move the run on in the same step.
WorkerLives == \A r \in Runs : pc[r] = "working" => kind[r] = "cli" /\ r \in alive

LEMMA WorkerStep ==
  ASSUME TypeOK, WorkerLives, [Next]_vars
  PROVE  WorkerLives'
  <1> USE DEF TypeOK, WorkerLives, At, OfKind, Desktop, Struck, slots, rows, run, killers
  <1>1. ASSUME NEW r \in Runs, Path(r)
        PROVE  WorkerLives'
    BY <1>1 DEF Path, Begin, Attach, Spawn, SpawnFails, SetPid, CallProvider, ReadKill, ReadEnd,
                FinishSlot, FinishRow
  <1>2. ASSUME NEW r \in Runs, Reload(r) \/ ChildExits(r)
        PROVE  WorkerLives'
    BY <1>2 DEF Reload, ChildExits
  <1>3. ASSUME NEW r \in Runs, CliInsert(r) \/ CliEnd(r) \/ CliGone(r)
        PROVE  WorkerLives'
    BY <1>3 DEF CliInsert, CliEnd, CliGone
  <1>4. ASSUME NEW r \in Runs, KillSlot(r) \/ Look(r) \/ Kill(r) \/ Terminate(r) \/ Reap(r)
        PROVE  WorkerLives'
    BY <1>4 DEF KillSlot, Look, Kill, Terminate, Reap
  <1>5. CASE Crash \/ Boot
    BY <1>5 DEF Crash, Boot
  <1>6. CASE UNCHANGED vars
    BY <1>6 DEF vars
  <1> QED BY <1>1, <1>2, <1>3, <1>4, <1>5, <1>6 DEF Next

\* A row goes with its own run's end, with a kill that ends the run, by the reaper,
\* who finds no process, and by a start of the desktop.
LEMMA VisibleStep ==
  ASSUME TypeOK, WorkerLives, CliIsVisible, [Next]_vars
  PROVE  CliIsVisible'
  <1> USE DEF TypeOK, CliIsVisible, At, OfKind, Struck, slots, rows, run, killers
  <1>1. ASSUME NEW r \in Runs, Path(r)
        PROVE  CliIsVisible'
    BY <1>1 DEF Path, Begin, Attach, Spawn, SpawnFails, SetPid, CallProvider, ReadKill, ReadEnd,
                FinishSlot, FinishRow
  <1>2. ASSUME NEW r \in Runs, Reload(r) \/ ChildExits(r)
        PROVE  CliIsVisible'
    BY <1>2 DEF Reload, ChildExits
  <1>3. ASSUME NEW r \in Runs, CliInsert(r) \/ CliEnd(r) \/ CliGone(r)
        PROVE  CliIsVisible'
    BY <1>3 DEF CliInsert, CliEnd, CliGone
  <1>4. ASSUME NEW r \in Runs, KillSlot(r) \/ Look(r) \/ Kill(r) \/ Terminate(r)
        PROVE  CliIsVisible'
    BY <1>4 DEF KillSlot, Look, Kill, Terminate
  <1>5. ASSUME NEW r \in Runs, Reap(r)
        PROVE  CliIsVisible'
    BY <1>5 DEF Reap, WorkerLives
  <1>6. CASE Crash \/ Boot
    BY <1>6 DEF Crash, Boot
  <1>7. CASE UNCHANGED vars
    BY <1>7 DEF vars
  <1> QED BY <1>1, <1>2, <1>3, <1>4, <1>5, <1>6, <1>7 DEF Next

\* A command line at work stays in live_runs, whoever read its row before and signals
\* late, and whenever the reaper looks; only a start of the desktop takes it away.
THEOREM CliIsVisibleAlways == Spec => []CliIsVisible
  <1>1. Init => WorkerLives /\ CliIsVisible
    BY DEF Init, WorkerLives, CliIsVisible
  <1> QED BY <1>1, WorkerStep, VisibleStep, TypeCorrect, PTL DEF Spec
=============================================================================
