-------------------------- MODULE Missions_proofs ---------------------------
(***************************************************************************)
(* What the coordinator guarantees for any number of coordinator           *)
(* processes, workers, owner commands and instants: every variable keeps   *)
(* its type, and no outcome is skipped by the success evaluation before    *)
(* an evaluation has seen the edits behind it.                             *)
(***************************************************************************)
EXTENDS Missions, FiniteSetTheorems, TLAPS

-----------------------------------------------------------------------------
(* Constructors *)

\* An event built from well-typed parts is one.
LEMMA EventTyped ==
    ASSUME NEW kind \in Kinds, NEW ts \in Nat,
           NEW attempt \in Attempts \cup {NoAttempt}, NEW note \in Notes
    PROVE  Event(kind, ts, attempt, note) \in EventType
BY DEF Event, EventType

\* So is a success_check.
LEMMA CheckEventTyped ==
    ASSUME NEW ts \in Nat, NEW allMet \in BOOLEAN, NEW seen \in SUBSET Attempts
    PROVE  CheckEvent(ts, allMet, seen) \in EventType
BY DEF CheckEvent, EventType, Kinds, Notes

\* The record of a process at rest, on either side.
LEMMA RestTyped ==
    /\ IdleTick \in TickType
    /\ UnbornWorker \in WorkerType
    /\ [UnbornWorker EXCEPT !.pc = "exited"] \in WorkerType
BY DEF IdleTick, UnbornWorker, TickType, WorkerType, TickPcs, WorkerPcs, Rows,
       States, Categories, Notes, Statuses

\* Every instant is a natural number, and none is the "no instant" of a record.
LEMMA InstantsAreNat == Instants \subseteq Nat \ {0}
BY DEF Instants

\* A coordinator process that moves to a well-typed record keeps the rest typed.
LEMMA TickMove ==
    ASSUME TypeOK, NEW t \in Ticks, NEW r \in TickType, Tick(t, r)
    PROVE  tick' \in [Ticks -> TickType]
BY DEF TypeOK, Tick

\* Changing the place alone keeps a record well typed.
LEMMA GotoMove ==
    ASSUME TypeOK, NEW t \in Ticks, NEW pc \in TickPcs, Goto(t, pc)
    PROVE  tick' \in [Ticks -> TickType]
BY DEF TypeOK, Goto, Tick, TickType

\* A coordinator process that stops is idle.
LEMMA StopMove ==
    ASSUME TypeOK, NEW t \in Ticks, Stop(t)
    PROVE  tick' \in [Ticks -> TickType]
BY RestTyped, TickMove DEF Stop

\* A selection keeps what a coordinator process carries and takes the open starts.
LEMMA SelectGoes ==
    ASSUME TypeOK, NEW t \in Ticks, NEW pc \in TickPcs, Select(t, pc)
    PROVE  /\ tick' \in [Ticks -> TickType]
           /\ tick'[t].pc = pc /\ tick'[t].open = OpenStarts
           /\ tick'[t].now = tick[t].now /\ tick'[t].row = tick[t].row
           /\ \A u \in Ticks \ {t} : tick'[u] = tick[u]
<1>1. OpenStarts \in SUBSET EventType
  BY DEF OpenStarts, OfKind, TypeOK
<1>2. [tick[t] EXCEPT !.pc = pc, !.open = OpenStarts] \in TickType
  BY <1>1 DEF TypeOK, TickType
<1>3. QED BY <1>2 DEF Select, Tick, TypeOK, TickType

\* Passing over a start drops it from what is left to probe.
LEMMA SkipGoes ==
    ASSUME TypeOK, NEW t \in Ticks, NEW e, Skip(t, e)
    PROVE  /\ tick' \in [Ticks -> TickType]
           /\ tick'[t].pc = tick[t].pc /\ tick'[t].open = tick[t].open \ {e}
           /\ tick'[t].now = tick[t].now /\ tick'[t].row = tick[t].row
           /\ \A u \in Ticks \ {t} : tick'[u] = tick[u]
<1>1. tick[t].open \ {e} \in SUBSET EventType
  BY DEF TypeOK, TickType
<1>2. [tick[t] EXCEPT !.open = tick[t].open \ {e}] \in TickType
  BY <1>1 DEF TypeOK, TickType
<1>3. QED BY <1>2 DEF Skip, Tick, TypeOK, TickType

\* The start a scan takes for stale is handed to the abandonment.
LEMMA PickGoes ==
    ASSUME TypeOK, NEW t \in Ticks, NEW e \in tick[t].open,
           Tick(t, [tick[t] EXCEPT !.pc = "abandon", !.attempt = e.attempt, !.open = {}])
    PROVE  /\ tick' \in [Ticks -> TickType]
           /\ tick'[t].pc = "abandon" /\ tick'[t].attempt = e.attempt
           /\ tick'[t].now = tick[t].now /\ tick'[t].row = tick[t].row
           /\ \A u \in Ticks \ {t} : tick'[u] = tick[u]
<1>1. e.attempt \in Attempts \cup {NoAttempt}
  BY DEF TypeOK, TickType, EventType
<1>2. tick[t] \in TickType /\ "abandon" \in TickPcs
  BY DEF TypeOK, TickPcs
<1>3. [tick[t] EXCEPT !.pc = "abandon", !.attempt = e.attempt, !.open = {}] \in TickType
  BY <1>1, <1>2 DEF TickType
<1>4. QED BY <1>3 DEF Tick, TypeOK, TickType

\* Going to another step, or stopping.
LEMMA GotoGoes ==
    ASSUME TypeOK, NEW t \in Ticks, NEW pc, Goto(t, pc)
    PROVE  /\ tick'[t] = [tick[t] EXCEPT !.pc = pc] /\ tick'[t].pc = pc
           /\ tick'[t].now = tick[t].now /\ tick'[t].row = tick[t].row
           /\ \A u \in Ticks \ {t} : tick'[u] = tick[u]
BY DEF Tick, TypeOK, Goto, TickType

LEMMA StopGoes ==
    ASSUME TypeOK, NEW t \in Ticks, Stop(t)
    PROVE  tick'[t] = IdleTick /\ tick'[t].pc = "idle"
           /\ \A u \in Ticks \ {t} : tick'[u] = tick[u]
BY DEF Tick, TypeOK, Stop, IdleTick

\* The steps of the two scans read the log and the processes, and change neither.
Reader(t) == TickScan(t) \/ TickProbe(t) \/ TickGate(t) \/ TickFlight(t)

LEMMA ReadersTyped ==
    ASSUME TypeOK, NEW t \in Ticks, Reader(t)
    PROVE  tick' \in [Ticks -> TickType]
<1>1. CASE TickScan(t)
  BY <1>1, SelectGoes DEF TickScan, TickPcs
<1>2. CASE TickProbe(t)
  BY <1>2, GotoMove, SkipGoes, PickGoes DEF TickProbe, TickPcs, Oldest
<1>3. CASE TickGate(t)
  BY <1>3, SelectGoes, StopMove DEF TickGate, TickPcs
<1>4. CASE TickFlight(t)
  BY <1>4, GotoMove, SkipGoes, StopMove DEF TickFlight, TickPcs
<1>5. QED BY <1>1, <1>2, <1>3, <1>4 DEF Reader

LEMMA ReadersGo ==
    ASSUME TypeOK, NEW t \in Ticks, Reader(t)
    PROVE  /\ tick[t].pc \in {"scan", "probe", "gate", "flight"}
           /\ tick'[t].pc \in {"idle", "probe", "due", "abandon", "flight", "budget"}
           /\ tick'[t].pc # "idle" =>
                tick'[t].now = tick[t].now /\ tick'[t].row = tick[t].row
           /\ \A u \in Ticks \ {t} : tick'[u] = tick[u]
<1>1. CASE TickScan(t)
  BY <1>1, SelectGoes DEF TickScan, TickPcs
<1>2. CASE TickProbe(t)
  BY <1>2, GotoGoes, SkipGoes, PickGoes DEF TickProbe, Oldest
<1>3. CASE TickGate(t)
  BY <1>3, SelectGoes, StopGoes DEF TickGate, TickPcs
<1>4. CASE TickFlight(t)
  BY <1>4, GotoGoes, SkipGoes, StopGoes DEF TickFlight
<1>5. QED BY <1>1, <1>2, <1>3, <1>4 DEF Reader

\* The same for the workers.
LEMMA WorkMove ==
    ASSUME TypeOK, NEW a \in Attempts, NEW r \in WorkerType, Work(a, r)
    PROVE  worker' \in [Attempts -> WorkerType]
BY DEF TypeOK, Work

\* A worker that enters another step keeps the rest of its record.
LEMMA EnterMove ==
    ASSUME TypeOK, NEW a \in Attempts, NEW pc \in WorkerPcs, Enter(a, pc)
    PROVE  worker' \in [Attempts -> WorkerType]
BY DEF TypeOK, Enter, Work, WorkerType

\* A worker that exits leaves nothing behind in its record.
LEMMA ExitMove ==
    ASSUME TypeOK, NEW a \in Attempts, Exit(a)
    PROVE  worker' \in [Attempts -> WorkerType]
BY RestTyped, WorkMove DEF Exit

-----------------------------------------------------------------------------
(* Types *)

\* The new mission row, its empty log and the idle processes are well typed.
LEMMA InitTyped == Init => TypeOK
BY RestTyped, MissionsAssumption DEF Init, TypeOK, States, Categories

\* Every step of tick_one_mission and of the success evaluation keeps the types.
LEMMA TickTyped ==
    ASSUME TypeOK, NEW t \in Ticks, TickStep(t)
    PROVE  TypeOK'
<1>0. /\ tick[t] \in TickType
      /\ tick[t].now \in Nat /\ tick[t].note \in Notes
      /\ tick[t].attempt \in Attempts \cup {NoAttempt}
      /\ tick[t].seen \in SUBSET Attempts
  BY DEF TypeOK, TickType
<1>1. CASE TickPreflight(t)
  <2>1. CASE Stop(t)
    BY <1>1, <2>1, StopMove DEF TickPreflight, TypeOK, mission, repository
  <2>2. ASSUME NEW n \in Instants, Tick(t, [tick[t] EXCEPT !.now = n, !.pc = "scan"])
        PROVE  TypeOK'
    <3>1. [tick[t] EXCEPT !.now = n, !.pc = "scan"] \in TickType
      BY <1>0, InstantsAreNat DEF TickType, TickPcs
    <3>2. QED
      BY <1>1, <2>2, <3>1, TickMove DEF TickPreflight, TypeOK, mission, repository
  <2>3. QED BY <1>1, <2>1, <2>2 DEF TickPreflight
<1>2. CASE CheckClock(t)
  <2>1. PICK n \in Instants : Tick(t, [tick[t] EXCEPT !.now = n, !.pc = "evaluate"])
    BY <1>2 DEF CheckClock
  <2>2. [tick[t] EXCEPT !.now = n, !.pc = "evaluate"] \in TickType
    BY <1>0, InstantsAreNat DEF TickType, TickPcs
  <2>3. QED
    BY <1>2, <2>1, <2>2, TickMove DEF CheckClock, TypeOK, mission, repository
<1>3. CASE TickEscalate(t)
  <2>1. Event("escalated", tick[t].now, NoAttempt, tick[t].note) \in EventType
    BY <1>0, EventTyped DEF Kinds
  <2>2. QED
    BY <1>3, <2>1, StopMove DEF TickEscalate, TypeOK, mission, repository
<1>4. CASE TickScan(t) \/ TickProbe(t)
  <2>1. tick' \in [Ticks -> TickType]
    BY <1>4, ReadersTyped DEF Reader
  <2>2. QED
    BY <1>4, <2>1 DEF TickScan, TickProbe, TypeOK, mission, repository
<1>5. CASE TickAbandon(t)
  <2>1. Event("dispatch_abandoned", tick[t].now, tick[t].attempt, "abandoned")
            \in EventType
    BY <1>0, EventTyped DEF Kinds, Notes
  <2>2. QED
    BY <1>5, <2>1, StopMove DEF TickAbandon, TypeOK, mission, repository
<1>6. CASE TickDue(t)
  BY <1>6, GotoMove DEF TickDue, TypeOK, TickPcs, mission, repository
<1>7. CASE TickEvaluate(t)
  <2>1. [tick[t] EXCEPT !.pc = "record", !.seen = landed,
                        !.note = IF met THEN "met" ELSE "unmet"] \in TickType
    BY <1>0 DEF TypeOK, TickType, TickPcs, Notes
  <2>2. QED
    BY <1>7, <2>1, TickMove DEF TickEvaluate, TypeOK, mission, repository
<1>8. CASE TickRecord(t)
  <2>1. CheckEvent(tick[t].now, tick[t].note = "met", tick[t].seen) \in EventType
    BY <1>0, CheckEventTyped
  <2>2. [tick[t] EXCEPT !.pc = "finish", !.now = 0] \in TickType
    BY <1>0 DEF TickType, TickPcs
  <2>3. tick' \in [Ticks -> TickType]
    BY <1>8, <2>2, TickMove, StopMove DEF TickRecord
  <2>4. QED
    BY <1>8, <2>1, <2>3 DEF TickRecord, TypeOK, mission, repository
<1>9. CASE TickFinish(t)
  <2>1. PICK n \in Instants :
          log' = log \cup {Event("state_changed", n, NoAttempt, "complete")}
    BY <1>9 DEF TickFinish
  <2>2. Event("state_changed", n, NoAttempt, "complete") \in EventType
    BY InstantsAreNat, EventTyped DEF Kinds, Notes, States
  <2>3. QED
    BY <1>9, <2>1, <2>2, StopMove DEF TickFinish, TypeOK, States, repository
<1>10. CASE TickFailures(t)
  BY <1>10, GotoMove, StopMove DEF TickFailures, TypeOK, TickPcs, mission, repository
<1>11. CASE TickBlock(t)
  <2>1. Event("state_changed", tick[t].now, NoAttempt, "blocked") \in EventType
    BY <1>0, EventTyped DEF Kinds, Notes, States
  <2>2. [tick[t] EXCEPT !.pc = "escalate", !.note = "consecutive_failures"] \in TickType
    BY <1>0 DEF TickType, TickPcs, Notes, Reasons
  <2>3. QED
    BY <1>11, <2>1, <2>2, TickMove DEF TickBlock, TypeOK, States, repository
<1>12. CASE TickGate(t) \/ TickFlight(t)
  <2>1. tick' \in [Ticks -> TickType]
    BY <1>12, ReadersTyped DEF Reader
  <2>2. QED
    BY <1>12, <2>1 DEF TickGate, TickFlight, TypeOK, mission, repository
<1>a. CASE TickBudget(t)
  <2>1. [tick[t] EXCEPT !.pc = "escalate", !.note = "no_worker_config"] \in TickType
    BY <1>0 DEF TickType, TickPcs, Notes, Reasons
  <2>2. tick' \in [Ticks -> TickType]
    BY <1>a, <2>1, TickMove, GotoMove, StopMove DEF TickBudget, TickPcs
  <2>3. QED
    BY <1>a, <2>2 DEF TickBudget, TypeOK, mission, repository
<1>13. CASE TickSpawn(t)
  <2>1. PICK a \in Attempts :
          /\ Enter(a, "load")
          /\ Tick(t, [tick[t] EXCEPT !.pc = "note", !.attempt = a])
    BY <1>13 DEF TickSpawn
  <2>2. [tick[t] EXCEPT !.pc = "note", !.attempt = a] \in TickType
    BY <1>0 DEF TickType, TickPcs
  <2>3. QED
    BY <1>13, <2>1, <2>2, TickMove, EnterMove
       DEF TickSpawn, TypeOK, WorkerPcs, mission, repository
<1>14. CASE TickNote(t)
  <2>1. Event("dispatch_started", tick[t].now, tick[t].attempt, "tick") \in EventType
    BY <1>0, EventTyped DEF Kinds, Notes
  <2>2. tick' \in [Ticks -> TickType]
    BY <1>14, GotoMove, StopMove DEF TickNote, TickPcs
  <2>3. QED
    BY <1>14, <2>1, <2>2 DEF TickNote, TypeOK, mission, repository
<1>15. CASE TickPromote(t)
  <2>1. Event("state_changed", tick[t].now, NoAttempt, "in_progress") \in EventType
    BY <1>0, EventTyped DEF Kinds, Notes, States
  <2>2. QED
    BY <1>15, <2>1, StopMove DEF TickPromote, TypeOK, States, repository
<1>16. QED
  BY <1>1, <1>2, <1>3, <1>4, <1>5, <1>6, <1>7, <1>8, <1>9, <1>10, <1>11, <1>12,
     <1>a, <1>13, <1>14, <1>15 DEF TickStep

\* The rows are loaded, by a tick or by the owner's check, or the process is killed.
LEMMA TickEdgesTyped ==
    ASSUME TypeOK, NEW t \in Ticks, TickLoad(t) \/ CheckLoad(t) \/ TickCrash(t)
    PROVE  TypeOK'
<1>1. Row \in Rows
  BY DEF TypeOK, Row, Rows
<1>2. /\ [IdleTick EXCEPT !.pc = "loaded", !.row = Row] \in TickType
      /\ [IdleTick EXCEPT !.pc = "loaded", !.row = Row, !.forced = TRUE] \in TickType
  BY <1>1, RestTyped DEF IdleTick, TickType, TickPcs
<1>3. CASE TickLoad(t)
  BY <1>2, <1>3, TickMove DEF TickLoad, TypeOK, mission, repository
<1>4. CASE CheckLoad(t)
  BY <1>2, <1>4, TickMove DEF CheckLoad, TypeOK, mission, repository
<1>5. CASE TickCrash(t)
  BY <1>5, StopMove DEF TickCrash, TypeOK, mission, repository
<1>6. QED BY <1>3, <1>4, <1>5

\* Every step of a worker, from its birth by hand to its death, keeps the types.
LEMMA WorkerTyped ==
    ASSUME TypeOK, NEW a \in Attempts,
           ManualDispatch(a) \/ WorkerStep(a) \/ WorkerDie(a) \/ WorkerOverrun(a)
    PROVE  TypeOK'
<1>0. /\ worker[a] \in WorkerType
      /\ worker[a].stamp \in Nat /\ worker[a].status \in Statuses
      /\ a \in Attempts \cup {NoAttempt}
  BY DEF TypeOK, WorkerType
<1>1. CASE ManualDispatch(a)
  <2>1. PICK kind \in ManualKinds, argv \in ArgvForms :
          Work(a, [worker[a] EXCEPT !.pc = "load", !.kind = kind, !.argv = argv])
    BY <1>1 DEF ManualDispatch
  <2>2. kind \in {"child", "manual", "loop"} /\ argv \in BOOLEAN
    BY <2>1, MissionsAssumption
  <2>3. [worker[a] EXCEPT !.pc = "load", !.kind = kind, !.argv = argv] \in WorkerType
    BY <1>0, <2>2 DEF WorkerType, WorkerPcs
  <2>4. worker' \in [Attempts -> WorkerType]
    BY <2>1, <2>3, WorkMove
  <2>5. /\ external > 0 /\ external' = external - 1
        /\ UNCHANGED <<mission, repository, log, tick>>
    BY <1>1 DEF ManualDispatch
  <2>6. QED
    BY <2>4, <2>5 DEF TypeOK, mission, repository
<1>2. CASE WorkerGate(a)
  <2>1. worker' \in [Attempts -> WorkerType]
    BY <1>2, EnterMove, ExitMove DEF WorkerGate, WorkerPcs
  <2>2. QED
    BY <1>2, <2>1 DEF WorkerGate, TypeOK, mission, repository
<1>3. CASE WorkerPromote(a)
  <2>1. PICK n \in Instants :
          log' = log \cup {Event("state_changed", n, NoAttempt, "in_progress")}
    BY <1>3 DEF WorkerPromote
  <2>2. Event("state_changed", n, NoAttempt, "in_progress") \in EventType
    BY InstantsAreNat, EventTyped DEF Kinds, Notes, States
  <2>3. QED
    BY <1>3, <2>1, <2>2, EnterMove
       DEF WorkerPromote, TypeOK, WorkerPcs, States, repository
<1>4. CASE WorkerBegin(a)
  <2>1. worker' \in [Attempts -> WorkerType]
    BY <1>4, EnterMove DEF WorkerBegin, WorkerPcs
  <2>2. log' \subseteq EventType
    <3>1. CASE log' = log
      BY <3>1 DEF TypeOK
    <3>2. ASSUME NEW n \in Instants, NEW kind \in {"loop_run_started", "dispatch_started"},
                 log' = log \cup {Event(kind, n, a, "manual")}
          PROVE  log' \subseteq EventType
      <4>1. Event(kind, n, a, "manual") \in EventType
        BY <1>0, InstantsAreNat, EventTyped DEF Kinds, Notes
      <4>2. QED BY <3>2, <4>1 DEF TypeOK
    <3>3. QED BY <1>4, <3>1, <3>2 DEF WorkerBegin
  <2>3. QED
    BY <1>4, <2>1, <2>2 DEF WorkerBegin, TypeOK, mission, repository
<1>5. CASE WorkerReturn(a)
  <2>1. PICK n \in Instants, status \in Statuses :
          Work(a, [worker[a] EXCEPT !.pc = "closing", !.stamp = n, !.status = status])
    BY <1>5 DEF WorkerReturn
  <2>2. [worker[a] EXCEPT !.pc = "closing", !.stamp = n, !.status = status]
            \in WorkerType
    BY <1>0, InstantsAreNat DEF WorkerType, WorkerPcs
  <2>3. QED
    BY <1>5, <2>1, <2>2, WorkMove DEF WorkerReturn, TypeOK, mission
<1>6. CASE WorkerClose(a)
  <2>1. \A kind \in {"loop_run_completed", "dispatched"} :
          Event(kind, worker[a].stamp, a, worker[a].status) \in EventType
    BY <1>0, EventTyped DEF Kinds, Notes
  <2>2. QED
    BY <1>6, <2>1, ExitMove DEF WorkerClose, TypeOK, mission, repository
<1>7. CASE WorkerDie(a)
  BY <1>7, ExitMove DEF WorkerDie, TypeOK, mission, repository
<1>8. CASE WorkerOverrun(a)
  <2>1. [worker[a] EXCEPT !.old = TRUE] \in WorkerType
    BY <1>0 DEF WorkerType
  <2>2. QED
    BY <1>8, <2>1, WorkMove DEF WorkerOverrun, TypeOK, mission, repository
<1>9. QED
  BY <1>1, <1>2, <1>3, <1>4, <1>5, <1>6, <1>7, <1>8 DEF WorkerStep

\* So does every command of the owner.
LEMMA OwnerTyped ==
    ASSUME TypeOK, External
    PROVE  TypeOK'
<1>1. CASE SetState
  <2>1. PICK s \in OwnerStates, n \in Instants :
          state' = s /\ log' = log \cup {Event("state_changed", n, NoAttempt, s)}
    BY <1>1 DEF SetState
  <2>2. s \in States
    BY MissionsAssumption
  <2>3. Event("state_changed", n, NoAttempt, s) \in EventType
    BY <2>2, InstantsAreNat, EventTyped DEF Kinds, Notes
  <2>4. QED
    BY <1>1, <2>1, <2>2, <2>3 DEF SetState, TypeOK, repository
<1>2. CASE SetCategory
  BY <1>2, MissionsAssumption DEF SetCategory, TypeOK, repository
<1>3. CASE SetWorker
  BY <1>3 DEF SetWorker, TypeOK, repository
<1>4. QED BY <1>1, <1>2, <1>3 DEF External

\* Every variable keeps its type in every behaviour, however many processes
\* interleave and wherever they are killed.
THEOREM TypeCorrect == Spec => []TypeOK
<1>1. Init => TypeOK
  BY InitTyped
<1>2. TypeOK /\ [Next]_vars => TypeOK'
  <2>1. ASSUME TypeOK, UNCHANGED vars PROVE TypeOK'
    BY <2>1 DEF vars, TypeOK
  <2>2. QED
    BY <2>1, TickTyped, TickEdgesTyped, WorkerTyped, OwnerTyped DEF Next
<1>3. QED BY <1>1, <1>2, PTL DEF Spec

-----------------------------------------------------------------------------
(* No outcome is skipped unseen *)

\* A step that runs no check command, returns from no run and records neither
\* an outcome nor an evaluation: it may only take processes out of the two steps
\* the invariant is about.
Quiet ==
    /\ landed' = landed
    /\ Closing' \subseteq Closing
    /\ OfKind({"success_check"})' \subseteq OfKind({"success_check"})
    /\ \A t \in Ticks : tick'[t].pc = "record" => tick'[t] = tick[t]
    /\ \A a \in Attempts : worker'[a].pc = "closing" => worker'[a] = worker[a]

\* Quiet steps keep the invariant.
LEMMA QuietKeeps ==
    ASSUME EvaluationsSeeThePast, Quiet
    PROVE  EvaluationsSeeThePast'
BY DEF EvaluationsSeeThePast, HasSeen, Quiet

\* An event that is neither an outcome of a run nor an evaluation leaves both
\* sets as they are.
LEMMA OtherEvent ==
    ASSUME NEW kind \in Kinds \ {"dispatched", "loop_run_completed", "success_check"},
           NEW ts, NEW attempt, NEW note,
           log' = log \cup {Event(kind, ts, attempt, note)}
    PROVE  /\ Closing' = Closing
           /\ OfKind({"success_check"})' = OfKind({"success_check"})
BY DEF Closing, OfKind, Event

\* Nor does a log nobody writes to change them.
LEMMA SameLog ==
    ASSUME log' = log
    PROVE  /\ Closing' = Closing
           /\ OfKind({"success_check"})' = OfKind({"success_check"})
BY DEF Closing, OfKind

\* A coordinator process that goes anywhere but to the writing of its evaluation.
LEMMA TickQuiet ==
    ASSUME TypeOK, NEW t \in Ticks, NEW r, r.pc # "record", Tick(t, r)
    PROVE  \A u \in Ticks : tick'[u].pc = "record" => tick'[u] = tick[u]
BY DEF TypeOK, Tick

\* Goto and Stop are such moves.
LEMMA GotoQuiet ==
    ASSUME TypeOK, NEW t \in Ticks, NEW pc, pc # "record", Goto(t, pc) \/ Stop(t)
    PROVE  \A u \in Ticks : tick'[u].pc = "record" => tick'[u] = tick[u]
<1>1. CASE Goto(t, pc)
  <2>1. [tick[t] EXCEPT !.pc = pc].pc = pc
    BY DEF TypeOK, TickType
  <2>2. QED BY <1>1, <2>1, TickQuiet DEF Goto
<1>2. CASE Stop(t)
  BY <1>2, TickQuiet DEF Stop, IdleTick
<1>3. QED BY <1>1, <1>2

\* A worker that goes anywhere but to the writing of its outcome.
LEMMA WorkQuiet ==
    ASSUME TypeOK, NEW a \in Attempts, NEW r, r.pc # "closing", Work(a, r)
    PROVE  \A b \in Attempts : worker'[b].pc = "closing" => worker'[b] = worker[b]
BY DEF TypeOK, Work

\* Enter and Exit are such moves.
LEMMA EnterQuiet ==
    ASSUME TypeOK, NEW a \in Attempts, NEW pc, pc # "closing", Enter(a, pc) \/ Exit(a)
    PROVE  \A b \in Attempts : worker'[b].pc = "closing" => worker'[b] = worker[b]
BY DEF TypeOK, Enter, Exit, Work, WorkerType, UnbornWorker

\* A fresh instant is later than any held by the log or by a process.
LEMMA NowIsLater ==
    ASSUME TypeOK, NEW n, IsNow(n)
    PROVE  /\ \A e \in log : e.ts < n
           /\ \A t \in Ticks : tick[t].now < n
           /\ \A a \in Attempts : worker[a].stamp < n
BY DEF IsNow, InUse

\* Every step of the coordinator but the evaluation and its recording is quiet.
LEMMA TickStepQuiet ==
    ASSUME TypeOK, NEW t \in Ticks,
           TickStep(t) \/ TickLoad(t) \/ CheckLoad(t) \/ TickCrash(t),
           ~TickEvaluate(t), ~TickRecord(t)
    PROVE  Quiet
<1>0. tick[t] \in TickType
  BY DEF TypeOK
<1>1. landed' = landed
  BY DEF TickStep, TickLoad, CheckLoad, TickCrash, TickPreflight, CheckClock,
         TickEscalate, TickScan, TickProbe, TickAbandon, TickDue, TickFinish,
         TickFailures, TickBlock, TickGate, TickFlight, TickBudget, TickSpawn, TickNote,
         TickPromote, repository
<1>2. Closing' = Closing /\ OfKind({"success_check"})' = OfKind({"success_check"})
  <2>1. CASE log' = log
    BY <2>1, SameLog
  <2>2. CASE TickEscalate(t) \/ TickAbandon(t) \/ TickFinish(t) \/ TickBlock(t)
               \/ TickNote(t) \/ TickPromote(t)
    BY <2>2, OtherEvent DEF TickEscalate, TickAbandon, TickFinish, TickBlock,
         TickNote, TickPromote, Kinds
  <2>3. QED
    BY <2>1, <2>2 DEF TickStep, TickLoad, CheckLoad, TickCrash, TickPreflight,
         CheckClock, TickScan, TickProbe, TickDue, TickFailures, TickGate, TickFlight,
         TickBudget, TickSpawn
<1>3. \A u \in Ticks : tick'[u].pc = "record" => tick'[u] = tick[u]
  <2>1. ASSUME NEW r, r.pc # "record", Tick(t, r)
        PROVE  \A u \in Ticks : tick'[u].pc = "record" => tick'[u] = tick[u]
    BY <2>1, TickQuiet
  <2>2. CASE Stop(t) \/ Goto(t, "due") \/ Goto(t, "evaluate") \/ Goto(t, "failures")
               \/ Goto(t, "gate") \/ Goto(t, "block") \/ Goto(t, "spawn")
               \/ Goto(t, "promote")
    BY <2>2, GotoQuiet
  <2>3. CASE TickLoad(t) \/ CheckLoad(t)
    BY <2>3, <2>1 DEF TickLoad, CheckLoad, IdleTick
  <2>4. CASE TickPreflight(t) \/ CheckClock(t)
    BY <2>4, <2>1, <2>2, <1>0 DEF TickPreflight, CheckClock, TickType
  <2>5. CASE Reader(t)
    <3>1. tick'[t].pc # "record" /\ \A u \in Ticks \ {t} : tick'[u] = tick[u]
      BY <2>5, ReadersGo
    <3>2. QED BY <3>1
  <2>6. CASE TickBudget(t) \/ TickBlock(t)
    BY <2>6, <2>1, <2>2, <1>0 DEF TickBudget, TickBlock, TickType
  <2>7. CASE TickSpawn(t)
    BY <2>7, <2>1, <1>0 DEF TickSpawn, TickType
  <2>8. QED
    BY <2>2, <2>3, <2>4, <2>5, <2>6, <2>7
       DEF Reader, TickStep, TickCrash, TickEscalate, TickAbandon, TickDue, TickFinish,
           TickFailures, TickNote, TickPromote
<1>4. \A a \in Attempts : worker'[a].pc = "closing" => worker'[a] = worker[a]
  <2>1. CASE worker' = worker
    BY <2>1
  <2>2. CASE TickSpawn(t)
    BY <2>2, EnterQuiet DEF TickSpawn
  <2>3. QED
    BY <2>1, <2>2 DEF TickStep, TickLoad, CheckLoad, TickCrash, TickPreflight,
         CheckClock, TickEscalate, TickScan, TickProbe, TickAbandon, TickDue, TickFinish,
         TickFailures, TickBlock, TickGate, TickFlight, TickBudget, TickNote, TickPromote
<1>5. QED BY <1>1, <1>2, <1>3, <1>4 DEF Quiet

\* So is every step of a worker but the return of its run and its recording.
LEMMA WorkerStepQuiet ==
    ASSUME TypeOK, NEW a \in Attempts,
           \/ ManualDispatch(a) \/ WorkerGate(a) \/ WorkerPromote(a)
           \/ WorkerBegin(a) \/ WorkerDie(a) \/ WorkerOverrun(a)
    PROVE  Quiet
<1>0. worker[a] \in WorkerType
  BY DEF TypeOK
<1>1. landed' = landed /\ tick' = tick
  BY DEF ManualDispatch, WorkerGate, WorkerPromote, WorkerBegin, WorkerDie,
         WorkerOverrun, repository
<1>2. Closing' = Closing /\ OfKind({"success_check"})' = OfKind({"success_check"})
  <2>1. CASE log' = log
    BY <2>1, SameLog
  <2>2. CASE WorkerPromote(a)
    BY <2>2, OtherEvent DEF WorkerPromote, Kinds
  <2>3. CASE WorkerBegin(a)
    BY <2>1, <2>3, OtherEvent DEF WorkerBegin, Kinds
  <2>4. QED
    BY <2>1, <2>2, <2>3 DEF ManualDispatch, WorkerGate, WorkerDie, WorkerOverrun
<1>3. \A b \in Attempts : worker'[b].pc = "closing" => worker'[b] = worker[b]
  <2>1. CASE Exit(a) \/ Enter(a, "promote") \/ Enter(a, "begin") \/ Enter(a, "running")
    BY <2>1, EnterQuiet
  <2>2. CASE ManualDispatch(a)
    BY <2>2, <1>0, WorkQuiet DEF ManualDispatch, WorkerType
  <2>3. CASE WorkerOverrun(a)
    BY <2>3, <1>0, WorkQuiet DEF WorkerOverrun, WorkerType
  <2>4. QED
    BY <2>1, <2>2, <2>3 DEF WorkerGate, WorkerPromote, WorkerBegin, WorkerDie
<1>4. QED BY <1>1, <1>2, <1>3 DEF Quiet

\* And every command of the owner.
LEMMA OwnerQuiet ==
    ASSUME External
    PROVE  Quiet
<1>1. landed' = landed /\ tick' = tick /\ worker' = worker
  BY DEF External, SetState, SetCategory, SetWorker, repository
<1>2. Closing' = Closing /\ OfKind({"success_check"})' = OfKind({"success_check"})
  <2>1. CASE log' = log
    BY <2>1, SameLog
  <2>2. CASE SetState
    BY <2>2, OtherEvent DEF SetState, Kinds
  <2>3. QED BY <2>1, <2>2 DEF External, SetCategory, SetWorker
<1>3. QED BY <1>1, <1>2 DEF Quiet

\* The check commands run on a repository that holds every run that returned.
LEMMA EvaluateKeeps ==
    ASSUME TypeOK, EvaluationsSeeThePast, NEW t \in Ticks, TickEvaluate(t)
    PROVE  EvaluationsSeeThePast'
<1>1. UNCHANGED <<landed, log, worker>>
  BY DEF TickEvaluate, repository
<1>2. tick' = [tick EXCEPT ![t] = [tick[t] EXCEPT !.pc = "record", !.seen = landed,
                                     !.note = IF met THEN "met" ELSE "unmet"]]
  BY DEF TickEvaluate, Tick
<1>3. tick'[t].seen = landed /\ \A u \in Ticks \ {t} : tick'[u] = tick[u]
  BY <1>2 DEF TypeOK, TickType
<1>4. HasSeen(landed, tick'[t].now)
  BY DEF EvaluationsSeeThePast, HasSeen
<1>5. \A u \in Ticks : tick'[u].pc = "record" => HasSeen(tick'[u].seen, tick'[u].now)
  BY <1>3, <1>4 DEF EvaluationsSeeThePast
<1>6. QED
  BY <1>1, <1>5, SameLog DEF EvaluationsSeeThePast, HasSeen

\* What the evaluation saw is what its event says it saw.
LEMMA RecordKeeps ==
    ASSUME TypeOK, EvaluationsSeeThePast, NEW t \in Ticks, TickRecord(t)
    PROVE  EvaluationsSeeThePast'
<1>0. tick[t] \in TickType
  BY DEF TypeOK
<1> DEFINE c == CheckEvent(tick[t].now, tick[t].note = "met", tick[t].seen)
<1>1. log' = log \cup {c} /\ UNCHANGED <<landed, worker>>
  BY DEF TickRecord, repository
<1>2. /\ Closing' = Closing
      /\ OfKind({"success_check"})' \subseteq OfKind({"success_check"}) \cup {c}
  BY <1>1 DEF Closing, OfKind, CheckEvent
<1>3. HasSeen(c.seen, c.ts)
  BY DEF TickRecord, EvaluationsSeeThePast, CheckEvent
<1>4. \A u \in Ticks : tick'[u].pc = "record" => tick'[u] = tick[u]
  <2>1. CASE Tick(t, [tick[t] EXCEPT !.pc = "finish", !.now = 0])
    BY <2>1, <1>0, TickQuiet DEF TickType
  <2>2. CASE Stop(t)
    BY <2>2, GotoQuiet
  <2>3. QED BY <2>1, <2>2 DEF TickRecord
<1> HIDE DEF c
<1>5. QED
  BY <1>1, <1>2, <1>3, <1>4 DEF EvaluationsSeeThePast, HasSeen

\* A run that returns is stamped later than every evaluation begun before.
LEMMA ReturnKeeps ==
    ASSUME TypeOK, EvaluationsSeeThePast, NEW a \in Attempts, WorkerReturn(a)
    PROVE  EvaluationsSeeThePast'
<1>1. PICK n \in Instants, status \in Statuses :
        /\ IsNow(n)
        /\ Work(a, [worker[a] EXCEPT !.pc = "closing", !.stamp = n, !.status = status])
  BY DEF WorkerReturn
<1>2. landed' = landed \cup {a} /\ UNCHANGED <<log, tick>>
  BY DEF WorkerReturn
<1>3. /\ worker'[a].stamp = n
      /\ \A b \in Attempts \ {a} : worker'[b] = worker[b]
  BY <1>1 DEF Work, TypeOK, WorkerType
<1>4. ASSUME NEW seen, NEW i \in Nat, i < n, HasSeen(seen, i)
      PROVE  HasSeen(seen, i)'
  <2>1. n \in Nat
    BY InstantsAreNat
  <2>2. ~(worker'[a].stamp < i)
    BY <1>3, <1>4, <2>1
  <2>3. QED
    BY <1>2, <1>3, <1>4, <2>2, SameLog DEF HasSeen
<1>5. \A t \in Ticks : tick[t].now \in Nat /\ tick[t].now < n
  BY <1>1, NowIsLater DEF TypeOK, TickType
<1>6. \A c \in OfKind({"success_check"}) : c.ts \in Nat /\ c.ts < n
  BY <1>1, NowIsLater DEF TypeOK, EventType, OfKind
<1>7. QED
  BY <1>2, <1>3, <1>4, <1>5, <1>6, SameLog DEF EvaluationsSeeThePast

\* The outcome a worker records carries the instant it took when it returned.
LEMMA CloseKeeps ==
    ASSUME TypeOK, EvaluationsSeeThePast, NEW a \in Attempts, WorkerClose(a)
    PROVE  EvaluationsSeeThePast'
<1>1. PICK kind \in {"loop_run_completed", "dispatched"} :
        log' = log \cup {Event(kind, worker[a].stamp, a, worker[a].status)}
  BY DEF WorkerClose
<1> DEFINE e == Event(kind, worker[a].stamp, a, worker[a].status)
<1>2. /\ worker[a].pc = "closing"
      /\ UNCHANGED <<landed, tick>>
  BY DEF WorkerClose, repository
<1>3. /\ Closing' \subseteq Closing \cup {e}
      /\ OfKind({"success_check"})' \subseteq OfKind({"success_check"})
      /\ e.attempt = a /\ e.ts = worker[a].stamp
  BY <1>1 DEF Closing, OfKind, Event
<1>4. \A b \in Attempts : worker'[b].pc = "closing" => worker'[b] = worker[b]
  BY EnterQuiet DEF WorkerClose
<1> HIDE DEF e
<1>5. ASSUME NEW seen, NEW i, HasSeen(seen, i)
      PROVE  HasSeen(seen, i)'
  BY <1>2, <1>3, <1>4, <1>5 DEF HasSeen
<1>6. QED
  BY <1>2, <1>3, <1>4, <1>5 DEF EvaluationsSeeThePast

\* Whatever the processes do, an evaluation has seen all that is older than it.
THEOREM EvaluationsSeeThePastAlways == Spec => []EvaluationsSeeThePast
<1>1. Init => EvaluationsSeeThePast
  <2>1. IdleTick.pc # "record" /\ UnbornWorker.pc # "closing"
    BY DEF IdleTick, UnbornWorker
  <2>2. QED
    BY <2>1 DEF Init, EvaluationsSeeThePast, Closing, OfKind
<1>2. TypeOK /\ EvaluationsSeeThePast /\ [Next]_vars => EvaluationsSeeThePast'
  <2>1. ASSUME EvaluationsSeeThePast, UNCHANGED vars PROVE EvaluationsSeeThePast'
    BY <2>1, SameLog DEF vars, EvaluationsSeeThePast, HasSeen
  <2>2. ASSUME TypeOK, EvaluationsSeeThePast, NEW t \in Ticks,
               TickLoad(t) \/ CheckLoad(t) \/ TickStep(t) \/ TickCrash(t)
        PROVE  EvaluationsSeeThePast'
    <3>1. CASE TickEvaluate(t) \/ TickRecord(t)
      BY <2>2, <3>1, EvaluateKeeps, RecordKeeps
    <3>2. CASE ~TickEvaluate(t) /\ ~TickRecord(t)
      BY <2>2, <3>2, TickStepQuiet, QuietKeeps
    <3>3. QED BY <3>1, <3>2
  <2>3. ASSUME TypeOK, EvaluationsSeeThePast, NEW a \in Attempts,
               ManualDispatch(a) \/ WorkerStep(a) \/ WorkerDie(a) \/ WorkerOverrun(a)
        PROVE  EvaluationsSeeThePast'
    BY <2>3, WorkerStepQuiet, QuietKeeps, ReturnKeeps, CloseKeeps DEF WorkerStep
  <2>4. ASSUME EvaluationsSeeThePast, External PROVE EvaluationsSeeThePast'
    BY <2>4, OwnerQuiet, QuietKeeps
  <2>5. QED BY <2>1, <2>2, <2>3, <2>4 DEF Next
<1>3. QED BY <1>1, <1>2, TypeCorrect, PTL DEF Spec

\* No outcome is skipped unseen, for any number of ticks, workers and commands.
THEOREM NoOutcomeUnseenAlways == Spec => []NoOutcomeUnseen
<1>1. EvaluationsSeeThePast => NoOutcomeUnseen
  BY DEF EvaluationsSeeThePast, HasSeen, NoOutcomeUnseen
<1>2. QED BY <1>1, EvaluationsSeeThePastAlways, PTL

-----------------------------------------------------------------------------
(* One coordinator at a time: who is at work, and how often it is closed *)

\* Ticks never overlap and are never killed, workers end within two hours, and
\* no dispatch is fired by hand.  The owner may do as he likes.
Sequential ==
    /\ \A t, u \in Ticks : t = u
    /\ ~TickCrashes
    /\ ManualKinds = {}
    /\ SlowWorkers = {}

Starts == OfKind({"dispatch_started"})
Closings == OfKind({"dispatched", "dispatch_abandoned"})

Abandoned(a) == \E e \in OfKind({"dispatch_abandoned"}) : e.attempt = a

\* Every worker is a tick's child the coordinator can recognise.
ChildrenOnly ==
    /\ \A a \in Attempts : worker[a].kind = "child" /\ worker[a].argv /\ ~worker[a].old
    /\ OfKind({"loop_run_started", "loop_run_completed"}) = {}

\* Only exited workers are closed, and only born ones are started.
LogIsTrue ==
    /\ \A e \in Closings : e.attempt \in Attempts /\ worker[e.attempt].pc = "exited"
    /\ \A e \in Starts : e.attempt \in Attempts /\ worker[e.attempt].pc # "unborn"

\* What the tick has in hand: the child it has yet to note; the starts its stale scan
\* has yet to probe, none of them abandoned; the dead attempt it will abandon; the
\* starts its in-flight scan has yet to probe, every living worker's among them; and
\* no worker at all once that scan is over.
Knows(t) ==
    /\ tick[t].pc = "note" => /\ tick[t].attempt \in Attempts
                             /\ worker[tick[t].attempt].pc # "unborn"
    /\ tick[t].pc = "probe" => \A e \in tick[t].open :
                                 /\ e.attempt \in Attempts
                                 /\ worker[e.attempt].pc # "unborn"
                                 /\ ~Abandoned(e.attempt)
    /\ tick[t].pc = "abandon" => /\ tick[t].attempt \in Attempts
                                /\ worker[tick[t].attempt].pc = "exited"
                                /\ ~Abandoned(tick[t].attempt)
    /\ tick[t].pc = "flight" => \A a \in Attempts :
                                  Alive(a) => \E e \in tick[t].open : e.attempt = a
    /\ tick[t].pc \in {"budget", "spawn"} => \A a \in Attempts : ~Alive(a)

TickKnows == \A t \in Ticks : Knows(t)

\* The steps at which a tick has something in hand.
Holding == {"note", "probe", "abandon", "flight", "budget", "spawn"}

\* A living worker is on record, or its parent is about to put it there.
AliveIsKnown ==
    \A a \in Attempts : Alive(a) =>
        \/ \E e \in Starts : e.attempt = a
        \/ \E t \in Ticks : tick[t].pc = "note" /\ tick[t].attempt = a

\* Of each kind an attempt gets one closing event at most.
EachOnce ==
    \A e, f \in Closings : e.attempt = f.attempt /\ e.kind = f.kind => e = f

\* Why the two scans of a tick can act on what they selected earlier: the invariant
\* behind SoleWorker, BuriedOnce and NeverForOneAlone.
OneAtATime ==
    ChildrenOnly /\ LogIsTrue /\ TickKnows /\ AliveIsKnown /\ SoleWorker /\ EachOnce

\* The empty log and the unborn workers satisfy it.
LEMMA InitOneAtATime == Init => OneAtATime
<1> SUFFICES ASSUME Init PROVE OneAtATime
  OBVIOUS
<1>1. \A t \in Ticks : tick[t].pc = "idle"
  BY DEF Init, IdleTick
<1>2. \A a \in Attempts : /\ worker[a].pc = "unborn" /\ worker[a].kind = "child"
                          /\ worker[a].argv /\ ~worker[a].old
  BY DEF Init, UnbornWorker
<1>3. \A kinds : OfKind(kinds) = {}
  BY DEF Init, OfKind
<1>4. TickKnows /\ AliveIsKnown /\ SoleWorker
  BY <1>1, <1>2 DEF TickKnows, Knows, AliveIsKnown, SoleWorker, Alive
<1>5. ChildrenOnly /\ LogIsTrue /\ EachOnce
  BY <1>2, <1>3 DEF ChildrenOnly, LogIsTrue, EachOnce, Closings, Starts
<1>6. QED BY <1>4, <1>5 DEF OneAtATime

\* Events of the kinds that start or close an attempt.
AttemptKinds == {"dispatch_started", "dispatched", "dispatch_abandoned",
                 "loop_run_started", "loop_run_completed"}

\* A log that gains no event about an attempt has the same starts and closings.
LEMMA SameAttempts ==
    ASSUME log \subseteq log', \A e \in log' : e \in log \/ e.kind \notin AttemptKinds
    PROVE  /\ Starts' = Starts /\ Closings' = Closings
           /\ OfKind({"loop_run_started", "loop_run_completed"})'
                = OfKind({"loop_run_started", "loop_run_completed"})
           /\ \A a : Abandoned(a)' = Abandoned(a)
BY DEF Starts, Closings, OfKind, Abandoned, AttemptKinds

\* An event of another kind is such a gain.
LEMMA OtherKind ==
    ASSUME NEW kind \in {"success_check", "state_changed", "escalated"},
           NEW e, e.kind = kind, log' = log \cup {e}
    PROVE  log \subseteq log' /\ \A f \in log' : f \in log \/ f.kind \notin AttemptKinds
BY DEF AttemptKinds

\* A tick that neither before nor after the step has anything in hand, or rests.
LEMMA TickAside ==
    ASSUME OneAtATime, worker' = worker,
           log \subseteq log', \A e \in log' : e \in log \/ e.kind \notin AttemptKinds,
           \A t \in Ticks : tick[t].pc = "note" \/ tick'[t].pc \in Holding
                             => tick'[t] = tick[t]
    PROVE  OneAtATime'
<1>1. ChildrenOnly' /\ LogIsTrue' /\ EachOnce'
  BY SameAttempts DEF OneAtATime, ChildrenOnly, LogIsTrue, EachOnce
<1>2. TickKnows'
  BY SameAttempts DEF OneAtATime, TickKnows, Knows, Alive, Holding
<1>3. AliveIsKnown'
  BY SameAttempts DEF OneAtATime, AliveIsKnown, Alive, Holding
<1>4. SoleWorker'
  BY DEF OneAtATime, SoleWorker, Alive
<1>5. QED BY <1>1, <1>2, <1>3, <1>4 DEF OneAtATime

\* A tick that only reads, and knows what it should at the step it reaches.
LEMMA ReadAside ==
    ASSUME OneAtATime, worker' = worker, log' = log,
           NEW t \in Ticks, tick[t].pc # "note", Knows(t)',
           \A u \in Ticks \ {t} : tick'[u] = tick[u]
    PROVE  OneAtATime'
<1>1. /\ Starts' = Starts /\ Closings' = Closings
      /\ OfKind({"loop_run_started", "loop_run_completed"})'
           = OfKind({"loop_run_started", "loop_run_completed"})
      /\ \A a : Abandoned(a)' = Abandoned(a)
  BY SameAttempts
<1>2. ChildrenOnly' /\ LogIsTrue' /\ EachOnce'
  BY <1>1 DEF OneAtATime, ChildrenOnly, LogIsTrue, EachOnce
<1>3. ASSUME NEW u \in Ticks \ {t} PROVE Knows(u)'
  <2>1. Knows(u)
    BY DEF OneAtATime, TickKnows
  <2>2. QED BY <1>1, <2>1 DEF Knows, Alive
<1>4. TickKnows'
  BY <1>3 DEF TickKnows
<1>5. AliveIsKnown'
  BY <1>1 DEF OneAtATime, AliveIsKnown, Alive
<1>6. SoleWorker'
  BY DEF OneAtATime, SoleWorker, Alive
<1>7. QED BY <1>2, <1>4, <1>5, <1>6 DEF OneAtATime

\* A living worker that moves on, or exits without closing.
LEMMA WorkerAside ==
    ASSUME OneAtATime, NEW a \in Attempts, Alive(a), tick' = tick,
           log \subseteq log', \A e \in log' : e \in log \/ e.kind \notin AttemptKinds,
           \A b \in Attempts \ {a} : worker'[b] = worker[b],
           worker'[a].pc # "unborn",
           worker'[a].kind = "child" /\ worker'[a].argv /\ ~worker'[a].old
    PROVE  OneAtATime'
<1>1. ChildrenOnly'
  BY SameAttempts DEF OneAtATime, ChildrenOnly
<1>2. worker[a].pc \notin {"unborn", "exited"}
  BY DEF Alive
<1>3. LogIsTrue'
  BY <1>2, SameAttempts DEF OneAtATime, LogIsTrue
<1>4. TickKnows'
  BY <1>2, SameAttempts DEF OneAtATime, TickKnows, Knows, Alive
<1>5. \A b \in Attempts : Alive(b)' => Alive(b)
  BY <1>2 DEF Alive
<1>6. AliveIsKnown' /\ SoleWorker' /\ EachOnce'
  BY <1>5, SameAttempts DEF OneAtATime, AliveIsKnown, SoleWorker, EachOnce
<1>7. QED BY <1>1, <1>3, <1>4, <1>6 DEF OneAtATime

\* Where one process goes, and that the others stay.
LEMMA TickGoes ==
    ASSUME TypeOK, NEW t \in Ticks, NEW r, Tick(t, r)
    PROVE  tick'[t] = r /\ \A u \in Ticks \ {t} : tick'[u] = tick[u]
BY DEF TypeOK, Tick

LEMMA EnterGoes ==
    ASSUME TypeOK, NEW a \in Attempts, NEW pc, Enter(a, pc)
    PROVE  /\ worker'[a] = [worker[a] EXCEPT !.pc = pc]
           /\ worker'[a].pc = pc /\ worker'[a].kind = worker[a].kind
           /\ worker'[a].argv = worker[a].argv /\ worker'[a].old = worker[a].old
           /\ \A b \in Attempts \ {a} : worker'[b] = worker[b]
BY DEF Enter, Work, TypeOK, WorkerType

LEMMA ExitGoes ==
    ASSUME TypeOK, NEW a \in Attempts, Exit(a)
    PROVE  /\ worker'[a].pc = "exited" /\ worker'[a].kind = "child"
           /\ worker'[a].argv /\ ~worker'[a].old
           /\ \A b \in Attempts \ {a} : worker'[b] = worker[b]
BY DEF Exit, Work, UnbornWorker, TypeOK, WorkerType

\* The steps of a tick that only read, evaluate, brief or change the state.
LEMMA TickElsewhere ==
    ASSUME TypeOK, OneAtATime, NEW t \in Ticks,
           \/ TickLoad(t) \/ CheckLoad(t) \/ TickPreflight(t) \/ CheckClock(t)
           \/ TickEscalate(t) \/ TickDue(t) \/ TickEvaluate(t) \/ TickRecord(t)
           \/ TickFinish(t) \/ TickFailures(t) \/ TickBlock(t) \/ TickPromote(t)
    PROVE  OneAtATime'
<1>0. tick[t] \in TickType
  BY DEF TypeOK
<1>1. worker' = worker /\ tick[t].pc # "note"
  BY DEF TickLoad, CheckLoad, TickPreflight, CheckClock, TickEscalate, TickDue, TickEvaluate,
         TickRecord, TickFinish, TickFailures, TickBlock, TickPromote
<1>2. log \subseteq log' /\ \A e \in log' : e \in log \/ e.kind \notin AttemptKinds
  <2>1. CASE log' = log
    BY <2>1
  <2>2. CASE TickEscalate(t)
    BY <2>2, OtherKind DEF TickEscalate, Event
  <2>3. CASE TickRecord(t)
    BY <2>3, OtherKind DEF TickRecord, CheckEvent
  <2>4. CASE TickFinish(t)
    BY <2>4, OtherKind DEF TickFinish, Event
  <2>5. CASE TickBlock(t) \/ TickPromote(t)
    BY <2>5, OtherKind DEF TickBlock, TickPromote, Event
  <2>6. QED
    BY <2>1, <2>2, <2>3, <2>4, <2>5
       DEF TickLoad, CheckLoad, TickPreflight, CheckClock, TickDue, TickEvaluate, TickFailures
<1>3. /\ tick'[t].pc \notin Holding
      /\ \A u \in Ticks \ {t} : tick'[u] = tick[u]
  <2> USE DEF Holding
  <2>1. CASE Stop(t)
    BY <2>1, StopGoes
  <2>2. CASE \E pc \in {"evaluate", "failures", "gate", "block"} : Goto(t, pc)
    BY <2>2, GotoGoes
  <2>3. CASE TickLoad(t) \/ CheckLoad(t)
    BY <2>3 DEF Tick, TypeOK, TickLoad, CheckLoad, IdleTick
  <2>4. CASE TickPreflight(t) \/ CheckClock(t)
    BY <2>1, <2>4, <1>0 DEF Tick, TypeOK, TickPreflight, CheckClock, TickType
  <2>5. CASE TickEvaluate(t) \/ TickRecord(t) \/ TickBlock(t)
    BY <2>1, <2>5, <1>0, ZenonT(40) DEF Tick, TypeOK, TickEvaluate, TickRecord, TickBlock, TickType
  <2>6. QED
    BY <2>1, <2>2, <2>3, <2>4, <2>5
       DEF TickEscalate, TickDue, TickFinish, TickFailures, TickPromote
<1>4. QED BY <1>1, <1>2, <1>3, TickAside

\* The stale scan selects starts nobody abandoned, of workers that were born.
LEMMA ScanKeepsOne ==
    ASSUME TypeOK, OneAtATime, NEW t \in Ticks, TickScan(t)
    PROVE  OneAtATime'
<1>1. worker' = worker /\ log' = log /\ tick[t].pc = "scan" /\ Select(t, "probe")
  BY DEF TickScan
<1>2. /\ tick'[t].pc = "probe" /\ tick'[t].open = OpenStarts
      /\ \A u \in Ticks \ {t} : tick'[u] = tick[u]
  BY <1>1, SelectGoes DEF TickPcs
<1>3. \A e \in OpenStarts : /\ e.attempt \in Attempts /\ worker[e.attempt].pc # "unborn"
                            /\ ~Abandoned(e.attempt)
  BY DEF OpenStarts, Starts, Closed, Abandoned, OfKind, OneAtATime, LogIsTrue
<1>4. \A a : Abandoned(a)' = Abandoned(a)
  BY <1>1, SameAttempts
<1>5. Knows(t)'
  BY <1>1, <1>2, <1>3, <1>4 DEF Knows
<1>6. QED BY <1>1, <1>2, <1>5, ReadAside

\* What it picks among them is dead when it is probed.
LEMMA ProbeKeepsOne ==
    ASSUME TypeOK, OneAtATime, NEW t \in Ticks, TickProbe(t)
    PROVE  OneAtATime'
<1>1. worker' = worker /\ log' = log /\ tick[t].pc = "probe"
  BY DEF TickProbe
<1>2. \A a : Abandoned(a)' = Abandoned(a)
  BY <1>1, SameAttempts
<1>3. \A e \in tick[t].open : /\ e.attempt \in Attempts /\ worker[e.attempt].pc # "unborn"
                             /\ ~Abandoned(e.attempt)
  BY <1>1 DEF OneAtATime, TickKnows, Knows
<1>4. CASE Goto(t, "due")
  <2>1. tick'[t].pc = "due" /\ \A u \in Ticks \ {t} : tick'[u] = tick[u]
    BY <1>4, GotoGoes
  <2>2. Knows(t)'
    BY <2>1 DEF Knows
  <2>3. QED BY <1>1, <2>1, <2>2, ReadAside
<1>5. ASSUME NEW e, Skip(t, e) PROVE OneAtATime'
  <2>1. /\ tick'[t].pc = "probe" /\ tick'[t].open \subseteq tick[t].open
        /\ \A u \in Ticks \ {t} : tick'[u] = tick[u]
    BY <1>1, <1>5, SkipGoes
  <2>2. Knows(t)'
    BY <1>1, <1>2, <1>3, <2>1 DEF Knows
  <2>3. QED BY <1>1, <2>1, <2>2, ReadAside
<1>6. ASSUME NEW e \in tick[t].open, ~is_worker_process_live(e.attempt),
             Tick(t, [tick[t] EXCEPT !.pc = "abandon", !.attempt = e.attempt, !.open = {}])
      PROVE  OneAtATime'
  <2>1. /\ tick'[t].pc = "abandon" /\ tick'[t].attempt = e.attempt
        /\ \A u \in Ticks \ {t} : tick'[u] = tick[u]
    BY <1>6, PickGoes
  <2>2. worker[e.attempt].pc = "exited"
    BY <1>3, <1>6 DEF is_worker_process_live, Alive, OneAtATime, ChildrenOnly
  <2>3. Knows(t)'
    BY <1>1, <1>2, <1>3, <2>1, <2>2 DEF Knows
  <2>4. QED BY <1>1, <2>1, <2>3, ReadAside
<1>7. QED BY <1>4, <1>5, <1>6 DEF TickProbe, Oldest

\* The closing of an attempt that had none of this kind, whose worker is gone after
\* the step: by the worker itself, or by the one tick, which is done.
LEMMA ClosingKeepsOne ==
    ASSUME OneAtATime, NEW a \in Attempts, NEW e,
           log' = log \cup {e}, e.kind \in {"dispatched", "dispatch_abandoned"},
           e.attempt = a, \A f \in Closings : f.kind = e.kind => f.attempt # a,
           worker[a].pc # "unborn", worker'[a].pc = "exited",
           worker'[a].kind = "child" /\ worker'[a].argv /\ ~worker'[a].old,
           \A b \in Attempts \ {a} : worker'[b] = worker[b],
           \/ e.kind = "dispatched" /\ tick' = tick
           \/ \A t \in Ticks : tick[t].pc # "note" /\ tick'[t].pc = "idle"
    PROVE  OneAtATime'
<1>1. Closings' = Closings \cup {e} /\ Starts' = Starts
      /\ OfKind({"loop_run_started", "loop_run_completed"})'
           = OfKind({"loop_run_started", "loop_run_completed"})
  BY DEF Closings, Starts, OfKind
<1>2. e.kind = "dispatched" => \A b : Abandoned(b)' = Abandoned(b)
  BY DEF Abandoned, OfKind
<1>3. ChildrenOnly' /\ LogIsTrue'
  BY <1>1 DEF OneAtATime, ChildrenOnly, LogIsTrue
<1>4. \A b \in Attempts : Alive(b)' => Alive(b)
  BY DEF Alive
<1>5. TickKnows'
  <2>1. ASSUME NEW t \in Ticks, e.kind = "dispatched", tick' = tick PROVE Knows(t)'
    <3>1. Knows(t)
      BY DEF OneAtATime, TickKnows
    <3>2. \A b \in Attempts : /\ worker[b].pc # "unborn" => worker'[b].pc # "unborn"
                             /\ worker[b].pc = "exited" => worker'[b].pc = "exited"
      OBVIOUS
    <3>3. QED BY <1>2, <1>4, <2>1, <3>1, <3>2 DEF Knows
  <2>2. ASSUME NEW t \in Ticks, tick'[t].pc = "idle" PROVE Knows(t)'
    BY <2>2 DEF Knows
  <2>3. QED BY <2>1, <2>2 DEF TickKnows
<1>6. AliveIsKnown'
  BY <1>1, <1>4 DEF OneAtATime, AliveIsKnown
<1>7. SoleWorker'
  BY <1>4 DEF OneAtATime, SoleWorker
<1>8. EachOnce'
  <2>1. \A f, g \in Closings : f.attempt = g.attempt /\ f.kind = g.kind => f = g
    BY DEF OneAtATime, EachOnce
  <2>2. \A f, g \in Closings' : f.attempt = g.attempt /\ f.kind = g.kind => f = g
    BY <1>1, <2>1
  <2>3. QED BY <2>2 DEF EachOnce
<1>9. QED BY <1>3, <1>5, <1>6, <1>7, <1>8 DEF OneAtATime

\* A tick abandons the attempt it picked; a worker closes its own.
LEMMA AbandonKeepsOne ==
    ASSUME Sequential, TypeOK, OneAtATime, NEW t \in Ticks, TickAbandon(t)
    PROVE  OneAtATime'
<1>1. /\ tick[t].attempt \in Attempts /\ worker[tick[t].attempt].pc = "exited"
      /\ ~Abandoned(tick[t].attempt) /\ tick[t].pc = "abandon"
  BY DEF TickAbandon, OneAtATime, TickKnows, Knows
<1> DEFINE e == Event("dispatch_abandoned", tick[t].now, tick[t].attempt, "abandoned")
<1>2. e.kind = "dispatch_abandoned" /\ e.attempt = tick[t].attempt /\ log' = log \cup {e}
  BY DEF Event, TickAbandon
<1> HIDE DEF e
<1>3. worker' = worker /\ tick'[t].pc = "idle" /\ \A u \in Ticks : u = t
  BY StopGoes DEF TickAbandon, Sequential
<1>4. \A b \in Attempts : worker[b].kind = "child" /\ worker[b].argv /\ ~worker[b].old
  BY DEF OneAtATime, ChildrenOnly
<1>5. \A f \in Closings : f.kind = e.kind => f.attempt # tick[t].attempt
  BY <1>1, <1>2 DEF Closings, OfKind, Abandoned
<1>6. \A u \in Ticks : tick[u].pc # "note" /\ tick'[u].pc = "idle"
  BY <1>1, <1>3
<1>7. QED BY <1>1, <1>2, <1>3, <1>4, <1>5, <1>6, ClosingKeepsOne

LEMMA CloseKeepsOne ==
    ASSUME TypeOK, OneAtATime, NEW a \in Attempts, WorkerClose(a)
    PROVE  OneAtATime'
<1>1. worker[a].pc = "closing" /\ worker[a].kind = "child" /\ tick' = tick
  BY DEF WorkerClose, OneAtATime, ChildrenOnly
<1> DEFINE e == Event("dispatched", worker[a].stamp, a, worker[a].status)
<1>2. e.kind = "dispatched" /\ e.attempt = a /\ log' = log \cup {e}
  BY <1>1 DEF Event, WorkerClose
<1> HIDE DEF e
<1>3. \A f \in Closings : f.attempt # a
  BY <1>1 DEF OneAtATime, LogIsTrue
<1>4. /\ worker'[a].pc = "exited" /\ worker'[a].kind = "child"
      /\ worker'[a].argv /\ ~worker'[a].old
      /\ \A b \in Attempts \ {a} : worker'[b] = worker[b]
  BY ExitGoes DEF WorkerClose
<1>5. QED BY <1>1, <1>2, <1>3, <1>4, ClosingKeepsOne

\* The in-flight scan selects the start of every living worker, ...
LEMMA GateKeepsOne ==
    ASSUME Sequential, TypeOK, OneAtATime, NEW t \in Ticks, TickGate(t)
    PROVE  OneAtATime'
<1>1. worker' = worker /\ log' = log /\ tick[t].pc = "gate" /\ \A u \in Ticks : u = t
  BY DEF TickGate, Sequential
<1>2. CASE Stop(t)
  BY <1>1, <1>2, StopGoes, TickAside DEF Holding
<1>3. CASE Select(t, "flight")
  <2>1. tick'[t].pc = "flight" /\ tick'[t].open = OpenStarts
    BY <1>3, SelectGoes DEF TickPcs
  <2>2. ASSUME NEW a \in Attempts, Alive(a) PROVE \E e \in OpenStarts : e.attempt = a
    <3>1. PICK e \in Starts : e.attempt = a
      BY <1>1, <2>2 DEF OneAtATime, AliveIsKnown
    <3>2. ~Closed(a)
      BY <2>2 DEF Closed, OneAtATime, LogIsTrue, Closings, Alive
    <3>3. QED BY <3>1, <3>2 DEF OpenStarts, Starts
  <2>3. Knows(t)'
    BY <1>1, <2>1, <2>2 DEF Knows, Alive
  <2>4. QED BY <1>1, <2>3, ReadAside
<1>4. QED BY <1>2, <1>3 DEF TickGate

\* ... drops only the starts of dead ones, so that none is left alive at its end, ...
LEMMA FlightKeepsOne ==
    ASSUME Sequential, TypeOK, OneAtATime, NEW t \in Ticks, TickFlight(t)
    PROVE  OneAtATime'
<1>1. worker' = worker /\ log' = log /\ tick[t].pc = "flight" /\ \A u \in Ticks : u = t
  BY DEF TickFlight, Sequential
<1>2. \A a \in Attempts : Alive(a) => \E e \in tick[t].open : e.attempt = a
  BY <1>1 DEF OneAtATime, TickKnows, Knows
<1>3. CASE Stop(t)
  BY <1>1, <1>3, StopGoes, TickAside DEF Holding
<1>4. CASE tick[t].open = {} /\ Goto(t, "budget")
  <2>1. tick'[t].pc = "budget"
    BY <1>4, GotoGoes
  <2>2. Knows(t)'
    BY <1>1, <1>2, <1>4, <2>1 DEF Knows, Alive
  <2>3. QED BY <1>1, <2>2, ReadAside
<1>5. ASSUME NEW e \in tick[t].open, ~is_worker_process_live(e.attempt), Skip(t, e)
      PROVE  OneAtATime'
  <2>1. tick'[t].pc = "flight" /\ tick'[t].open = tick[t].open \ {e}
    BY <1>1, <1>5, SkipGoes
  <2>2. \A a \in Attempts : Alive(a) => e.attempt # a
    BY <1>5 DEF is_worker_process_live, OneAtATime, ChildrenOnly
  <2>3. Knows(t)'
    BY <1>1, <1>2, <2>1, <2>2 DEF Knows, Alive
  <2>4. QED BY <1>1, <2>3, ReadAside
<1>6. QED BY <1>3, <1>4, <1>5 DEF TickFlight, Oldest

\* ... and the budgets change nothing about that.
LEMMA BudgetKeepsOne ==
    ASSUME Sequential, TypeOK, OneAtATime, NEW t \in Ticks, TickBudget(t)
    PROVE  OneAtATime'
<1>0. tick[t] \in TickType
  BY DEF TypeOK
<1>1. worker' = worker /\ log' = log /\ tick[t].pc = "budget" /\ \A u \in Ticks : u = t
  BY DEF TickBudget, Sequential
<1>2. CASE Stop(t)
  BY <1>1, <1>2, StopGoes, TickAside DEF Holding
<1>3. CASE Tick(t, [tick[t] EXCEPT !.pc = "escalate", !.note = "no_worker_config"])
  <2>1. tick'[t].pc = "escalate"
    BY <1>0, <1>3 DEF Tick, TypeOK, TickType
  <2>2. QED BY <1>1, <2>1, TickAside DEF Holding
<1>4. CASE Goto(t, "spawn")
  <2>1. tick'[t].pc = "spawn"
    BY <1>4, GotoGoes
  <2>2. \A a \in Attempts : ~Alive(a)
    BY <1>1 DEF OneAtATime, TickKnows, Knows
  <2>3. Knows(t)'
    BY <1>1, <2>1, <2>2 DEF Knows, Alive
  <2>4. QED BY <1>1, <2>3, ReadAside
<1>5. QED BY <1>2, <1>3, <1>4 DEF TickBudget

\* The spawned child is alone, and its parent is about to note it.
LEMMA SpawnKeepsOne ==
    ASSUME Sequential, TypeOK, OneAtATime, NEW t \in Ticks, TickSpawn(t)
    PROVE  OneAtATime'
<1>1. PICK a \in Attempts :
        /\ IsFresh(a)
        /\ Enter(a, "load")
        /\ Tick(t, [tick[t] EXCEPT !.pc = "note", !.attempt = a])
  BY DEF TickSpawn
<1>2. tick[t] \in TickType /\ log' = log /\ tick[t].pc = "spawn" /\ \A u \in Ticks : u = t
  BY DEF TypeOK, TickSpawn, Sequential
<1>3. tick'[t].pc = "note" /\ tick'[t].attempt = a
  BY <1>1, <1>2 DEF Tick, TypeOK, TickType
<1>4. \A b \in Attempts : ~Alive(b)
  BY <1>2 DEF OneAtATime, TickKnows, Knows
<1>5. /\ worker[a].pc = "unborn" /\ worker'[a].pc = "load"
      /\ worker'[a].kind = worker[a].kind
      /\ worker'[a].argv = worker[a].argv /\ worker'[a].old = worker[a].old
      /\ \A b \in Attempts \ {a} : worker'[b] = worker[b]
  BY <1>1, EnterGoes DEF IsFresh
<1>6. Starts' = Starts /\ Closings' = Closings
  BY <1>2, SameAttempts
<1>7. ChildrenOnly'
  BY <1>2, <1>5 DEF OneAtATime, ChildrenOnly, OfKind
<1>8. LogIsTrue'
  BY <1>5, <1>6 DEF OneAtATime, LogIsTrue
<1>9. TickKnows'
  BY <1>2, <1>3, <1>5 DEF TickKnows, Knows
<1>10. AliveIsKnown' /\ SoleWorker'
  BY <1>2, <1>3, <1>4, <1>5 DEF AliveIsKnown, SoleWorker, Alive
<1>11. EachOnce'
  BY <1>6 DEF OneAtATime, EachOnce
<1>12. QED BY <1>7, <1>8, <1>9, <1>10, <1>11 DEF OneAtATime

\* The start of the child is on record before the parent moves on.
LEMMA NoteKeepsOne ==
    ASSUME Sequential, TypeOK, OneAtATime, NEW t \in Ticks, TickNote(t)
    PROVE  OneAtATime'
<1> DEFINE e == Event("dispatch_started", tick[t].now, tick[t].attempt, "tick")
<1>1. e.kind = "dispatch_started" /\ e.attempt = tick[t].attempt /\ log' = log \cup {e}
  BY DEF Event, TickNote
<1> HIDE DEF e
<1>2. worker' = worker /\ tick[t].pc = "note" /\ \A u \in Ticks : u = t
  BY DEF TickNote, Sequential
<1>3. tick[t].attempt \in Attempts /\ worker[tick[t].attempt].pc # "unborn"
  BY <1>2 DEF OneAtATime, TickKnows, Knows
<1>4. Starts' = Starts \cup {e} /\ Closings' = Closings
      /\ OfKind({"loop_run_started", "loop_run_completed"})'
           = OfKind({"loop_run_started", "loop_run_completed"})
  BY <1>1 DEF Closings, Starts, OfKind
<1>5. tick'[t].pc \in {"promote", "idle"}
  BY GotoGoes, StopGoes DEF TickNote
<1>6. ChildrenOnly' /\ LogIsTrue'
  BY <1>1, <1>2, <1>3, <1>4 DEF OneAtATime, ChildrenOnly, LogIsTrue
<1>7. TickKnows'
  BY <1>2, <1>5 DEF TickKnows, Knows
<1>8. AliveIsKnown'
  BY <1>1, <1>2, <1>4 DEF OneAtATime, AliveIsKnown, Alive
<1>9. SoleWorker' /\ EachOnce'
  BY <1>2, <1>4 DEF OneAtATime, SoleWorker, EachOnce, Alive
<1>10. QED BY <1>6, <1>7, <1>8, <1>9 DEF OneAtATime

\* A worker between its birth and its closing.
LEMMA WorkerElsewhere ==
    ASSUME TypeOK, OneAtATime, NEW a \in Attempts,
           \/ WorkerGate(a) \/ WorkerPromote(a) \/ WorkerBegin(a) \/ WorkerReturn(a)
           \/ WorkerDie(a)
    PROVE  OneAtATime'
<1>1. Alive(a) /\ tick' = tick /\ worker[a] \in WorkerType
  BY DEF WorkerGate, WorkerPromote, WorkerBegin, WorkerReturn, WorkerDie, Alive, TypeOK
<1>2. worker[a].kind = "child" /\ worker[a].argv /\ ~worker[a].old
  BY DEF OneAtATime, ChildrenOnly
<1>3. log \subseteq log' /\ \A e \in log' : e \in log \/ e.kind \notin AttemptKinds
  <2>1. CASE log' = log
    BY <2>1
  <2>2. CASE WorkerPromote(a)
    BY <2>2, OtherKind DEF WorkerPromote, Event
  <2>3. QED
    BY <1>2, <2>1, <2>2 DEF WorkerGate, WorkerBegin, WorkerReturn, WorkerDie
<1>4. /\ worker'[a].pc # "unborn"
      /\ worker'[a].kind = "child" /\ worker'[a].argv /\ ~worker'[a].old
      /\ \A b \in Attempts \ {a} : worker'[b] = worker[b]
  <2>1. CASE Exit(a)
    BY <2>1, ExitGoes
  <2>2. CASE \E pc \in {"promote", "begin", "running"} : Enter(a, pc)
    BY <1>2, <2>2, EnterGoes
  <2>3. CASE WorkerReturn(a)
    <3>1. PICK n \in Instants, status \in Statuses :
            Work(a, [worker[a] EXCEPT !.pc = "closing", !.stamp = n, !.status = status])
      BY <2>3 DEF WorkerReturn
    <3>2. QED BY <1>1, <1>2, <3>1 DEF Work, TypeOK, WorkerType
  <2>4. QED
    BY <2>1, <2>2, <2>3 DEF WorkerGate, WorkerPromote, WorkerBegin, WorkerDie
<1>5. QED BY <1>1, <1>3, <1>4, WorkerAside

\* Every step keeps one worker at a time and one closing of a kind per attempt.
LEMMA OneAtATimeStep ==
    ASSUME Sequential, TypeOK, OneAtATime, [Next]_vars
    PROVE  OneAtATime'
<1>1. ASSUME NEW t \in Ticks, TickLoad(t) \/ CheckLoad(t) \/ TickStep(t) \/ TickCrash(t)
      PROVE  OneAtATime'
  <2>1. ~TickCrash(t)
    BY DEF Sequential, TickCrash
  <2>2. QED
    BY <1>1, <2>1, TickElsewhere, ScanKeepsOne, ProbeKeepsOne, AbandonKeepsOne,
       GateKeepsOne, FlightKeepsOne, BudgetKeepsOne, SpawnKeepsOne, NoteKeepsOne DEF TickStep
<1>2. ASSUME NEW a \in Attempts,
             ManualDispatch(a) \/ WorkerStep(a) \/ WorkerDie(a) \/ WorkerOverrun(a)
      PROVE  OneAtATime'
  <2>1. ~ManualDispatch(a) /\ ~WorkerOverrun(a)
    BY DEF Sequential, ManualDispatch, WorkerOverrun
  <2>2. QED BY <1>2, <2>1, WorkerElsewhere, CloseKeepsOne DEF WorkerStep
<1>3. CASE External \/ UNCHANGED vars
  <2>1. tick' = tick /\ worker' = worker
    BY <1>3 DEF External, SetState, SetCategory, SetWorker, vars
  <2>2. log \subseteq log' /\ \A e \in log' : e \in log \/ e.kind \notin AttemptKinds
    <3>1. CASE log' = log
      BY <3>1
    <3>2. CASE SetState
      BY <3>2, OtherKind DEF SetState, Event
    <3>3. QED BY <1>3, <3>1, <3>2 DEF External, SetCategory, SetWorker, vars
  <2>3. QED BY <2>1, <2>2, TickAside
<1>4. QED BY <1>1, <1>2, <1>3 DEF Next

\* In every behaviour of a sequential coordinator the two scans agree.
LEMMA OneAtATimeAlways ==
    ASSUME Sequential
    PROVE  Spec => [](TypeOK /\ OneAtATime)
<1>1. Init => TypeOK /\ OneAtATime
  BY InitTyped, InitOneAtATime
<1>2. TypeOK /\ OneAtATime /\ [Next]_vars => OneAtATime'
  BY OneAtATimeStep
<1>3. QED BY <1>1, <1>2, TypeCorrect, PTL DEF Spec

\* Under single_cwd no two workers ever run at once, for any number of attempts
\* and owner commands, when ticks do not overlap, are not killed, and nothing
\* else starts a worker.
THEOREM SoleWorkerAlways ==
    ASSUME Sequential
    PROVE  Spec => []SoleWorker
<1>1. OneAtATime => SoleWorker
  BY DEF OneAtATime
<1>2. QED BY <1>1, OneAtATimeAlways, PTL

\* No tick abandons a worker that still runs, or an attempt a second time, although
\* it probes what it selected earlier and abandons what it probed earlier.
THEOREM BuriedOnceAlways ==
    ASSUME Sequential
    PROVE  Spec => []BuriedOnce
<1>1. OneAtATime => BuriedOnce
  BY DEF OneAtATime, LogIsTrue, EachOnce, Closings, OfKind, BuriedOnce, Alive
<1>2. QED BY <1>1, OneAtATimeAlways, PTL

-----------------------------------------------------------------------------
(* What each step adds to the log *)

\* The log is append-only.
LEMMA LogGrows ==
    ASSUME [Next]_vars
    PROVE  log \subseteq log'
<1>1. ASSUME NEW t \in Ticks, TickLoad(t) \/ CheckLoad(t) \/ TickStep(t) \/ TickCrash(t)
      PROVE  log \subseteq log'
  BY <1>1
     DEF TickLoad, CheckLoad, TickCrash, TickStep, TickPreflight, CheckClock, TickEscalate,
         TickScan, TickProbe, TickAbandon, TickDue, TickEvaluate, TickRecord, TickFinish,
         TickFailures, TickBlock, TickGate, TickFlight, TickBudget, TickSpawn, TickNote,
         TickPromote
<1>2. ASSUME NEW a \in Attempts,
             ManualDispatch(a) \/ WorkerStep(a) \/ WorkerDie(a) \/ WorkerOverrun(a)
      PROVE  log \subseteq log'
  BY <1>2
     DEF ManualDispatch, WorkerStep, WorkerGate, WorkerPromote, WorkerBegin, WorkerReturn,
         WorkerClose, WorkerDie, WorkerOverrun
<1>3. CASE External \/ UNCHANGED vars
  BY <1>3 DEF External, SetState, SetCategory, SetWorker, vars
<1>4. QED BY <1>1, <1>2, <1>3 DEF Next

Briefs == OfKind({"escalated"})
Changes == OfKind({"state_changed"})

\* Only TickEscalate writes a brief, and only five steps write a change of state.
LEMMA BriefsStay ==
    ASSUME [Next]_vars, \A t \in Ticks : ~TickEscalate(t)
    PROVE  /\ Briefs' = Briefs
           /\ \/ Changes' = Changes
              \/ \E t \in Ticks : TickFinish(t) \/ TickBlock(t) \/ TickPromote(t)
              \/ \E a \in Attempts : WorkerPromote(a)
              \/ SetState
<1>1. CASE log' = log
  BY <1>1 DEF Briefs, Changes, OfKind
<1>2. ASSUME NEW t \in Ticks, TickStep(t), log' # log
      PROVE  /\ Briefs' = Briefs
             /\ Changes' = Changes \/ TickFinish(t) \/ TickBlock(t) \/ TickPromote(t)
  <2>1. CASE TickAbandon(t) \/ TickNote(t)
    BY <2>1 DEF TickAbandon, TickNote, Event, Briefs, Changes, OfKind
  <2>2. CASE TickRecord(t)
    BY <2>2 DEF TickRecord, CheckEvent, Briefs, Changes, OfKind
  <2>3. CASE TickFinish(t) \/ TickBlock(t) \/ TickPromote(t)
    BY <2>3 DEF TickFinish, TickBlock, TickPromote, Event, Briefs, OfKind
  <2>4. QED
    BY <1>2, <2>1, <2>2, <2>3
       DEF TickStep, TickPreflight, CheckClock, TickScan, TickProbe, TickDue, TickEvaluate,
           TickFailures, TickGate, TickFlight, TickBudget, TickSpawn
<1>3. ASSUME NEW a \in Attempts, WorkerStep(a), log' # log
      PROVE  Briefs' = Briefs /\ (Changes' = Changes \/ WorkerPromote(a))
  <2>1. CASE WorkerPromote(a)
    BY <2>1 DEF WorkerPromote, Event, Briefs, OfKind
  <2>2. CASE WorkerBegin(a) \/ WorkerClose(a)
    BY <1>3, <2>2 DEF WorkerBegin, WorkerClose, Event, Briefs, Changes, OfKind
  <2>3. QED
    BY <1>3, <2>1, <2>2 DEF WorkerStep, WorkerGate, WorkerReturn
<1>4. ASSUME SetState
      PROVE  Briefs' = Briefs
  BY <1>4 DEF SetState, Event, Briefs, OfKind
<1>5. QED
  BY <1>1, <1>2, <1>3, <1>4
     DEF Next, TickLoad, CheckLoad, TickCrash, ManualDispatch, WorkerDie, WorkerOverrun,
         External, SetCategory, SetWorker, vars

\* The steps of a tick between its clock and its decision to block, to brief or to
\* spawn.
Undecided == {"scan", "probe", "due", "failures", "gate", "flight", "budget"}
Deciding == Undecided \cup {"block", "escalate"}

\* A tick that goes on deciding keeps its instant and its row, and does not turn
\* to blocking or briefing except in three steps.
LEMMA TickDecides ==
    ASSUME TypeOK, NEW t \in Ticks,
           TickLoad(t) \/ CheckLoad(t) \/ TickStep(t) \/ TickCrash(t),
           ~TickPreflight(t), ~TickBlock(t), ~TickBudget(t)
    PROVE  /\ \/ tick'[t].pc \notin Deciding
              \/ /\ tick[t].pc \in Undecided
                 /\ tick'[t].pc \in Undecided \cup {"block"}
                 /\ tick'[t].now = tick[t].now /\ tick'[t].row = tick[t].row
                 /\ tick'[t].pc = "block" => TickFailures(t)
           /\ \A u \in Ticks \ {t} : tick'[u] = tick[u]
<1> USE DEF Undecided
<1>0. tick[t] \in TickType
  BY DEF TypeOK
<1>1. CASE Stop(t)
  BY <1>1, StopGoes DEF Deciding
<1>2. ASSUME NEW pc, Goto(t, pc)
      PROVE  /\ tick'[t].pc = pc
             /\ tick'[t].now = tick[t].now /\ tick'[t].row = tick[t].row
             /\ \A u \in Ticks \ {t} : tick'[u] = tick[u]
  BY <1>0, <1>2 DEF Goto, Tick, TypeOK, TickType
<1>a. ASSUME NEW r, Tick(t, r), r.pc \notin Deciding
      PROVE  tick'[t].pc \notin Deciding /\ \A u \in Ticks \ {t} : tick'[u] = tick[u]
  BY <1>a DEF Tick, TypeOK
<1>3. CASE TickLoad(t) \/ CheckLoad(t)
  <2>1. /\ [IdleTick EXCEPT !.pc = "loaded", !.row = Row].pc \notin Deciding
        /\ [IdleTick EXCEPT !.pc = "loaded", !.row = Row, !.forced = TRUE].pc \notin Deciding
    BY DEF IdleTick, Deciding
  <2>2. QED BY <1>3, <1>a, <2>1 DEF TickLoad, CheckLoad
<1>b. CASE CheckClock(t)
  <2>1. PICK n \in Instants : Tick(t, [tick[t] EXCEPT !.now = n, !.pc = "evaluate"])
    BY <1>b DEF CheckClock
  <2>2. QED BY <1>0, <1>a, <2>1 DEF TickType, Deciding
<1>c. CASE TickEvaluate(t)
  <2>1. PICK note : Tick(t, [tick[t] EXCEPT !.pc = "record", !.seen = landed, !.note = note])
    BY <1>c DEF TickEvaluate
  <2>2. QED BY <1>0, <1>a, <2>1 DEF TickType, Deciding
<1>d. CASE TickRecord(t)
  <2>1. CASE Tick(t, [tick[t] EXCEPT !.pc = "finish", !.now = 0])
    BY <1>0, <1>a, <2>1 DEF TickType, Deciding
  <2>2. QED BY <1>1, <1>d, <2>1 DEF TickRecord
<1>4. CASE TickSpawn(t)
  <2>1. PICK a \in Attempts : Tick(t, [tick[t] EXCEPT !.pc = "note", !.attempt = a])
    BY <1>4 DEF TickSpawn
  <2>2. QED BY <1>0, <1>a, <2>1 DEF TickType, Deciding
<1>5. CASE Reader(t)
  BY <1>5, ReadersGo DEF Deciding
<1>6. CASE TickDue(t) \/ TickFailures(t)
  BY <1>1, <1>2, <1>6 DEF TickDue, TickFailures, Deciding
<1>7. CASE TickNote(t)
  BY <1>1, <1>2, <1>7 DEF TickNote, Deciding
<1>8. QED
  BY <1>1, <1>3, <1>b, <1>c, <1>d, <1>4, <1>5, <1>6, <1>7
     DEF Reader, TickStep, TickCrash, TickEscalate, TickAbandon, TickFinish, TickPromote

\* The last of the gates leads to a spawn, to a stop, or, unconfigured and with no such brief
\* pending, to a brief.
LEMMA BudgetDecides ==
    ASSUME TypeOK, NEW t \in Ticks, TickBudget(t)
    PROVE  /\ \/ tick'[t].pc \in {"idle", "spawn"}
              \/ /\ tick'[t].pc = "escalate" /\ tick'[t].note = "no_worker_config"
                 /\ tick'[t].now = tick[t].now /\ tick'[t].row = tick[t].row
                 /\ ~tick[t].row.configured
                 /\ ~escalation_is_pending("no_worker_config")
           /\ \A u \in Ticks \ {t} : tick'[u] = tick[u]
<1>0. tick[t] \in TickType
  BY DEF TypeOK
<1>1. CASE Stop(t) \/ Goto(t, "spawn")
  BY <1>1, StopGoes, GotoGoes
<1>2. CASE Tick(t, [tick[t] EXCEPT !.pc = "escalate", !.note = "no_worker_config"])
           /\ ~tick[t].row.configured /\ ~escalation_is_pending("no_worker_config")
  BY <1>0, <1>2 DEF Tick, TypeOK, TickType
<1>3. QED BY <1>1, <1>2 DEF TickBudget

\* The preflight stops, or takes an instant later than all that is recorded.
LEMMA PreflightGoes ==
    ASSUME TypeOK, NEW t \in Ticks, TickPreflight(t)
    PROVE  /\ \/ tick'[t].pc = "idle"
              \/ /\ tick'[t].pc = "scan" /\ tick'[t].row = tick[t].row
                 /\ \A e \in log : e.ts < tick'[t].now
           /\ tick'[t].pc \in {"idle", "scan"}
           /\ \A u \in Ticks \ {t} : tick'[u] = tick[u]
<1>1. CASE Stop(t)
  BY <1>1, StopGoes
<1>2. CASE ~Stop(t)
  <2>1. PICK n \in Instants :
          IsNow(n) /\ Tick(t, [tick[t] EXCEPT !.now = n, !.pc = "scan"])
    BY <1>2 DEF TickPreflight
  <2>2. /\ tick'[t].pc = "scan" /\ tick'[t].row = tick[t].row /\ tick'[t].now = n
        /\ \A u \in Ticks \ {t} : tick'[u] = tick[u]
    BY <2>1 DEF Tick, TypeOK, TickType
  <2>3. QED BY <2>1, <2>2, NowIsLater
<1>3. QED BY <1>1, <1>2

\* A block leads to its brief.
LEMMA BlockDecides ==
    ASSUME TypeOK, NEW t \in Ticks, TickBlock(t)
    PROVE  /\ tick'[t].pc = "escalate" /\ tick'[t].note = "consecutive_failures"
           /\ tick'[t].now = tick[t].now /\ tick'[t].row = tick[t].row
           /\ \A u \in Ticks \ {t} : tick'[u] = tick[u]
BY DEF TickBlock, Tick, TypeOK, TickType

-----------------------------------------------------------------------------
(* No mission is blocked for one attempt alone *)

Struck == Cardinality(FailedAttempts) >= 2

\* A mission that is blocked, or about to be, has two attempts that failed.
StrikesCounted ==
    /\ \A t \in Ticks : tick[t].pc = "block" => Struck
    /\ \A t \in Ticks :
          tick[t].pc = "escalate" /\ tick[t].note = "consecutive_failures" => Struck
    /\ \A e \in Briefs : e.note = "consecutive_failures" => Struck

\* The failed attempts are finitely many, and no step loses one.
LEMMA FailedStay ==
    ASSUME TypeOK, TypeOK', [Next]_vars
    PROVE  /\ IsFiniteSet(FailedAttempts)
           /\ Struck => Struck'
<1>1. IsFiniteSet(Attempts \cup {NoAttempt})
  BY MissionsAssumption, FS_AddElement
<1>2. FailedAttempts \subseteq Attempts \cup {NoAttempt}
  BY DEF FailedAttempts, Outcomes, OfKind, TypeOK, EventType
<1>3. FailedAttempts' \subseteq Attempts \cup {NoAttempt}
  BY DEF FailedAttempts, Outcomes, OfKind, TypeOK, EventType
<1>4. IsFiniteSet(FailedAttempts) /\ IsFiniteSet(FailedAttempts')
  BY <1>1, <1>2, <1>3, FS_Subset
<1>5. FailedAttempts \subseteq FailedAttempts'
  BY LogGrows DEF FailedAttempts, Outcomes, OfKind, IsFailure
<1>6. Cardinality(FailedAttempts) <= Cardinality(FailedAttempts')
  BY <1>4, <1>5, FS_Subset
<1>7. Cardinality(FailedAttempts) \in Nat /\ Cardinality(FailedAttempts') \in Nat
  BY <1>4, FS_CardinalityType
<1>8. QED BY <1>4, <1>6, <1>7 DEF Struck

\* A finite set with fewer than two members has at most one.
LEMMA LoneMember ==
    ASSUME NEW S, IsFiniteSet(S), ~(Cardinality(S) >= 2), NEW x \in S, NEW y \in S
    PROVE  x = y
<1>1. SUFFICES ASSUME x # y PROVE FALSE
  OBVIOUS
<1>2. IsFiniteSet({x}) /\ Cardinality({x}) = 1
  BY FS_Singleton
<1>a. y \notin {x}
  BY <1>1
<1>b. Cardinality({x} \cup {y}) = 2
  BY <1>2, <1>a, FS_AddElement
<1>3. {x} \cup {y} \subseteq S
  OBVIOUS
<1>4. Cardinality({x} \cup {y}) <= Cardinality(S)
  BY <1>3, FS_Subset
<1>5. Cardinality(S) \in Nat
  BY FS_CardinalityType
<1>6. QED BY <1>b, <1>4, <1>5

\* The events of a streak that are all about one attempt are told apart by their
\* kind, and there are two kinds: a streak of three has two attempts.
LEMMA StreakIsStrikes ==
    ASSUME TypeOK, OneAtATime, IsFiniteSet(FailedAttempts),
           ~(Cardinality(FailureStreak) < FailureLimit)
    PROVE  Struck
<1> SUFFICES ASSUME ~Struck PROVE FALSE
  OBVIOUS
<1>1. Outcomes = Closings
  BY DEF Outcomes, Closings, OfKind, OneAtATime, ChildrenOnly
<1>2. FailureStreak \subseteq Closings
  BY <1>1 DEF FailureStreak
<1>3. \A d, e \in FailureStreak : d.attempt = e.attempt
  <2>1. SUFFICES ASSUME NEW d \in FailureStreak, NEW e \in FailureStreak
                 PROVE  d.attempt = e.attempt
    OBVIOUS
  <2>2. d.attempt \in FailedAttempts /\ e.attempt \in FailedAttempts
    BY DEF FailureStreak, FailedAttempts
  <2>3. QED BY <2>2, LoneMember DEF Struck
<1> DEFINE K == {"dispatched", "dispatch_abandoned"}
           f == [e \in FailureStreak |-> e.kind]
<1>4. f \in [FailureStreak -> K]
  BY <1>2 DEF Closings, OfKind
<1>5. \A d, e \in FailureStreak : f[d] = f[e] => d = e
  BY <1>2, <1>3 DEF OneAtATime, EachOnce
<1>6. f \in Injection(FailureStreak, K)
  BY <1>4, <1>5 DEF Injection, IsInjective
<1>7. IsFiniteSet(K) /\ Cardinality(K) = 2
  <2>1. IsFiniteSet({"dispatched"}) /\ Cardinality({"dispatched"}) = 1
    BY FS_Singleton
  <2>2. /\ IsFiniteSet({"dispatched"} \cup {"dispatch_abandoned"})
        /\ Cardinality({"dispatched"} \cup {"dispatch_abandoned"}) = 2
    BY <2>1, FS_AddElement
  <2>3. K = {"dispatched"} \cup {"dispatch_abandoned"}
    OBVIOUS
  <2>4. QED BY <2>2, <2>3
<1> HIDE DEF f, K
<1>8. IsFiniteSet(FailureStreak) /\ Cardinality(FailureStreak) <= Cardinality(K)
  BY <1>6, <1>7, FS_Injection
<1>9. Cardinality(FailureStreak) \in Nat
  BY <1>8, FS_CardinalityType
<1>10. QED BY <1>7, <1>8, <1>9 DEF FailureLimit

\* Every step keeps the count behind a block.
LEMMA StrikesStep ==
    ASSUME Sequential, TypeOK, TypeOK', OneAtATime, StrikesCounted, [Next]_vars
    PROVE  StrikesCounted'
<1>1. IsFiniteSet(FailedAttempts) /\ (Struck => Struck')
  BY FailedStay
<1>2. ASSUME \A t \in Ticks : ~TickEscalate(t) PROVE Briefs' = Briefs
  BY <1>2, BriefsStay
<1>3. ASSUME NEW t \in Ticks, TickEscalate(t) PROVE StrikesCounted'
  <2> DEFINE e == Event("escalated", tick[t].now, NoAttempt, tick[t].note)
  <2>1. tick[t].pc = "escalate" /\ log' = log \cup {e} /\ e.note = tick[t].note
    BY <1>3 DEF TickEscalate, Event
  <2> HIDE DEF e
  <2>2. Briefs' \subseteq Briefs \cup {e}
    BY <2>1 DEF Briefs, OfKind
  <2>3. tick'[t].pc = "idle" /\ \A u \in Ticks \ {t} : tick'[u] = tick[u]
    BY <1>3, StopGoes DEF TickEscalate
  <2>4. QED BY <1>1, <2>1, <2>2, <2>3 DEF StrikesCounted
<1>4. ASSUME NEW t \in Ticks, ~TickEscalate(t),
             TickLoad(t) \/ CheckLoad(t) \/ TickStep(t) \/ TickCrash(t)
      PROVE  StrikesCounted'
  <2>1. Briefs' = Briefs
    BY <1>2, <1>4 DEF Sequential
  <2>2. CASE TickBlock(t)
    <3>1. Struck
      BY <2>2 DEF TickBlock, StrikesCounted
    <3>2. QED BY <1>1, <3>1 DEF StrikesCounted
  <2>3. CASE TickBudget(t)
    BY <1>1, <2>1, <2>3, BudgetDecides DEF StrikesCounted
  <2>4. CASE TickPreflight(t)
    <3>1. tick'[t].pc \in {"idle", "scan"} /\ \A u \in Ticks \ {t} : tick'[u] = tick[u]
      BY <2>4, PreflightGoes
    <3>2. QED BY <1>1, <2>1, <3>1 DEF StrikesCounted
  <2>5. CASE ~TickBlock(t) /\ ~TickBudget(t) /\ ~TickPreflight(t)
    <3>1. /\ \/ tick'[t].pc \notin {"block", "escalate"}
             \/ tick'[t].pc = "block" /\ TickFailures(t)
          /\ \A u \in Ticks \ {t} : tick'[u] = tick[u]
      BY <1>4, <2>5, TickDecides DEF Deciding, Undecided
    <3>2. CASE tick'[t].pc \notin {"block", "escalate"}
      BY <1>1, <2>1, <3>1, <3>2 DEF StrikesCounted
    <3>3. CASE tick'[t].pc = "block" /\ TickFailures(t)
      <4>1. ~(Cardinality(FailureStreak) < FailureLimit)
        <5>1. Goto(t, "gate") => tick'[t].pc = "gate"
          BY GotoGoes
        <5>2. QED BY <3>3, <5>1 DEF TickFailures
      <4>2. Struck
        BY <1>1, <4>1, StreakIsStrikes
      <4>3. QED BY <1>1, <4>2 DEF StrikesCounted
    <3>4. QED BY <3>1, <3>2, <3>3
  <2>6. QED BY <2>2, <2>3, <2>4, <2>5
<1>5. CASE tick' = tick /\ \A t \in Ticks : ~TickEscalate(t)
  BY <1>1, <1>2, <1>5 DEF StrikesCounted
<1>6. QED
  BY <1>3, <1>4, <1>5
     DEF Next, ManualDispatch, WorkerStep, WorkerGate, WorkerPromote, WorkerBegin,
         WorkerReturn, WorkerClose, WorkerDie, WorkerOverrun, External, SetState,
         SetCategory, SetWorker, vars

\* The failure guard of a sequential coordinator never blocks a mission for one
\* attempt alone, however often that attempt is counted.
THEOREM NeverForOneAloneAlways ==
    ASSUME Sequential
    PROVE  Spec => []NeverForOneAlone
<1>1. Init => StrikesCounted
  <2>1. Init => Briefs = {}
    BY DEF Init, Briefs, OfKind
  <2>2. ASSUME Init, NEW t \in Ticks PROVE tick[t].pc = "idle"
    <3>1. tick[t] = IdleTick
      BY <2>2 DEF Init
    <3>2. IdleTick.pc = "idle"
      BY DEF IdleTick
    <3>3. QED BY <3>1, <3>2
  <2>3. QED BY <2>1, <2>2 DEF StrikesCounted
<1>2. TypeOK /\ TypeOK' /\ OneAtATime /\ StrikesCounted /\ [Next]_vars => StrikesCounted'
  BY StrikesStep
<1>3. StrikesCounted => NeverForOneAlone
  BY DEF StrikesCounted, NeverForOneAlone, Briefs, Struck
<1>4. QED BY <1>1, <1>2, <1>3, OneAtATimeAlways, PTL DEF Spec

-----------------------------------------------------------------------------
(* A brief is written once per matter *)

\* Only a configured mission has had a worker, and a tick that read none
\* configured neither meets one nor starts one.
Staffing ==
    /\ (\E a \in Attempts : worker[a].pc # "unborn") => configured
    /\ \A t \in Ticks : tick[t].pc # "idle" =>
         /\ tick[t].row.configured => configured
         /\ ~tick[t].row.configured => /\ tick[t].pc # "spawn"
                                       /\ \A a \in Attempts : worker[a].pc = "unborn"

\* Every brief with this reason is older than a change of state at or before now.
Answered(reason, now) ==
    \A e \in Briefs : e.note = reason => \E s \in Changes : e.ts < s.ts /\ s.ts <= now

\* A deciding tick is later than every brief and, until it acts, an unconfigured
\* one than every change; a tick that is about to brief has been answered.
BriefsInOrder ==
    /\ \A t \in Ticks : tick[t].pc \in Deciding => \A e \in Briefs : e.ts < tick[t].now
    /\ \A t \in Ticks :
         tick[t].pc \in Undecided /\ ~tick[t].row.configured =>
             \A s \in Changes : s.ts <= tick[t].now
    /\ \A t \in Ticks : tick[t].pc = "escalate" => Answered(tick[t].note, tick[t].now)
    /\ \A f \in Briefs : \A e \in Briefs :
         e.note = f.note /\ e.ts < f.ts => \E s \in Changes : e.ts < s.ts /\ s.ts <= f.ts

\* A step of a running tick keeps the row it loaded, and only the last gate spawns.
LEMMA RowStays ==
    ASSUME TypeOK, NEW t \in Ticks, TickStep(t) \/ TickCrash(t)
    PROVE  /\ \/ tick'[t].pc = "idle"
              \/ /\ tick[t].pc # "idle" /\ tick'[t].row = tick[t].row
                 /\ tick'[t].pc = "spawn" => tick[t].row.configured
           /\ \A u \in Ticks \ {t} : tick'[u] = tick[u]
<1>0. tick[t] \in TickType
  BY DEF TypeOK
<1>1. CASE Stop(t)
  BY <1>1, StopGoes
<1>2. ASSUME NEW pc, Goto(t, pc)
      PROVE  /\ tick'[t].pc = pc /\ tick'[t].row = tick[t].row
             /\ \A u \in Ticks \ {t} : tick'[u] = tick[u]
  BY <1>0, <1>2 DEF Goto, Tick, TypeOK, TickType
<1>3. CASE TickPreflight(t)
  <2>1. tick[t].pc # "idle"
    BY <1>3 DEF TickPreflight
  <2>2. QED BY <1>3, <2>1, PreflightGoes
<1>4. CASE CheckClock(t)
  <2>1. PICK n \in Instants : Tick(t, [tick[t] EXCEPT !.now = n, !.pc = "evaluate"])
    BY <1>4 DEF CheckClock
  <2>2. tick[t].pc # "idle"
    BY <1>4 DEF CheckClock
  <2>3. QED BY <1>0, <2>1, <2>2 DEF Tick, TypeOK, TickType
<1>5. CASE Reader(t)
  BY <1>5, ReadersGo
<1>6. CASE TickEvaluate(t)
  <2>1. PICK note : Tick(t, [tick[t] EXCEPT !.pc = "record", !.seen = landed, !.note = note])
    BY <1>6 DEF TickEvaluate
  <2>2. tick[t].pc # "idle"
    BY <1>6 DEF TickEvaluate
  <2>3. QED BY <1>0, <2>1, <2>2 DEF Tick, TypeOK, TickType
<1>7. CASE TickRecord(t)
  <2>1. tick[t].pc # "idle"
    BY <1>7 DEF TickRecord
  <2>2. CASE Tick(t, [tick[t] EXCEPT !.pc = "finish", !.now = 0])
    BY <1>0, <2>1, <2>2 DEF Tick, TypeOK, TickType
  <2>3. QED BY <1>1, <1>7, <2>2 DEF TickRecord
<1>8. CASE TickBlock(t)
  <2>1. tick[t].pc # "idle"
    BY <1>8 DEF TickBlock
  <2>2. QED BY <1>8, <2>1, BlockDecides
<1>9. CASE TickBudget(t)
  <2>1. tick[t].pc # "idle"
    BY <1>9 DEF TickBudget
  <2>2. CASE Goto(t, "spawn") /\ tick[t].row.configured
    BY <1>2, <2>1, <2>2
  <2>3. CASE Tick(t, [tick[t] EXCEPT !.pc = "escalate", !.note = "no_worker_config"])
    BY <1>0, <2>1, <2>3 DEF Tick, TypeOK, TickType
  <2>4. QED BY <1>1, <1>9, <2>2, <2>3 DEF TickBudget
<1>10. CASE TickSpawn(t)
  <2>1. PICK a \in Attempts : Tick(t, [tick[t] EXCEPT !.pc = "note", !.attempt = a])
    BY <1>10 DEF TickSpawn
  <2>2. tick[t].pc # "idle"
    BY <1>10 DEF TickSpawn
  <2>3. QED BY <1>0, <2>1, <2>2 DEF Tick, TypeOK, TickType
<1>11. CASE TickDue(t) \/ TickFailures(t) \/ TickNote(t)
  <2>1. tick[t].pc # "idle"
    BY <1>11 DEF TickDue, TickFailures, TickNote
  <2>2. Stop(t) \/ \E pc \in {"evaluate", "failures", "gate", "block", "promote"} : Goto(t, pc)
    BY <1>11 DEF TickDue, TickFailures, TickNote
  <2>3. QED BY <1>1, <1>2, <2>1, <2>2
<1>12. QED
  BY <1>1, <1>3, <1>4, <1>5, <1>6, <1>7, <1>8, <1>9, <1>10, <1>11
     DEF Reader, TickStep, TickCrash, TickEscalate, TickAbandon, TickFinish, TickPromote

\* The row a tick loads is the mission's.
LEMMA LoadGoes ==
    ASSUME TypeOK, NEW t \in Ticks, TickLoad(t) \/ CheckLoad(t)
    PROVE  /\ tick'[t].pc = "loaded" /\ tick'[t].row.configured = configured
           /\ \A u \in Ticks \ {t} : tick'[u] = tick[u]
<1>1. Row.configured = configured
  BY DEF Row
<1>2. /\ [IdleTick EXCEPT !.pc = "loaded", !.row = Row].pc = "loaded"
      /\ [IdleTick EXCEPT !.pc = "loaded", !.row = Row].row = Row
      /\ [IdleTick EXCEPT !.pc = "loaded", !.row = Row, !.forced = TRUE].pc = "loaded"
      /\ [IdleTick EXCEPT !.pc = "loaded", !.row = Row, !.forced = TRUE].row = Row
  BY DEF IdleTick
<1>3. ASSUME NEW r, Tick(t, r)
      PROVE  tick'[t] = r /\ \A u \in Ticks \ {t} : tick'[u] = tick[u]
  BY <1>3 DEF Tick, TypeOK
<1>4. QED BY <1>1, <1>2, <1>3 DEF TickLoad, CheckLoad

\* No step staffs an unconfigured mission.
LEMMA StaffingStep ==
    ASSUME Sequential, TypeOK, Staffing, [Next]_vars
    PROVE  Staffing'
<1>1. ASSUME NEW t \in Ticks, TickLoad(t) \/ CheckLoad(t)
      PROVE  Staffing'
  <2>1. UNCHANGED <<configured, worker>>
    BY <1>1 DEF TickLoad, CheckLoad, mission
  <2>2. \A u \in Ticks : u = t
    BY DEF Sequential
  <2>3. tick'[t].pc = "loaded" /\ tick'[t].row.configured = configured
    BY <1>1, LoadGoes
  <2>4. QED BY <2>1, <2>2, <2>3 DEF Staffing
<1>2. ASSUME NEW t \in Ticks, TickStep(t) \/ TickCrash(t)
      PROVE  Staffing'
  <2>1. UNCHANGED configured
    BY <1>2
       DEF TickCrash, TickStep, TickPreflight, CheckClock, TickEscalate, TickScan,
           TickProbe, TickAbandon, TickDue, TickEvaluate, TickRecord, TickFinish,
           TickFailures, TickBlock, TickGate, TickFlight, TickBudget, TickSpawn, TickNote,
           TickPromote, mission
  <2>2. \A u \in Ticks : u = t
    BY DEF Sequential
  <2>3. \/ tick'[t].pc = "idle"
        \/ /\ tick[t].pc # "idle" /\ tick'[t].row = tick[t].row
           /\ tick'[t].pc = "spawn" => tick[t].row.configured
    BY <1>2, RowStays
  <2>4. CASE TickSpawn(t)
    <3>1. tick[t].pc = "spawn" /\ tick[t].row.configured
      BY <2>4 DEF TickSpawn, Staffing
    <3>2. configured
      BY <3>1 DEF Staffing
    <3>3. QED BY <2>1, <2>2, <2>3, <3>1, <3>2 DEF Staffing
  <2>5. CASE ~TickSpawn(t)
    <3>1. worker' = worker
      BY <1>2, <2>5
         DEF TickCrash, TickStep, TickPreflight, CheckClock, TickEscalate, TickScan,
             TickProbe, TickAbandon, TickDue, TickEvaluate, TickRecord, TickFinish,
             TickFailures, TickBlock, TickGate, TickFlight, TickBudget, TickNote,
             TickPromote
    <3>2. QED BY <2>1, <2>2, <2>3, <3>1 DEF Staffing
  <2>6. QED BY <2>4, <2>5
<1>3. ASSUME NEW a \in Attempts,
             ManualDispatch(a) \/ WorkerStep(a) \/ WorkerDie(a) \/ WorkerOverrun(a)
      PROVE  Staffing'
  <2>1. worker[a].pc # "unborn" /\ UNCHANGED <<configured, tick>>
    BY <1>3
       DEF ManualDispatch, WorkerStep, WorkerGate, WorkerPromote, WorkerBegin, WorkerReturn,
           WorkerClose, WorkerDie, WorkerOverrun, Alive, Sequential, mission
  <2>2. \A b \in Attempts \ {a} : worker'[b] = worker[b]
    BY <1>3
       DEF ManualDispatch, WorkerStep, WorkerGate, WorkerPromote, WorkerBegin, WorkerReturn,
           WorkerClose, WorkerDie, WorkerOverrun, Enter, Exit, Work, Sequential, TypeOK
  <2>3. QED BY <2>1, <2>2 DEF Staffing
<1>4. CASE External \/ UNCHANGED vars
  <2>1. UNCHANGED <<tick, worker>> /\ (configured => configured')
    BY <1>4 DEF External, SetState, SetCategory, SetWorker, vars
  <2>2. QED BY <2>1 DEF Staffing
<1>5. QED BY <1>1, <1>2, <1>3, <1>4 DEF Next

\* A step that writes no brief, adds a change of state only past the reach of an
\* undecided tick, and makes no tick begin, block or brief.
LEMMA OrderKept ==
    ASSUME BriefsInOrder, Briefs' = Briefs, Changes \subseteq Changes',
           \A t \in Ticks : tick'[t].pc \in Deciding =>
               /\ tick[t].pc \in Deciding
               /\ tick'[t].now = tick[t].now /\ tick'[t].row = tick[t].row,
           \A t \in Ticks :
               tick'[t].pc \in Undecided /\ ~tick'[t].row.configured =>
                   tick[t].pc \in Undecided /\ Changes' = Changes,
           \A t \in Ticks : tick'[t].pc = "escalate" => tick'[t] = tick[t]
    PROVE  BriefsInOrder'
<1>1. \A t \in Ticks : tick'[t].pc \in Deciding => \A e \in Briefs' : e.ts < tick'[t].now
  BY DEF BriefsInOrder
<1>2. \A t \in Ticks :
        tick'[t].pc \in Undecided /\ ~tick'[t].row.configured =>
            \A s \in Changes' : s.ts <= tick'[t].now
  BY DEF BriefsInOrder, Deciding
<1>3. \A t \in Ticks : tick'[t].pc = "escalate" => \A e \in Briefs' :
        e.note = tick'[t].note => \E s \in Changes' : e.ts < s.ts /\ s.ts <= tick'[t].now
  <2>1. SUFFICES ASSUME NEW t \in Ticks, tick'[t].pc = "escalate",
                        NEW e \in Briefs', e.note = tick'[t].note
                 PROVE  \E s \in Changes' : e.ts < s.ts /\ s.ts <= tick'[t].now
    OBVIOUS
  <2>2. tick'[t] = tick[t] /\ e \in Briefs
    BY <2>1
  <2>3. Answered(tick[t].note, tick[t].now)
    BY <2>1, <2>2 DEF BriefsInOrder
  <2>4. \E s \in Changes : e.ts < s.ts /\ s.ts <= tick[t].now
    BY <2>1, <2>2, <2>3 DEF Answered
  <2>5. QED BY <2>2, <2>4
<1>4. \A f \in Briefs' : \A e \in Briefs' :
        e.note = f.note /\ e.ts < f.ts => \E s \in Changes' : e.ts < s.ts /\ s.ts <= f.ts
  BY DEF BriefsInOrder
<1>5. QED BY <1>1, <1>2, <1>3, <1>4 DEF BriefsInOrder, Answered

\* What the types say of the instants compared.
LEMMA InstantsTyped ==
    ASSUME TypeOK
    PROVE  /\ \A t \in Ticks : tick[t].now \in Nat
           /\ \A e \in Briefs : e.ts \in Nat
           /\ \A s \in Changes : s.ts \in Nat
BY DEF TypeOK, TickType, EventType, Briefs, Changes, OfKind

\* A brief about to be written has been answered since every older one.
LEMMA EscalateInOrder ==
    ASSUME Sequential, TypeOK, BriefsInOrder, NEW t \in Ticks, TickEscalate(t)
    PROVE  BriefsInOrder'
<1> DEFINE f == Event("escalated", tick[t].now, NoAttempt, tick[t].note)
<1>1. /\ log' = log \cup {f} /\ tick[t].pc = "escalate"
      /\ f.kind = "escalated" /\ f.ts = tick[t].now /\ f.note = tick[t].note
  BY DEF TickEscalate, Event
<1> HIDE DEF f
<1>2. Briefs' = Briefs \cup {f} /\ Changes' = Changes
  BY <1>1 DEF Briefs, Changes, OfKind
<1>3. \A u \in Ticks : tick'[u].pc = "idle"
  BY StopGoes DEF TickEscalate, Sequential
<1>4. \A e \in Briefs : e.ts < f.ts /\ e.ts \in Nat /\ f.ts \in Nat
  BY <1>1, InstantsTyped DEF BriefsInOrder, Deciding
<1>5. Answered(f.note, f.ts)
  BY <1>1 DEF BriefsInOrder
<1>6. ASSUME NEW g \in Briefs', NEW e \in Briefs', e.note = g.note, e.ts < g.ts
      PROVE  \E s \in Changes : e.ts < s.ts /\ s.ts <= g.ts
  <2>1. CASE e \in Briefs /\ g \in Briefs
    BY <1>6, <2>1 DEF BriefsInOrder
  <2>2. CASE e \in Briefs /\ g = f
    BY <1>5, <1>6, <2>2 DEF Answered
  <2>3. CASE e = f
    <3>1. g \in Briefs => g.ts < e.ts /\ g.ts \in Nat /\ e.ts \in Nat
      BY <1>4, <2>3
    <3>2. f.ts \in Nat
      BY <1>1, InstantsTyped
    <3>3. QED BY <1>2, <1>6, <2>3, <3>1, <3>2
  <2>4. QED BY <1>2, <2>1, <2>2, <2>3
<1>7. QED BY <1>2, <1>3, <1>6 DEF BriefsInOrder, Deciding, Undecided

\* A block is the change of state that answers every older brief.
LEMMA BlockInOrder ==
    ASSUME Sequential, TypeOK, BriefsInOrder, NEW t \in Ticks, TickBlock(t)
    PROVE  BriefsInOrder'
<1> DEFINE s == Event("state_changed", tick[t].now, NoAttempt, "blocked")
<1>1. /\ log' = log \cup {s} /\ tick[t].pc = "block"
      /\ s.kind = "state_changed" /\ s.ts = tick[t].now
  BY DEF TickBlock, Event
<1> HIDE DEF s
<1>2. Briefs' = Briefs /\ Changes' = Changes \cup {s}
  BY <1>1 DEF Briefs, Changes, OfKind
<1>3. tick'[t].pc = "escalate" /\ tick'[t].now = tick[t].now /\ \A u \in Ticks : u = t
  BY BlockDecides DEF Sequential
<1>4. \A e \in Briefs : e.ts < tick[t].now
  BY <1>1 DEF BriefsInOrder, Deciding
<1>5. s.ts <= tick'[t].now /\ tick[t].now \in Nat
  BY <1>1, <1>3, InstantsTyped
<1>6. \A u \in Ticks : tick'[u].pc = "escalate" => \A e \in Briefs' :
        e.note = tick'[u].note => \E c \in Changes' : e.ts < c.ts /\ c.ts <= tick'[u].now
  BY <1>1, <1>2, <1>3, <1>4, <1>5
<1>7. \A f \in Briefs' : \A e \in Briefs' :
        e.note = f.note /\ e.ts < f.ts => \E c \in Changes' : e.ts < c.ts /\ c.ts <= f.ts
  BY <1>2 DEF BriefsInOrder
<1>8. \A u \in Ticks : tick'[u].pc \in Deciding => \A e \in Briefs' : e.ts < tick'[u].now
  BY <1>2, <1>3, <1>4
<1>9. \A u \in Ticks : tick'[u].pc \notin Undecided
  BY <1>3 DEF Undecided
<1>10. QED BY <1>6, <1>7, <1>8, <1>9 DEF BriefsInOrder, Answered

\* The last gate of an unconfigured mission briefs only when a change has answered the
\* last such brief, and that change is not newer than the tick.
LEMMA BudgetInOrder ==
    ASSUME Sequential, TypeOK, BriefsInOrder, NEW t \in Ticks, TickBudget(t)
    PROVE  BriefsInOrder'
<1> USE DEF Undecided
<1>1. log' = log /\ tick[t].pc = "budget" /\ \A u \in Ticks : u = t
  BY DEF TickBudget, Sequential
<1>2. Briefs' = Briefs /\ Changes' = Changes
  BY <1>1 DEF Briefs, Changes, OfKind
<1>3. CASE tick'[t].pc \in {"idle", "spawn"}
  BY <1>1, <1>2, <1>3, OrderKept DEF Deciding
<1>4. CASE /\ tick'[t].pc = "escalate" /\ tick'[t].note = "no_worker_config"
           /\ tick'[t].now = tick[t].now /\ ~tick[t].row.configured
           /\ ~escalation_is_pending("no_worker_config")
  <2>1. \A e \in Briefs : e.note = "no_worker_config" =>
          \E s \in Changes : e.ts < s.ts /\ s.ts <= tick[t].now
    <3>1. SUFFICES ASSUME NEW e \in Briefs, e.note = "no_worker_config"
                   PROVE  \E s \in Changes : e.ts < s.ts /\ s.ts <= tick[t].now
      OBVIOUS
    <3>2. PICK s \in Changes : ~(s.ts <= e.ts)
      BY <1>4, <3>1 DEF escalation_is_pending, Briefs, Changes
    <3>3. s.ts <= tick[t].now
      BY <1>1, <1>4, <3>2 DEF BriefsInOrder
    <3>4. e.ts < s.ts
      BY <3>2, InstantsTyped
    <3>5. QED BY <3>2, <3>3, <3>4
  <2>2. \A e \in Briefs : e.ts < tick[t].now
    BY <1>1 DEF BriefsInOrder, Deciding
  <2>3. \A f \in Briefs : \A e \in Briefs :
          e.note = f.note /\ e.ts < f.ts => \E c \in Changes : e.ts < c.ts /\ c.ts <= f.ts
    BY DEF BriefsInOrder
  <2>4. \A u \in Ticks : tick'[u].pc = "escalate" /\ tick'[u].note = "no_worker_config"
                            /\ tick'[u].now = tick[t].now
    BY <1>1, <1>4
  <2>5. QED BY <1>2, <2>1, <2>2, <2>3, <2>4 DEF BriefsInOrder, Answered
<1>5. QED BY <1>3, <1>4, BudgetDecides

\* A tick that begins to decide is later than all that is on record.
LEMMA PreflightInOrder ==
    ASSUME Sequential, TypeOK, TypeOK', BriefsInOrder, NEW t \in Ticks, TickPreflight(t)
    PROVE  BriefsInOrder'
<1> USE DEF Undecided
<1>1. log' = log /\ \A u \in Ticks : u = t
  BY DEF TickPreflight, Sequential
<1>2. Briefs' = Briefs /\ Changes' = Changes
  BY <1>1 DEF Briefs, Changes, OfKind
<1>3. CASE tick'[t].pc = "idle"
  BY <1>1, <1>2, <1>3, OrderKept DEF Deciding
<1>4. CASE tick'[t].pc = "scan" /\ \A e \in log : e.ts < tick'[t].now
  <2>1. /\ \A e \in Briefs : e.ts < tick'[t].now
        /\ \A s \in Changes : s.ts < tick'[t].now
    BY <1>4 DEF Briefs, Changes, OfKind
  <2>2. tick'[t].now \in Nat
    BY DEF TypeOK, TickType
  <2>3. \A s \in Changes : s.ts <= tick'[t].now
    BY <2>1, <2>2, InstantsTyped
  <2>4. \A f \in Briefs : \A e \in Briefs :
          e.note = f.note /\ e.ts < f.ts => \E c \in Changes : e.ts < c.ts /\ c.ts <= f.ts
    BY DEF BriefsInOrder
  <2>5. \A u \in Ticks : tick'[u].pc # "escalate"
    BY <1>1, <1>4
  <2>6. QED BY <1>1, <1>2, <2>1, <2>3, <2>4, <2>5 DEF BriefsInOrder
<1>5. QED BY <1>3, <1>4, PreflightGoes

\* Every step keeps the briefs in order, where the owner sets no state.
LEMMA OrderStep ==
    ASSUME Sequential, OwnerStates = {}, TypeOK, TypeOK', Staffing, BriefsInOrder,
           [Next]_vars
    PROVE  BriefsInOrder'
<1>1. Changes \subseteq Changes'
  BY LogGrows DEF Changes, OfKind
<1>2. ASSUME NEW t \in Ticks, TickLoad(t) \/ CheckLoad(t) \/ TickStep(t) \/ TickCrash(t)
      PROVE  BriefsInOrder'
  <2>1. CASE TickEscalate(t) \/ TickBlock(t) \/ TickBudget(t) \/ TickPreflight(t)
    BY <2>1, EscalateInOrder, BlockInOrder, BudgetInOrder, PreflightInOrder
  <2>2. CASE ~TickEscalate(t) /\ ~TickBlock(t) /\ ~TickBudget(t) /\ ~TickPreflight(t)
    <3>1. /\ \/ tick'[t].pc \notin Deciding
             \/ /\ tick[t].pc \in Undecided
                /\ tick'[t].pc \in Undecided \cup {"block"}
                /\ tick'[t].now = tick[t].now /\ tick'[t].row = tick[t].row
          /\ \A u \in Ticks : u = t
      BY <1>2, <2>2, TickDecides DEF Sequential
    <3>2. Briefs' = Briefs
      BY <2>2, <3>1, BriefsStay
    <3>3. CASE tick'[t].pc \notin Deciding
      BY <1>1, <3>1, <3>2, <3>3, OrderKept DEF Deciding
    <3>4. CASE tick[t].pc \in Undecided
                 /\ tick'[t].pc \in Undecided \cup {"block"}
                 /\ tick'[t].now = tick[t].now /\ tick'[t].row = tick[t].row
      <4>1. log' = log
        BY <1>2, <3>4
           DEF TickLoad, CheckLoad, TickCrash, TickStep, TickPreflight, CheckClock,
               TickEscalate, TickScan, TickProbe, TickAbandon, TickDue, TickEvaluate,
               TickRecord, TickFinish, TickFailures, TickBlock, TickGate, TickFlight,
               TickBudget, TickSpawn, TickNote, TickPromote, Undecided
      <4>2. Changes' = Changes
        BY <4>1 DEF Changes, OfKind
      <4>3. QED BY <3>1, <3>2, <3>4, <4>2, OrderKept DEF Deciding, Undecided
    <3>5. QED BY <3>1, <3>3, <3>4
  <2>3. QED BY <2>1, <2>2
<1>3. ASSUME NEW a \in Attempts,
             ManualDispatch(a) \/ WorkerStep(a) \/ WorkerDie(a) \/ WorkerOverrun(a)
      PROVE  BriefsInOrder'
  <2>1. worker[a].pc # "unborn" /\ tick' = tick
    BY <1>3
       DEF ManualDispatch, WorkerStep, WorkerGate, WorkerPromote, WorkerBegin, WorkerReturn,
           WorkerClose, WorkerDie, WorkerOverrun, Alive, Sequential
  <2>2. Briefs' = Briefs
    <3>1. CASE log' = log
      BY <3>1 DEF Briefs, OfKind
    <3>2. CASE WorkerPromote(a)
      BY <3>2 DEF WorkerPromote, Event, Briefs, OfKind
    <3>3. CASE WorkerBegin(a)
      BY <3>1, <3>3 DEF WorkerBegin, Event, Briefs, OfKind
    <3>4. CASE WorkerClose(a)
      BY <3>4 DEF WorkerClose, Event, Briefs, OfKind
    <3>5. QED
      BY <1>3, <3>1, <3>2, <3>3, <3>4
         DEF ManualDispatch, WorkerStep, WorkerGate, WorkerReturn, WorkerDie, WorkerOverrun
  <2>3. \A t \in Ticks : tick[t].pc # "idle" => tick[t].row.configured
    BY <2>1 DEF Staffing
  <2>4. \A t \in Ticks : tick'[t].pc \in Undecided => tick'[t].row.configured
    BY <2>1, <2>3 DEF Undecided
  <2>5. QED BY <1>1, <2>1, <2>2, <2>4, OrderKept
<1>4. CASE External \/ UNCHANGED vars
  <2>1. tick' = tick /\ log' = log
    BY <1>4 DEF External, SetState, SetCategory, SetWorker, vars
  <2>2. Briefs' = Briefs /\ Changes' = Changes
    BY <2>1 DEF Briefs, Changes, OfKind
  <2>3. QED BY <2>1, <2>2, OrderKept
<1>5. QED BY <1>2, <1>3, <1>4 DEF Next

\* Where ticks do not overlap, nothing else starts a worker and the owner leaves the
\* state alone, a brief is written once per matter: two with the same reason have a
\* change of state between them.
THEOREM OneBriefPerMatterAlways ==
    ASSUME Sequential, OwnerStates = {}
    PROVE  Spec => []OneBriefPerMatter
<1>1. Init => Staffing /\ BriefsInOrder
  <2>1. SUFFICES ASSUME Init PROVE Staffing /\ BriefsInOrder
    OBVIOUS
  <2>2. Briefs = {}
    BY <2>1 DEF Init, Briefs, OfKind
  <2>3. ASSUME NEW t \in Ticks PROVE tick[t].pc = "idle"
    <3>1. tick[t] = IdleTick
      BY <2>1 DEF Init
    <3>2. IdleTick.pc = "idle"
      BY DEF IdleTick
    <3>3. QED BY <3>1, <3>2
  <2>4. ASSUME NEW a \in Attempts PROVE worker[a].pc = "unborn"
    <3>1. worker[a] = UnbornWorker
      BY <2>1 DEF Init
    <3>2. UnbornWorker.pc = "unborn"
      BY DEF UnbornWorker
    <3>3. QED BY <3>1, <3>2
  <2>5. QED BY <2>2, <2>3, <2>4 DEF Staffing, BriefsInOrder, Deciding, Undecided
<1>2. TypeOK /\ TypeOK' /\ Staffing /\ BriefsInOrder /\ [Next]_vars
        => Staffing' /\ BriefsInOrder'
  BY StaffingStep, OrderStep
<1>3. BriefsInOrder => OneBriefPerMatter
  BY DEF BriefsInOrder, OneBriefPerMatter, Briefs, Changes
<1>4. QED BY <1>1, <1>2, <1>3, TypeCorrect, PTL DEF Spec
=============================================================================
