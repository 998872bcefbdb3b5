------------------------------ MODULE Missions ------------------------------
(***************************************************************************)
(* The mission coordinator of the `ato` CLI (commands/missions.rs): one    *)
(* mission row, its append-only event log, the coordinator ticks that read *)
(* both and act, the detached workers the ticks spawn, the dispatches and  *)
(* loop runs an operator fires by hand, and the owner's commands.          *)
(*                                                                         *)
(* Every process is a separate OS process over one SQLite file.  No        *)
(* statement is grouped in a transaction, so a step here is one decision   *)
(* read, or one write (an UPDATE with the event row that follows it).      *)
(* Missions never read each other's rows: one mission is enough.  It is a  *)
(* single_cwd mission: the workers edit the repository the criteria are    *)
(* checked in.                                                             *)
(***************************************************************************)
EXTENDS Integers, FiniteSets

CONSTANTS
    Ticks,        \* coordinator processes (`missions tick`, `missions check`)
    Attempts,     \* attempt ids; each names one worker process
    NoAttempt,    \* the attempt of an event that concerns none
    MaxLoops,     \* missions.max_loops
    TokenBudget,  \* missions.token_budget_usd
    CostPerRun,   \* what one finished run adds to the mission's cost
    MaxTime,      \* bound: number of distinct instants
    MaxExternal,  \* bound: number of owner commands and of killed processes
    ManualKinds,  \* dispatches an operator may fire by hand: "manual", "loop"
    ArgvForms,    \* TRUE: named by slug, recognised by ps; FALSE: named by id
    SlowWorkers,  \* workers that may outlive MAX_WORKER_AGE_SECS
    TickCrashes,  \* may a coordinator process be killed between two steps?
    SlugTicks,    \* may the tick be aimed at a mission in any state?
    OwnerChecks,  \* may the owner run `missions check`?
    OwnerStates,  \* states the owner may set
    OwnerCategories \* categories the owner may set

States == {"open", "in_progress", "blocked", "complete"}
Categories == {"autonomous", "needs_owner", "ignored", "done"}
\* Every reader of a status asks only whether it is "error": the others
\* ("success", "paused", "skipped", none at all) are one value here.
Statuses == {"success", "error"}
Reasons == {"no_worker_config", "consecutive_failures"}
FailureLimit == 3

ASSUME MissionsAssumption ==
    /\ NoAttempt \notin Attempts
    /\ IsFiniteSet(Attempts)
    /\ MaxLoops \in Nat /\ TokenBudget \in Nat /\ CostPerRun \in Nat
    /\ MaxTime \in Nat /\ MaxExternal \in Nat
    /\ ManualKinds \subseteq {"manual", "loop"}
    /\ ArgvForms \subseteq BOOLEAN
    /\ SlowWorkers \subseteq Attempts
    /\ TickCrashes \in BOOLEAN /\ SlugTicks \in BOOLEAN /\ OwnerChecks \in BOOLEAN
    /\ OwnerStates \subseteq States /\ OwnerCategories \subseteq Categories

VARIABLES
    state,       \* missions.state
    category,    \* missions.category
    configured,  \* missions.worker_config is set, with a runtime
    met,         \* the success criteria hold in the repository right now
    landed,      \* attempts whose run has returned, its edits in the repository
    log,         \* mission_events
    tick,        \* the coordinator processes
    worker,      \* the worker processes
    external     \* commands and kills still to come

vars == <<state, category, configured, met, landed, log, tick, worker,
          external>>

-----------------------------------------------------------------------------
(* Events and instants *)

Kinds == {"dispatch_started", "dispatched", "dispatch_abandoned",
          "loop_run_started", "loop_run_completed", "success_check",
          "state_changed", "escalated"}

\* note: the status of a closing event, the reason of an escalation, the new
\* state of a state_changed, "met" or "unmet" for a success_check.
\* seen: the attempts whose edits the evaluation behind a success_check saw.
Event(kind, ts, attempt, note) ==
    [kind |-> kind, ts |-> ts, attempt |-> attempt, note |-> note, seen |-> {}]

CheckEvent(ts, allMet, seen) ==
    [kind |-> "success_check", ts |-> ts, attempt |-> NoAttempt,
     note |-> IF allMet THEN "met" ELSE "unmet", seen |-> seen]

OfKind(kinds) == {e \in log : e.kind \in kinds}

\* 0 stands for "no instant"
Instants == 1..MaxTime

InUse == {e.ts : e \in log} \cup {tick[t].now : t \in Ticks}
            \cup {worker[a].stamp : a \in Attempts}

\* Utc::now(): later than every instant recorded or still held by a process.
\* The least such instant, so that time passes only when something keeps it.
IsNow(n) ==
    LET used == InUse IN
    /\ \A i \in used : i < n
    /\ \A m \in Instants : (\A i \in used : i < m) => n <= m

-----------------------------------------------------------------------------
(* What the coordinator reads off the log *)

Closing == OfKind({"dispatched", "loop_run_completed"})

\* variant: an abandoned attempt is not remembered as closed
Closed_NotByAbandon(a) ==
    \E e \in OfKind({"dispatched"}) : e.attempt = a

Closed(a) == \E e \in OfKind({"dispatched", "dispatch_abandoned"}) : e.attempt = a

OpenStarts == {e \in OfKind({"dispatch_started"}) : ~Closed(e.attempt)}

\* a new UUID; which one it is makes no difference
IsFresh(a) ==
    /\ worker[a].pc = "unborn"
    /\ a = CHOOSE b \in Attempts : worker[b].pc = "unborn"

Alive(a) == worker[a].pc \notin {"unborn", "exited"}

\* variant: the pid is not probed
LiveUnprobed(a) == worker[a].argv /\ ~worker[a].old

\* kill -0, ps shows `missions dispatch <slug>`, younger than two hours
is_worker_process_live(a) ==
    Alive(a) /\ worker[a].argv /\ ~worker[a].old

\* variant: a start without its completion and none at all look the same
LoopAtParity ==
    Cardinality(OfKind({"loop_run_started"}))
        >= Cardinality(OfKind({"loop_run_completed"}))

LoopInFlight ==
    Cardinality(OfKind({"loop_run_started"}))
        > Cardinality(OfKind({"loop_run_completed"}))

should_run_success_check ==
    \E e \in Closing : \A c \in OfKind({"success_check"}) : c.ts < e.ts

IsFailure(e) == e.kind = "dispatch_abandoned" \/ e.note = "error"

Outcomes == OfKind({"dispatched", "dispatch_abandoned", "loop_run_completed"})

\* variant: a success does not end the streak
StreakOfOutcomes == Outcomes

\* the failures newer than every outcome that is not one
FailureStreak ==
    {e \in Outcomes : IsFailure(e)
        /\ \A s \in Outcomes : ~IsFailure(s) => s.ts < e.ts}

\* variant: briefs are not deduplicated
NeverPending(reason) == FALSE

escalation_is_pending(reason) ==
    \E e \in OfKind({"escalated"}) :
        /\ e.note = reason
        /\ \A s \in OfKind({"state_changed"}) : s.ts <= e.ts

BudgetSpent ==
    \/ Cardinality(Closing) >= MaxLoops
    \/ Cardinality(Closing) * CostPerRun >= TokenBudget

-----------------------------------------------------------------------------
Row == [state |-> state, category |-> category, configured |-> configured]

IdleTick == [pc |-> "idle", now |-> 0, row |-> [state |-> "open",
             category |-> "autonomous", configured |-> FALSE],
             attempt |-> NoAttempt, note |-> "", forced |-> FALSE, seen |-> {},
             open |-> {}]

UnbornWorker == [pc |-> "unborn", kind |-> "child", argv |-> TRUE,
                 old |-> FALSE, stamp |-> 0, status |-> "success"]

Init ==
    /\ state = "open"
    /\ category = "autonomous"
    /\ configured \in BOOLEAN
    /\ met = FALSE
    /\ landed = {}
    /\ log = {}
    /\ tick = [t \in Ticks |-> IdleTick]
    /\ worker = [a \in Attempts |-> UnbornWorker]
    /\ external = MaxExternal

mission == <<state, category, configured>>
repository == <<met, landed>>

\* one process moves on
Tick(t, r) == tick' = [tick EXCEPT ![t] = r]
Goto(t, pc) == Tick(t, [tick[t] EXCEPT !.pc = pc])
Stop(t) == Tick(t, IdleTick)

Work(a, r) == worker' = [worker EXCEPT ![a] = r]
Enter(a, pc) == Work(a, [worker[a] EXCEPT !.pc = pc])
Exit(a) == Work(a, [UnbornWorker EXCEPT !.pc = "exited"])

-----------------------------------------------------------------------------
(* The coordinator: tick_one_mission, in the order of its steps *)

\* run_tick: the rows are loaded up front, and may age before their turn comes
TickLoad(t) ==
    /\ tick[t].pc = "idle"
    /\ state \in {"open", "in_progress"} \/ SlugTicks
    /\ Tick(t, [IdleTick EXCEPT !.pc = "loaded", !.row = Row])
    /\ UNCHANGED <<mission, repository, log, worker, external>>

\* `missions check`: the same evaluation, asked for by the owner
CheckLoad(t) ==
    /\ tick[t].pc = "idle"
    /\ OwnerChecks /\ external > 0
    /\ external' = external - 1
    /\ Tick(t, [IdleTick EXCEPT !.pc = "loaded", !.row = Row, !.forced = TRUE])
    /\ UNCHANGED <<mission, repository, log, worker>>

\* `now` is taken, and (a) ignored missions are left alone
TickPreflight(t) ==
    /\ tick[t].pc = "loaded" /\ ~tick[t].forced
    /\ \/ tick[t].row.category = "ignored" /\ Stop(t)
       \/ /\ tick[t].row.category # "ignored"
          /\ \E n \in Instants :
               IsNow(n) /\ Tick(t, [tick[t] EXCEPT !.now = n, !.pc = "scan"])
    /\ UNCHANGED <<mission, repository, log, worker, external>>

CheckClock(t) ==
    /\ tick[t].pc = "loaded" /\ tick[t].forced
    /\ \E n \in Instants :
         IsNow(n) /\ Tick(t, [tick[t] EXCEPT !.now = n, !.pc = "evaluate"])
    /\ UNCHANGED <<mission, repository, log, worker, external>>

TickEscalate(t) ==
    /\ tick[t].pc = "escalate"
    /\ log' = log \cup {Event("escalated", tick[t].now, NoAttempt, tick[t].note)}
    /\ Stop(t)
    /\ UNCHANGED <<mission, repository, worker, external>>

\* find_stale_dispatch_started and is_in_flight select the starts and the closed
\* ids first and probe the pids afterwards, the oldest start first: what they probe
\* may have been closed in the meantime.
Select(t, pc) == Tick(t, [tick[t] EXCEPT !.pc = pc, !.open = OpenStarts])

Oldest(events) == {e \in events : \A f \in events : e.ts <= f.ts}

Skip(t, e) == Tick(t, [tick[t] EXCEPT !.open = @ \ {e}])

\* (c) which dispatches are open?
TickScan(t) ==
    /\ tick[t].pc = "scan"
    /\ Select(t, "probe")
    /\ UNCHANGED <<mission, repository, log, worker, external>>

\* ... and the oldest of them nobody answers for is the stale one
TickProbe(t) ==
    /\ tick[t].pc = "probe"
    /\ \/ tick[t].open = {} /\ Goto(t, "due")
       \/ \E e \in Oldest(tick[t].open) :
            \/ is_worker_process_live(e.attempt) /\ Skip(t, e)
            \/ /\ ~is_worker_process_live(e.attempt)
               /\ Tick(t, [tick[t] EXCEPT !.pc = "abandon", !.attempt = e.attempt,
                                         !.open = {}])
    /\ UNCHANGED <<mission, repository, log, worker, external>>

TickAbandon(t) ==
    /\ tick[t].pc = "abandon"
    /\ log' = log \cup
         {Event("dispatch_abandoned", tick[t].now, tick[t].attempt, "abandoned")}
    /\ Stop(t)
    /\ UNCHANGED <<mission, repository, worker, external>>

\* (d) is there finished work no evaluation has looked at?
TickDue(t) ==
    /\ tick[t].pc = "due"
    /\ Goto(t, IF should_run_success_check THEN "evaluate" ELSE "failures")
    /\ UNCHANGED <<mission, repository, log, worker, external>>

\* run_success_evaluation: the check commands run, then the event is written
TickEvaluate(t) ==
    /\ tick[t].pc = "evaluate"
    /\ Tick(t, [tick[t] EXCEPT !.pc = "record", !.seen = landed,
                               !.note = IF met THEN "met" ELSE "unmet"])
    /\ UNCHANGED <<mission, repository, log, worker, external>>

\* variant: the success_check is stamped when it is written
TickRecordLate(t) ==
    /\ tick[t].pc = "record"
    /\ \E n \in Instants :
         IsNow(n) /\ log' = log \cup {CheckEvent(n, tick[t].note = "met", tick[t].seen)}
    /\ Stop(t)
    /\ UNCHANGED <<mission, repository, worker, external>>

TickRecord(t) ==
    /\ tick[t].pc = "record"
    /\ log' = log \cup {CheckEvent(tick[t].now, tick[t].note = "met", tick[t].seen)}
    /\ IF tick[t].note = "met" /\ (tick[t].forced => tick[t].row.state # "complete")
       THEN Tick(t, [tick[t] EXCEPT !.pc = "finish", !.now = 0])
       ELSE Stop(t)
    /\ UNCHANGED <<mission, repository, worker, external>>

\* transition_state(.., "complete"), with an instant of its own
TickFinish(t) ==
    /\ tick[t].pc = "finish"
    /\ state' = "complete"
    /\ \E n \in Instants :
         IsNow(n) /\ log' = log \cup {Event("state_changed", n, NoAttempt, "complete")}
    /\ Stop(t)
    /\ UNCHANGED <<category, configured, repository, worker, external>>

\* (e) three failures in a row
TickFailures(t) ==
    /\ tick[t].pc = "failures"
    /\ IF Cardinality(FailureStreak) < FailureLimit
       THEN Goto(t, "gate")
       ELSE IF escalation_is_pending("consecutive_failures")
            THEN Stop(t)
            ELSE Goto(t, "block")
    /\ UNCHANGED <<mission, repository, log, worker, external>>

TickBlock(t) ==
    /\ tick[t].pc = "block"
    /\ state' = "blocked"
    /\ log' = log \cup {Event("state_changed", tick[t].now, NoAttempt, "blocked")}
    /\ Tick(t, [tick[t] EXCEPT !.pc = "escalate", !.note = "consecutive_failures"])
    /\ UNCHANGED <<category, configured, repository, worker, external>>

\* variant: only loop runs are looked at
TickGateLoopsOnly(t) ==
    /\ tick[t].pc = "gate"
    /\ IF LoopInFlight THEN Stop(t) ELSE Goto(t, "budget")
    /\ UNCHANGED <<mission, repository, log, worker, external>>

\* (f) is_in_flight: a loop run that has not completed, ...
TickGate(t) ==
    /\ tick[t].pc = "gate"
    /\ IF LoopInFlight THEN Stop(t) ELSE Select(t, "flight")
    /\ UNCHANGED <<mission, repository, log, worker, external>>

\* ... or an open dispatch whose process answers
TickFlight(t) ==
    /\ tick[t].pc = "flight"
    /\ \/ tick[t].open = {} /\ Goto(t, "budget")
       \/ \E e \in Oldest(tick[t].open) :
            \/ is_worker_process_live(e.attempt) /\ Stop(t)
            \/ ~is_worker_process_live(e.attempt) /\ Skip(t, e)
    /\ UNCHANGED <<mission, repository, log, worker, external>>

\* the budgets allow, and a worker is configured
TickBudget(t) ==
    /\ tick[t].pc = "budget"
    /\ \/ BudgetSpent /\ Stop(t)
       \/ ~BudgetSpent /\ tick[t].row.configured /\ Goto(t, "spawn")
       \/ /\ ~BudgetSpent /\ ~tick[t].row.configured
          /\ IF escalation_is_pending("no_worker_config")
             THEN Stop(t)
             ELSE Tick(t, [tick[t] EXCEPT !.pc = "escalate", !.note = "no_worker_config"])
    /\ UNCHANGED <<mission, repository, log, worker, external>>

\* cmd.spawn(): the child runs before its dispatch_started is on record
TickSpawn(t) ==
    /\ tick[t].pc = "spawn"
    /\ \E a \in Attempts :
         /\ IsFresh(a)
         /\ Enter(a, "load")
         /\ Tick(t, [tick[t] EXCEPT !.pc = "note", !.attempt = a])
    /\ UNCHANGED <<mission, repository, log, external>>

TickNote(t) ==
    /\ tick[t].pc = "note"
    /\ log' = log \cup
         {Event("dispatch_started", tick[t].now, tick[t].attempt, "tick")}
    /\ IF tick[t].row.state = "open" THEN Goto(t, "promote") ELSE Stop(t)
    /\ UNCHANGED <<mission, repository, worker, external>>

TickPromote(t) ==
    /\ tick[t].pc = "promote"
    /\ state' = "in_progress"
    /\ log' = log \cup {Event("state_changed", tick[t].now, NoAttempt, "in_progress")}
    /\ Stop(t)
    /\ UNCHANGED <<category, configured, repository, worker, external>>

\* the process is killed, the machine sleeps, a statement fails
TickCrash(t) ==
    /\ TickCrashes /\ external > 0
    /\ external' = external - 1
    /\ tick[t].pc # "idle"
    /\ Stop(t)
    /\ UNCHANGED <<mission, repository, log, worker>>

TickStep(t) ==
    \/ TickPreflight(t) \/ CheckClock(t) \/ TickEscalate(t) \/ TickScan(t)
    \/ TickProbe(t) \/ TickAbandon(t) \/ TickDue(t) \/ TickEvaluate(t) \/ TickRecord(t)
    \/ TickFinish(t) \/ TickFailures(t) \/ TickBlock(t) \/ TickGate(t)
    \/ TickFlight(t) \/ TickBudget(t) \/ TickSpawn(t) \/ TickNote(t) \/ TickPromote(t)

-----------------------------------------------------------------------------
(* A worker: run_dispatch_under_mission, as a tick's child or by hand *)

ManualDispatch(a) ==
    /\ IsFresh(a)
    /\ external > 0
    /\ external' = external - 1
    /\ \E kind \in ManualKinds, argv \in ArgvForms :
         Work(a, [worker[a] EXCEPT !.pc = "load", !.kind = kind, !.argv = argv])
    /\ UNCHANGED <<mission, repository, log, tick>>

\* load_mission, the states that refuse work, the budgets
WorkerGate(a) ==
    /\ worker[a].pc = "load"
    /\ IF state = "complete" \/ category = "ignored" \/ BudgetSpent
       THEN Exit(a)
       ELSE Enter(a, IF state = "open" THEN "promote" ELSE "begin")
    /\ UNCHANGED <<mission, repository, log, tick, external>>

WorkerPromote(a) ==
    /\ worker[a].pc = "promote"
    /\ state' = "in_progress"
    /\ \E n \in Instants :
         IsNow(n) /\ log' = log \cup {Event("state_changed", n, NoAttempt, "in_progress")}
    /\ Enter(a, "begin")
    /\ UNCHANGED <<category, configured, repository, tick, external>>

\* a tick's child finds its dispatch_started written by its parent
WorkerBegin(a) ==
    /\ worker[a].pc = "begin"
    /\ Enter(a, "running")
    /\ \/ worker[a].kind = "child" /\ UNCHANGED log
       \/ /\ worker[a].kind # "child"
          /\ \E n \in Instants :
               /\ IsNow(n)
               /\ log' = log \cup
                    {Event(IF worker[a].kind = "loop" THEN "loop_run_started"
                           ELSE "dispatch_started", n, a, "manual")}
    /\ UNCHANGED <<mission, repository, tick, external>>

\* dispatch::run / execute_loop returns; its edits are in the repository, which
\* may now meet the criteria or no longer meet them; `now` is taken
WorkerReturn(a) ==
    /\ worker[a].pc = "running"
    /\ landed' = landed \cup {a}
    /\ met' \in BOOLEAN
    /\ \E n \in Instants, status \in Statuses :
         /\ IsNow(n)
         /\ Work(a, [worker[a] EXCEPT !.pc = "closing", !.stamp = n, !.status = status])
    /\ UNCHANGED <<mission, log, tick, external>>

WorkerClose(a) ==
    /\ worker[a].pc = "closing"
    /\ log' = log \cup
         {Event(IF worker[a].kind = "loop" THEN "loop_run_completed" ELSE "dispatched",
                worker[a].stamp, a, worker[a].status)}
    /\ Exit(a)
    /\ UNCHANGED <<mission, repository, tick, external>>

\* dispatch::run fails and `?` ends the process, or the process is killed:
\* no closing event either way
WorkerDie(a) ==
    /\ Alive(a) /\ external > 0
    /\ external' = external - 1
    /\ Exit(a)
    /\ UNCHANGED <<mission, repository, log, tick>>

\* two hours after its dispatch_started the worker is still running
WorkerOverrun(a) ==
    /\ a \in SlowWorkers
    /\ worker[a].pc = "running" /\ ~worker[a].old
    /\ Work(a, [worker[a] EXCEPT !.old = TRUE])
    /\ UNCHANGED <<mission, repository, log, tick, external>>

WorkerStep(a) ==
    WorkerGate(a) \/ WorkerPromote(a) \/ WorkerBegin(a) \/ WorkerReturn(a)
        \/ WorkerClose(a)

-----------------------------------------------------------------------------
(* The owner *)

SetState ==
    /\ external > 0
    /\ external' = external - 1
    /\ \E s \in OwnerStates \ {state}, n \in Instants :
         /\ IsNow(n)
         /\ state' = s
         /\ log' = log \cup {Event("state_changed", n, NoAttempt, s)}
    /\ UNCHANGED <<category, configured, repository, tick, worker>>

\* variant: the category is not validated
SetAnyCategory ==
    /\ external > 0
    /\ external' = external - 1
    /\ category' \in {"paused"}
    /\ UNCHANGED <<state, configured, repository, log, tick, worker>>

SetCategory ==
    /\ external > 0
    /\ external' = external - 1
    /\ category' \in OwnerCategories \ {category}
    /\ UNCHANGED <<state, configured, repository, log, tick, worker>>

SetWorker ==
    /\ external > 0 /\ ~configured
    /\ external' = external - 1
    /\ configured' = TRUE
    /\ UNCHANGED <<state, category, repository, log, tick, worker>>

External == SetState \/ SetCategory \/ SetWorker

Next ==
    \/ \E t \in Ticks : TickLoad(t) \/ CheckLoad(t) \/ TickStep(t) \/ TickCrash(t)
    \/ \E a \in Attempts : ManualDispatch(a) \/ WorkerStep(a) \/ WorkerDie(a)
                              \/ WorkerOverrun(a)
    \/ External

Spec == Init /\ [][Next]_vars

\* launchd or cron keeps waking the coordinator, a coordinator process runs to
\* its end, and a worker's run ends one way or the other.
Fairness ==
    /\ \A t \in Ticks : WF_vars(TickLoad(t) \/ TickStep(t))
    /\ WF_vars(\E a \in Attempts : WorkerStep(a))

FairSpec == Spec /\ Fairness

-----------------------------------------------------------------------------
(* Types *)

Rows == [state : States, category : Categories, configured : BOOLEAN]

TickPcs == {"idle", "loaded", "scan", "probe", "abandon", "due", "evaluate", "record",
            "finish", "failures", "block", "escalate", "gate", "flight", "budget",
            "spawn", "note", "promote"}

WorkerPcs == {"unborn", "load", "promote", "begin", "running", "closing", "exited"}

Notes == {"tick", "manual", "abandoned", "met", "unmet", ""}
            \cup States \cup Statuses \cup Reasons

EventType == [kind : Kinds, ts : Nat, attempt : Attempts \cup {NoAttempt},
              note : Notes, seen : SUBSET Attempts]

TickType == [pc : TickPcs, now : Nat, row : Rows,
             attempt : Attempts \cup {NoAttempt}, note : Notes,
             forced : BOOLEAN, seen : SUBSET Attempts, open : SUBSET EventType]

WorkerType == [pc : WorkerPcs, kind : {"child", "manual", "loop"},
               argv : BOOLEAN, old : BOOLEAN, stamp : Nat, status : Statuses]

\* The type of every variable: a row, a log of events, and the processes.
TypeOK ==
    /\ state \in States
    /\ category \in Categories
    /\ configured \in BOOLEAN
    /\ met \in BOOLEAN
    /\ landed \subseteq Attempts
    /\ log \subseteq EventType
    /\ tick \in [Ticks -> TickType]
    /\ worker \in [Attempts -> WorkerType]
    /\ external \in Nat

-----------------------------------------------------------------------------
(* Properties that hold whatever the processes do *)

\* should_run_success_check skips an outcome as soon as a success_check is newer.
\* That loses nothing only if the skipped run's edits were in the repository when
\* that evaluation ran its commands, however the processes interleave.
NoOutcomeUnseen ==
    \A e \in Closing, c \in OfKind({"success_check"}) :
        c.ts > e.ts => e.attempt \in c.seen

\* `seen` has every run that had returned at instant i, its outcome recorded or
\* still to be.
HasSeen(seen, i) ==
    /\ \A e \in Closing : e.ts < i => e.attempt \in seen
    /\ \A a \in Attempts : worker[a].pc = "closing" /\ worker[a].stamp < i => a \in seen

\* Why no outcome is skipped: a worker takes its instant after its edits landed,
\* an evaluation takes its own before the check commands run, so an evaluation
\* has seen all that is older than itself, what is not yet on record included.
EvaluationsSeeThePast ==
    /\ \A e \in Closing : e.attempt \in landed
    /\ \A a \in Attempts : worker[a].pc = "closing" => a \in landed
    /\ \A t \in Ticks : tick[t].pc = "record" => HasSeen(tick[t].seen, tick[t].now)
    /\ \A c \in OfKind({"success_check"}) : HasSeen(c.seen, c.ts)

-----------------------------------------------------------------------------
(* Properties of a coordinator whose ticks never overlap and are never killed, *)
(* with workers that end within two hours and no dispatch fired by hand        *)

\* Under single_cwd no two workers ever run at once: the in-flight scan of
\* step (f) knows of every worker that lives.
SoleWorker == \A a, b \in Attempts : Alive(a) /\ Alive(b) => a = b

\* Only the dead are buried, and once: no tick abandons a worker that still runs,
\* or an attempt that was abandoned before, though it decides on what it selected
\* earlier.
BuriedOnce ==
    \A e \in OfKind({"dispatch_abandoned"}) :
        /\ ~Alive(e.attempt)
        /\ \A f \in OfKind({"dispatch_abandoned"}) : f.attempt = e.attempt => f = e

FailedAttempts == {f.attempt : f \in {o \in Outcomes : IsFailure(o)}}

\* The failure guard never blocks a mission for one attempt alone.  (One attempt
\* can leave two failures, the error its worker recorded and the abandonment of a
\* tick that had selected it before: two attempts are what the guard's limit of
\* three events is worth.)
NeverForOneAlone ==
    (\E e \in OfKind({"escalated"}) : e.note = "consecutive_failures") =>
        Cardinality(FailedAttempts) >= 2

\* A brief is written once per matter: two with the same reason have a change of
\* state between them, or with the second.
OneBriefPerMatter ==
    \A e, f \in OfKind({"escalated"}) :
        e.note = f.note /\ e.ts < f.ts =>
            \E s \in OfKind({"state_changed"}) : e.ts < s.ts /\ s.ts <= f.ts

-----------------------------------------------------------------------------
(* Liveness, under FairSpec *)

\* A worker that dies without a closing event does not hold its mission up: again
\* and again every open dispatch_started has a living worker, or the mission was
\* parked.
DeadWorkersAreBuried ==
    []<>(\/ state \in {"blocked", "complete"}
         \/ \A e \in OpenStarts : Alive(e.attempt))

\* A configured mission nobody touches ends: complete, blocked with a brief, or
\* out of budget.
MissionEnds ==
    configured ~> (state \in {"blocked", "complete"} \/ BudgetSpent)

-----------------------------------------------------------------------------
(* What the documents say, and the code does not keep *)

\* An attempt ends once: by its worker's closing event or by an abandonment.
ClosedOnce ==
    \A e, f \in OfKind({"dispatched", "dispatch_abandoned"}) :
        e.attempt = f.attempt => e = f

\* "Worker has failed 3 times in a row": three attempts did.
ThreeStrikes ==
    (\E e \in OfKind({"escalated"}) : e.note = "consecutive_failures") =>
        Cardinality(FailedAttempts) >= FailureLimit

\* missions.rs offers "fix the underlying error and set-state in_progress" as the
\* way out of a block: a mission is blocked again only for a failure newer than
\* the last brief.
BlockedForFreshFailure ==
    \A e, f \in OfKind({"escalated"}) :
        e.note = "consecutive_failures" /\ f.note = "consecutive_failures"
            /\ e.ts < f.ts =>
                \E o \in Outcomes : IsFailure(o) /\ o.ts > e.ts
=============================================================================
