# A TLA+ model of ATO's coordination core

ATO (Agentic Tool Optimization) is a local-first workbench for coding agents: a
Rust command line (`apps/cli`), a Tauri desktop application
(`apps/desktop/src-tauri` in Rust, `apps/desktop/src` in React), shared Rust
crates (`packages/*`), a small web client and a few TypeScript packages. They
share one SQLite file and the machine's keychain, file system and processes.
There is no server of ATO's own between them: every command, scheduler wake and
window is a process or thread of its own, and what keeps them consistent is the
order of their statements over that one file. This directory models that.

## 1. Inventory

| Part | Where | State | Operations | What is hard |
|---|---|---|---|---|
| Mission coordinator | `apps/cli/src/commands/missions.rs` | `missions` row, append-only `mission_events`, worker processes | tick, check, dispatch, loop dispatch, set-state/-category/-worker | no transaction spans two statements; detached workers; overlapping scheduler wakes; rows read early and used late |
| Mission merge | `commands/missions.rs` (merge) | integration worktree and branch in git, `mission_events` | approve (squash, commit, check, roll back or record), skip, finish | git and the event log have no common transaction; deaths between any two commands; two operators in one worktree |
| Worktrees of agents | `commands/missions.rs` | one worktree and branch per agent | create, cleanup | I/O of git |
| Paused dispatches | `apps/cli/src/paused_dispatches.rs`, `commands/loops.rs` (resume) | `paused_dispatches` row, mirror columns of `loop_runs` | insert, claim, resume, re-pause or abandon, resume-due scan | two scanners and an operator racing for a row; a resume that dies; the mirror written by two processes |
| Loop executor | `commands/loops.rs` | `loop_runs` row, context of step outputs | topological walk, per-step retry, pause, skip | partial failure, retries, cycle fallback |
| Quota probes | `quota.rs`, `runtime_quota.rs` | files of the runtimes | lookup | parsing only |
| Master key | `src-tauri/src/encryption.rs`, CLI mirror `apps/cli/src/encryption.rs` | keychain entries, `master_key_ledger`, cache | resolve, first run, encrypt, decrypt, canary | two stores (keychain, SQLite) with no common transaction; cache |
| Rekey and drift | `src-tauri/src/rekey.rs`, `identity_probe.rs`, CLI `commands/master_key.rs` | both stores, `llm_api_keys` ciphertexts | rekey, resync, cleanup | a crash between keychain and database; concurrent saves of a key |
| Dispatch | `commands/dispatch.rs`, `api_dispatch*.rs` | `execution_logs` | one run of a runtime or provider, tool loop, read-back | result found by time order |
| Retry policy | `packages/ato-retry-policy` | none | classify an answer, next disposition | boundaries of the attempt count |
| Permissions | `packages/ato-agent-permissions` | permission rows | resolve, narrow, grant | rule precedence |
| Review tools | `packages/ato-review-tools` | none | read-only tools of a reviewer | path containment |
| Passive observer | `packages/ato-passive-observer`, run by the desktop and by `ato observe` | `watcher_state` (offset, last number), rows in `execution_logs` and `live_runs`, the waiting prompt in memory | sweep, coalesce, scan, pair, insert, save, forget | half of the position is persisted, half is not; files grow, are cut and vanish while read; a second observer |
| Active runs | `src-tauri/src/active_runs.rs`, `commands/mod.rs`, CLI `live_runs.rs` | process-wide registry, table `live_runs`, child processes | begin, attach, spawn, finish, kill, reap, boot | a kill at any point of a dispatch, pids read before they are used, two programs writing one table |
| War rooms and conversations | `commands/war_rooms.rs`, `conversation_close.rs`, `sessions_view` | `war_rooms`, `execution_logs` | close, reopen, fetch rounds | a summary taken while a round lands |
| Cron and schedules | `src-tauri/src/commands/cron.rs`, `commands/loops.rs` (schedule) | job files, launchd | create, trigger, list | external scheduler |
| Recipes engine and events | `src-tauri/src/recipes_engine`, `events.rs`, CLI `events_publisher.rs` | `events_log`, broadcast channel, claims in memory, `ops_recipe_runs`, approvals | publish, receive, poll, claim, limit, fire, park, decide, resume | each event arrives by two ways; two number givers; a bounded memory; deaths |
| Recipes and methodology | `apps/cli/src/methodology`, `commands/recipes.rs`, `packages/ato-recipes` | files, rows | detect, apply | sequential |
| Tether and daemon | `src-tauri/src/tether_host.rs`, `apps/cli/src/daemon` | session keys, frame counters | connect, decrypt, reply | reconnects; the protocol's far side is not in this repository |
| Health, log watching, pty | `src-tauri/src` | in-memory | poll, emit, spawn | I/O |
| Pricing, model list, views | `packages/ato-pricing`, `ato-list-models`, `ato-db-views` | none | pure lookups and SQL views | none |
| Bench | `packages/ato-bench*`, CLI `commands/bench*` | sandbox, receipts | run, grade | I/O |
| User interfaces | `apps/desktop/src`, `apps/web`, MCP server, SDK | view state | render, call commands | generated or presentational |

## 2. What the models are, and how they correspond to the code

### Missions (`Missions.tla`, `MCMissions.tla`, `Missions_proofs.tla`)

One mission row, its event log, the coordinator processes (`Ticks`), the worker
processes (`Attempts`) and the owner. A step is one decision read or one write,
in the order of `tick_one_mission`, because no two statements of the code share
a transaction.

| Code | Model |
|---|---|
| `run_tick`, `run_check` loading the row | `TickLoad`, `CheckLoad` (the row is kept in `tick[t].row` and may age) |
| `now` taken once per tick, step (a) | `TickPreflight`, `CheckClock` |
| (c) `find_stale_dispatch_started`: closed attempts and starts read, each start probed later | `TickScan`, `TickProbe`, `TickAbandon` |
| (d) `should_run_success_check`, `run_success_evaluation`, `transition_state` | `TickDue`, `TickEvaluate`, `TickRecord`, `TickFinish` |
| (e) `count_consecutive_failures`, block and brief | `TickFailures`, `TickBlock`, `TickEscalate` |
| (f) `is_in_flight` (read, then probed), budgets, worker_config, spawn | `TickGate`, `TickFlight`, `TickBudget`, `TickSpawn`, `TickNote`, `TickPromote` |
| `run_dispatch_under_mission`, by hand or as a tick's child | `ManualDispatch`, `WorkerGate`, `WorkerPromote`, `WorkerBegin`, `WorkerReturn`, `WorkerClose` |
| a process is killed, or lives beyond `MAX_WORKER_AGE_SECS` | `TickCrash`, `WorkerDie`, `WorkerOverrun` |
| `set-state`, `set-category`, `set-worker` | `SetState`, `SetCategory`, `SetWorker` |

The two scans of a tick select the open `dispatch_started` rows in one step (the two
SELECTs of each stand side by side) and then ask `kill -0` and `ps` of one worker per
step, on what they selected: `tick[t].open` is that selection, and a worker may close
its attempt and exit between the two.

Time is a logical clock: `Utc::now()` is the least instant later than every
instant on record or still held by a process. Timestamps matter only through
their order, so nothing is lost. The content of a run is one bit, whether the
criteria hold in the repository after it (`met`), plus the set of runs whose edits
have landed (`landed`); each `success_check` remembers which it saw.

### PausedDispatch (`PausedDispatch.tla`, `PauseLifecycle.tla`, `MCPausedDispatch.tla`, `PausedDispatch_proofs.tla`)

One loop run of dispatch steps under the policy pause-and-wake, the row of
`paused_dispatches` it may leave, and the processes that resume it. The row is
authoritative; `loop_runs` mirrors it. Only the claim is a transaction.

| Code | Model |
|---|---|
| `handle_dispatch`: look the limit up, dispatch, read the newest row back | `ExecProbe`, `ExecFire` (with `Dispatch`, `Exhausted`), `ExecReadBack` (with `ReadBack`) |
| the retry loop of `execute_loop` | `Failed`, `Succeeded` |
| `insert_new`, the second write of the mirror, the final UPDATE | `ExecInsert`, `ExecMirror`, `ExecRemirror`, `ExecFinish` |
| `run_resume_due` with `list_due`; `ato loop resume <id>` | `Scan`, `Manual` |
| `claim_for_resume` | `Claim` |
| `run_resume` | `Preflight`, `Fire`, `WakeReadBack`, `Brief` |
| `mark_resumed`, row then mirror | `MarkResumed`, `Unlink` |
| `re_pause_or_abandon`, row then mirror | `RePauseOrAbandon`, `MoveMirror`, `AbandonMirror` |
| kills; other dispatches of the runtime; time | `ExecCrash`, `ResumerCrash`; `Elsewhere`; `Advance` |

A dispatch comes to one of: `success`; `lost` (it worked, its log row is not found);
`unlogged` (it worked and could not write its row); `dated` and `undated` limits;
`failed`; `refused` by its own pre-flight. What is read back of it is a step of its own:
the newest row of the runtime since the dispatch began, which may be another dispatch's
(`Elsewhere`; the KNOWN GAP of loops.rs:1765). `dispatch` says whether the last dispatch
worked and what its read-back will find; an `unlogged` one comes back to the executor as
an error, which it may retry. `ran[s]` counts how often step `s` did its work, `misled[s]`
how often its caller was told of a failure though it did, `wakes` how often the row was
claimed; all three are observers. `PauseLifecycle`
is the abstract specification: a dispatch handed to one resumer at a time, woken at
most three times, and given up only after three wakes that failed.

### MasterKey (`MasterKey.tla`, `MCMasterKey.tla`, `MasterKey_proofs.tla`)

The key that encrypts stored API keys, across the keychain and SQLite, which share
no transaction. A key is a model value and a ciphertext is the key it opens with.

| Code | Model |
|---|---|
| `master_key`: cache checked against the ledger | `CacheHit`, `CacheMiss` |
| `master_key_inner`, in a thread of its own | `GetPassword`, `Denied`, `FirstRun`, `SetPassword`, `Confirm`, `Stamp` |
| `recv_timeout(KEYCHAIN_TIMEOUT_SECS)` | `TimeOut`: the call ends, its thread goes on `late` |
| `ensure_canary_initialized`, then the cache | `LookForCanary`, `PlantCanary`, `FillCache` |
| `simple_encrypt` (seal, open, compare) and the row | `After`, `WriteRow` |
| `rekey_master_key` and its applicability check | `Rekey`, `MintKey`, `Accepted`, `RekeyCommit`, `RekeyRefused`, `Busy`, `DeleteOldKey` |
| `resolve_master_key_drift` | `Resync`, `ProbeResync` |
| `run_full_probe_cycle`, at launch and after both | `Populated`, `ProbeCycle`, `Restart` |
| `decrypt` in either program, `delete_llm_api_key` | `Read`, `Delete` |
| a desktop or a command line is killed | `Restart`, `Kill` |

A save, a rekey and a resync hold their desktop's one database mutex
(`DbState`); a read is modelled as holding none, the freer of the two ways the code
reads (a dispatch opens its own connection, `reveal` takes the mutex). Keys come from
`Fresh`, which is never empty at the bounds used. Three constants name assumptions on
use: `RekeyIfApplicable` (a rekey is begun only where `get_rekey_applicability` says
so), `FirstRunAlone` (nobody else starts until the first key is in the keychain) and
`LookupFails` (a call may fail to read which version is active, and then takes the account
of the first; `FALSE` in the runs, and section 5 says what happens otherwise).

### PassiveObserver (`PassiveObserver.tla`, `MCPassiveObserver.tla`, `PassiveObserver_proofs.tla`)

Session files that other programs write, the workers that follow them, and what they
leave in the database. A file is one session in one of three formats: `claude` and
`codex` append lines, `array` is Gemini's `logs.json`, one document that is read as a
whole. The unit is the line, because only complete lines move an offset.

| Code | Model |
|---|---|
| the runtime writes a line in two halves, answers, rewinds or removes its file | `BeginLine`, `FinishLine`, `Rewind` (external) |
| `on_fs_event`, coalescing | `Notify` and `obs[o].pending` |
| `scan_file`, `scan_json_array_file`: offset from `watcher_state`, cut files from the start, at most `MAX_READ_BYTES_PER_SCAN` | `Load`, `LoadGone`, `Batch`, `NothingNew` |
| `process_line` with the three parsers, `emit_row`, `mark_in_progress` | `Line`, `Answer`, `Inserted` |
| `save_state`, after the last line | `Save` |
| `gc_stale_state`, `start_observer` with its sweep, a death | `Collect`, `Start`, `Crash` |

`turns[f]` (every prompt with the answer it got), `cut` and `unseen` are observers.

### ActiveRuns (`ActiveRuns.tla`, `MCActiveRuns.tla`, `ActiveRuns_proofs.tla`)

Dispatches in flight by five paths: `agent` (`prompt_agent`), `context`
(`prompt_agent_with_context`, whose slot the window finishes), `stream`, `api` (a
provider, no child) and `cli`, with everybody who ends one.

| Code | Model |
|---|---|
| `begin_run` with overlap evidence, under the registry's lock | `Begin`, `Peers`, `Named` |
| `attach_kill_handler`, `dispatch_command_killable` | `Attach`, `Spawn`, `SpawnFails`, `SetPid`, `ReadKill`, `ReadEnd` |
| `finish_run`: the slot, then the row | `FinishSlot`, `FinishRow` |
| the window forgets a dispatch it waits for | `Reload` |
| `LiveRunGuard` of the command line | `CliInsert`, `CliEnd`, `CliGone` |
| Kill button, `kill_via_pid`, `ato kill` | `KillSlot`, `Look`, `Kill`, `Terminate` |
| `reap_dead_live_runs`; deaths and `DELETE FROM live_runs` | `Reap`; `Crash`, `Boot` |

A process id is read in one step and used in another. Ids are not reused.

### RecipesEngine (`RecipesEngine.tla`, `MCRecipesEngine.tla`, `RecipesEngine_proofs.tla`)

| Code | Model |
|---|---|
| a desktop thread: `next_seq`, `persist_event`, `publish` | `Reserve`, `Persist`, `Send` |
| `init_seq_from_db` | `Boot` |
| a command line: MAX, INSERT with three tries, UPDATE of the payload | `ReadMax`, `Insert`, `Rewrite` |
| the subscriber; the poll with its bootstrap | `Subscribe`, `Receive`; `Bootstrap`, `Poll` |
| a row whose payload is no `AtoEvent` is passed over, and the watermark with it | `Readable`, `Occurrences`, in `Poll` |
| `handle_event`: lookup; then under the recipe's lock claim and count, audit row, verdict; action | `Hears`, `Miss`, `Skip`, `Enter`, `Fire`, `TurnAway`, `Finish` (`Free`, `Duplicate`, `Claimed`, `Counted`) |
| `request_approval`, its task's late `finalize_run_row` | `Park`, `Unpark` |
| a human's decision; `run_approval_resume_tick` | `Decide`; `Resume` |
| sixty seconds go by; the desktop dies | `Age`; `Crash` |

`holds` is the lock of a recipe, from `Enter` until its row is `running` for good or
turned away; a row that will be turned away is inserted as `running` first and counts as
such until `TurnAway` (`turning` here), so a death between the two leaves it. The command
line publishes three types that the engine cannot parse (`dispatch_exhausted`,
`dispatch_resumed`, `ratchet_breach`): those are the events of `Unreadable`. `skipped` and
`missed` are observers: what was taken for a duplicate, and what was lost to a failed
lookup.

### MissionMerge (`MissionMerge.tla`, `MCMissionMerge.tla`, `MissionMerge_proofs.tla`)

The integration branch is a sequence of sets of agents (what each commit contains);
the index is the set of changes no commit has. Which agents clash and which changes a
criterion needs or does not survive are constants. A check reads the files as they lie in
the worktree, staged changes included, and while a conflict marks them it may come out
anyhow (`Sees`). What git does with a squash onto
an index that is not clean, with `merge --abort` after a squash and with an empty
commit was tried out with git itself.

| Code | Model |
|---|---|
| `ensure_integration_worktree`, the pending check | `EnsureWorktree`, `Approve`, `Pending` |
| `approve_one_agent`, command by command | `Squash`, `Abort`, `Commit`, `Check`, `Rollback`, `Accept` |
| `git commit` fails: nothing staged or a conflict; a hook, an identity, a signature | `NothingToCommit`; `Refused`, which leaves the squash staged |
| `previously_met_criteria`: the latest check, wherever it ran | `PreviouslyMet`, `Checks` |
| `--skip` | `Skip` |
| `--finish`: counts, `finish_gate`, `integration_complete` | `Finish`, `Gate`, `Complete` |
| a command line dies, or gives up on an error of the database | `Crash` |

`broken` is an observer: the agents of whom an approval was broken off after its squash,
by a death or by a refused commit.

## 3. What is checked

| Run | Instance | What it shows |
|---|---|---|
| `missions_sequential` | one tick at a time, three attempts, `max_loops` 2, one killed worker, fair scheduler | the coordinator's guards (`SoleWorker`, `BuriedOnce`, `NeverForOneAlone`, `OneBriefPerMatter`), dead workers found, the mission ends |
| `missions_concurrent` | two ticks, slug ticks or checks that may be killed, two attempts, one of them older than two hours, manual dispatches and loop runs, every owner command | `NoOutcomeUnseen` and `EvaluationsSeeThePast`, the inductive invariant of its proof |
| `paused_races` | executor and two resumers interleaved at every statement, every outcome, one kill, one manual resume, one dispatch elsewhere whose row may be read back | `RepeatedOnlyIfMisled`, `ImplementsLifecycle` |
| `paused_orderly` | one resumer after the executor, every outcome, two dispatches elsewhere, fair | `MirrorAgrees`, `AbandonedRunIsAnError`, `EveryPauseEnds` |
| `key_safe` | one desktop and the command line, two calls, four keys, two rows, fresh and upgraded machines, time-outs | `Readable`, `CanaryVouches`, `CacheCurrent` |
| `key_second_rekey` | as `key_safe` with `RekeyIfApplicable = FALSE` | finding, below |
| `observer` | one observer, one file of each format in turn, six lines of which a scan reads three, a rewind and two deaths, fair | `RowsAreTrue`, `LossIsBounded`, `RecordedOnce`, `CatchesUp` |
| `active_runs` | two runs on every pair of paths, one death of the desktop, one reload, fair | `OverlapIsMutual`, `CliIsVisible`, `StaleRowsGo`, `KillEnds` |
| `recipes` | two desktop events and one of a command line, a bus of one, one fault | `FiredOnce`, `SkippedWasHandled`, `RateLimitHolds` |
| `recipes_approvals` | two events of command lines, one of which the engine cannot parse, an asking and an acting recipe, pages of one, two faults, fair | `DecidedIsFinal`, `DecisionsResume`, `LedgerIsHandled` |
| `recipes_swallowed` | one event of each, the code's own limits, no fault | finding, below |
| `merge` | one operator at a time, three agents of which two clash and one of the two breaks a criterion, one death, one refused commit | `MergedIsIntegrated`, `BranchIsAccounted`, `CompleteIsVerified` |

Every property of a passing run is broken by a variant of a mapped definition that
stands for a plausible bug (the definitions commented "variant:").

**Bounds.** Missions: three attempts make the failure streak of three; two ticks are every
pair of overlapping processes, and a third meets nothing a second does not, since a tick
reads and writes only the shared log; `MaxTime` is the number of instants a behaviour may
stamp, ample for the sequential run (18) and, for the concurrent run (4), the depth at
which two processes can stamp twice each; `MaxExternal` is the number of owner commands
and deaths. PausedDispatch: three is `max_pause_count`, `MaxTime` 4 leaves an instant for
each wake (3 in the run with races, which still comes to an abandonment); two steps and
two attempts make every combination of retry, pause and a step already done. MasterKey:
the code has two versions; two calls make every race of a pair, and the theorem covers any
number (three calls with one row were run once as well, 2.5 million states, without
error). PassiveObserver: six lines hold two whole pairs and the cut of one of them, in a
Codex file after its first line; a scan reads three (`MaxRead`, for
`MAX_READ_BYTES_PER_SCAN`), so that both a file within one scan and a backlog of two
occur; one rewind and two deaths make every order of the two faults; files do not
interact, since all that is kept is kept per file. ActiveRuns: two runs make every pair of
paths, and the third party is the killer or the reaper. RecipesEngine: the three events
are the least with which the bus, which holds one, loses one while the poll brings all of
them; the limit of one is reached by the second. The liveness run has two events of
command lines instead, one of them unreadable, and pages of one row, so that the poll
passes the unreadable row in a page of its own and goes on. MissionMerge: three agents are
the least with a conflict, a regression and an innocent third; `MaxChecks` 4 is a check of
every agent's approval and the finish's (one of them may go to an approval again after a
rollback or a death); one death and one refusal make both orders of the two. Deadlock is
checked for MasterKey only, whose behaviours always go on: in the other runs they end when
the bounds are used up, or when there is nothing left to do.

**Fairness.** Missions: `WF` of each tick process, because launchd or cron keeps waking
`missions tick` and a started process runs on, and of the workers' steps together; none
for the owner. PausedDispatch: `WF` of the executor's steps, of each resumer's steps, and
of time. Scans get none: `run_resume_due` is reached only from `ato loop resume-due`,
which nothing in the repository runs by itself, so `EveryPauseEnds` carries the hypothesis
that somebody keeps running it (`ScansGoOn`), and without it TLC refutes `PausesEnd`
(section 5). A killed process is never owed a step. MasterKey states no liveness: nobody
promises that a user rekeys. PassiveObserver: `WF` of the worker's next step and of
`Start`, since the desktop is opened again; none for the writers, so that the rest of a
read that was cut off waits for an event that may never come. ActiveRuns: `WF` of each
dispatch path, of a killer who has read a pid, of the reaper (every rendering of the list
runs it) and of the desktop's start; none for kills, and none for a child's own end.
RecipesEngine: `WF` of both tasks' loops, of an action's end, of the resume tick per row,
and of the start; none for publishers and for the humans who decide. MissionMerge states
no liveness: a human approves.

## 4. What is proved

Machine-checked by TLAPS for all values of the constants that satisfy the modules'
named assumptions and those stated here. Each safety proof has the same shape: a
strengthening of the property that every step preserves, with one lemma per action or
group of actions, found with TLC first as an invariant of a run. `Extrema_proofs` holds
what the modules with latest events and next numbers need: a nonempty bounded set of
numbers has a least and a greatest element, by well-foundedness, since an induction
theorem cannot be instantiated with this prover.

| Theorem | For all | Assuming |
|---|---|---|
| `TypeCorrect` of all seven modules | constants | nothing more |
| Missions: `EvaluationsSeeThePastAlways`, `NoOutcomeUnseenAlways` | overlapping processes, crashes, owner commands | nothing more |
| Missions: `SoleWorkerAlways`, `BuriedOnceAlways`, `NeverForOneAloneAlways` | attempts, instants, owner commands | `Sequential`: one tick process, not killed, nothing else starting workers, none older than two hours |
| Missions: `OneBriefPerMatterAlways` | the same | `Sequential`, and the owner leaves the state alone |
| PausedDispatch: `LifecycleImplemented` | resumers, steps, kills | nothing more |
| PausedDispatch: `RepeatedOnlyIfMisledAlways` | the same, outcomes, rows of other dispatches | nothing more |
| PausedDispatch: `AbandonedRunIsAnErrorAlways` | resumers, steps, outcomes | resumes after the executor's last statement, no kills |
| PausedDispatch: `MirrorAgreesAlways` | steps, outcomes | the same, and one resumer |
| MasterKey: `ReadableAlways`, `CanaryVouchesAlways`, `CacheCurrentAlways` | calls, keys, rows | one desktop, `RekeyIfApplicable`, `FirstRunAlone`, no `LookupFails` |
| PassiveObserver: `RowsAreTrueAlways`, `RecordedOnceAlways`, `LossIsBoundedAlways` | files, lines, rewinds, deaths | one observer |
| ActiveRuns: `OverlapIsMutualAlways`, `CliIsVisibleAlways` | runs, killers, deaths | nothing more |
| RecipesEngine: `SkippedWasHandledAlways`, `RateLimitHoldsAlways`, `DecidedIsFinalAlways` | events, recipes, sizes of bus, page and cache, faults | nothing more |
| RecipesEngine: `FiredOnceAlways` | the same | `Few`: fewer events than the cache of claims holds |
| MissionMerge: `MergedIsIntegratedAlways`, `BranchIsAccountedAlways` | agents, clashes, criteria, deaths, refused commits | one operator at a time |
| MissionMerge: `CompleteIsVerifiedAlways` | the same (the property speaks of histories in which no approval was broken off) | one operator at a time |

The assumptions are not conveniences: without each of them TLC finds the property
violated, and section 5 says what happens then.

**Missions.** `NoOutcomeUnseen` is not inductive: it speaks of recorded events only, while
an outcome may be held by a worker about to record it. `EvaluationsSeeThePast` adds what
such workers hold and what a tick about to record an evaluation has seen; the clock's
order does the rest. For sequential ticks the two scans of a tick act on what they
selected earlier, while workers close and exit: `OneAtATime` says that every worker is a
tick's child, that the log tells what workers did (`LogIsTrue`), that a living worker is
on record or about to be (`AliveIsKnown`), what the selection is worth at each of the
tick's steps (`TickKnows`: a start still to be probed was born and not abandoned, a living
worker is among those the in-flight scan has yet to probe), and that an attempt gets one
closing event of each kind at most (`EachOnce`). `SoleWorker` and `BuriedOnce` follow
together. An attempt may well end twice, by its worker's event and by the abandonment of a
tick that had selected it before, but `EachOnce` tells the two apart by their kind, so the
failures of an attempt are two at most, and the three events of a streak belong to at
least two attempts (`StrikesCounted`, for `NeverForOneAlone`). `OneBriefPerMatter` needs
that a mission without a worker configuration has no workers (`Staffing`) and that a tick
about to brief comes later than every brief before it and has seen a change of state that
answers them (`BriefsInOrder`).

**PausedDispatch.** `LifecycleImplemented` maps every step to a step or a stutter of
`PauseLifecycle`, from `LifeInv` (types, one holder of a resuming row, as many wakes as
the count says, no row before the executor reaches its insert). `RepeatedOnlyIfMisled`
follows from `Unspent`: whenever a step may be dispatched again (`Pending`), and also
while a dispatch that did nothing is read back, its caller was told of a failure each time
it did its work (`Clear`); a dispatch adds one at most (`Paid`), and a read-back that ends
in a failure clears it, be the row it found its own or another's. The mirror is written
after the row, so that between the two writes they disagree: `MirrorInv` says who is to
set it right (`ExecutorFirst`, `MirrorFollows`: at most one resumer is between its two
writes), and `UntilFollows` that the date on its way to the mirror is the row's. The last
is false with two resumers in succession, hence the narrower assumption of `MirrorAgrees`.

**MasterKey.** The inductive invariant `Inv` adds to the three properties: the ledger has
one of two shapes; while v1 is active every row is labelled v1, so the rekey re-encrypts
every row; while there is no key there is one call at most; and for every call in flight,
that a key it resolved for the active account is that account's key (`KeyOK`), that only a
rekey refers to v2 before its commit (`RekeyOK`), that a save seals and stores under one
version (`SaveOK`), and that saves and rekeys hold their mutex (`HolderOK`). The lemma
`Step` carries whatever leaves the active version and its key alone; the steps that do not
(`SetPassword`, `MintKey`, `RekeyCommit`, a new call, a time-out, a restart) have a lemma
each.

**PassiveObserver.** `Truth`: the prompt an observer remembers is the last thing said
before the offset it will go on from, which is the stored one between scans (`Waiting`)
and a moving one within a scan (`Scanned`), or else the file was cut, nobody has scanned
it since, and it will be read from its start. `LineTruth` is the heart: an answer that is
read answers the remembered prompt, or none is remembered. `RecordedOnce` needs the number
each line ought to have. Both its cases quantify a witness `k` from ids to numbers, one on
at every answer to a prompt (`Numbered`), which a line that is appended extends
(`AppendNumbered`). Without deaths, and of a document read as a whole always (`Counted`,
in `Unbroken`), the observer never deviates from `k`: what it remembers is what the lines
before its offset leave (`Exact`), so a row's number is `k` of its answer, and a file that
is cut and read again from its start is numbered as before. Without cuts (`Kept`, in
`Unrewound`) a death forgets the prompt, an answer nobody waits for gets no number, and
the scan falls behind `k`; ids are then places in the file, the rows are the numbers from
1 to some `t`, and the invariant is that going on from the stored offset, or from where
the scan is, gives no recorded answer a number above `t` (`Behind`): a number that is
taken is left as it is by `INSERT OR IGNORE`, and the first that is free goes to an answer
that has none (`NotYet`). `LossIsBounded` compares what was said with the numbers that are
taken, with the same `k`. `Tallied`, beside `Counted`: a line raises `k` by one at most
(`Slow`), so what was said and has no number below the one reached at an offset is no more
than the lines cut away and still to read (`Reached`), and every number up to the stored
one has a row (`Filled`). `Owed`, beside `Kept`: the pairs of the lines before a place,
with the one that is interrupted there when no prompt waits (`Due`), exceed the number
reached by one for each death at most. An answer nobody waits for, which raises `k` and
not the number, was owed since the death before it (`DueOn`).

**ActiveRuns.** `OverlapIsMutual` and `CliIsVisible` need only what is known of a slot,
a row and the process id a killer holds; a fact of one path is disturbed by no other.

**RecipesEngine.** `Safe`: types, a task's row is the one it wrote for the event in its
hand, a task holds one recipe's lock at most, which no other holds (`Holding`), and a
claimed number belongs to an event that has a row or is about to get one (`Entering`).
`RateLimitHolds` needs that the room a task found when it entered is still there when it
writes its row (`Room`), which the lock provides. For `FiredOnce` it must be shown that an
event that may still come to a recipe a second time has its number in the cache: an event
of the desktop while it is on the bus, in a task's queue or ahead of the watermark
(`Pending`), an event of a command line, whose number may change between two reads,
because the poll comes to it once (`PolledOnce`, `CliDone`); and a task between its claim
and its row has an event the recipe has not had (`Fresh`). The cache forgets its smallest
number when it is full, which `Few` excludes: TLC finds `FiredOnce` violated with three
events and a cache of one or two, and not with three or four.

**MissionMerge.** That merged agents stay on the branch is inductive once the branch
between a squash and its record is known (`Tracked`: what is merged is contained in the last
commit but one while the last is on trial). `Explained` says where the rest of the branch
comes from: branch and index hold merged agents, agents whose approval was broken off, and
the one under way, each at its stage (`Placed`), whatever dies or is refused in between.
`Verified` says that, while nothing was broken off, the index is clean but for an approval's
own squash (`Clean`), so that what a finish has checked is what it completes.

Only model-checked: the liveness properties (`MissionEnds`, `DeadWorkersAreBuried`,
`EveryPauseEnds`, `CatchesUp`, `StaleRowsGo`, `KillEnds`, `DecisionsResume`,
`LedgerIsHandled`), which rest on fairness and are out of this prover's reach. Every
invariant a passing run checks has a theorem.

## 5. Findings and observations

Two are runs whose counterexample TLC finds:

- `key_second_rekey`: `rekey_master_key_with_keychain` overwrites `master_key_v2`
  before anything is checked; with v2 active that is the key of every row.
- `recipes_swallowed`: a command line's event takes the number MAX + 1, the desktop's
  next event takes the same from its counter, and the engine, which remembers numbers,
  drops the command line's event as a duplicate.

The following were refuted by TLC in the same way and have no run of their own. Where a
property is named it is defined in the module, last section; the constants that differ
from those of the module's passing run are given, and the specification is `Spec`
unless FairSpec is said.

| Refuted | With | What happens, and what is written |
|---|---|---|
| `Missions!SoleWorker` | two `Ticks` | two overlapping ticks both pass the in-flight scan and both spawn a worker; docs/v2.16-missions.md:63: "the coordinator tick refuses to spawn more than one in-flight Dispatch under a Mission at a time" |
| `Missions!ClosedOnce` | as `missions_sequential` | one tick selects a start, its worker closes the attempt and exits, and the tick's probe then finds it dead: the attempt is closed and abandoned |
| `Missions!ThreeStrikes` | as `missions_sequential` | the abandonment of such an attempt counts as a failure beside the outcome its worker recorded, so three failures may be two attempts' (and a success just recorded is followed by a failure); missions.rs:3616: "Worker has failed 3 times in a row" |
| `Missions!BlockedForFreshFailure` | `OwnerStates = {"in_progress"}`, `MaxExternal = 4` | a mission the owner reopens is blocked again by the next tick for the same three failures; missions.rs:3620: "fix the underlying error and set-state in_progress" |
| `PausedDispatch!NeverTwice` | as `paused_orderly` | a dispatch that worked and could not write its log row, or whose newest row is another's failure, is an error to the executor, which retries it; loops.rs:1832: "Retrying would risk duplicate paid work" |
| `PausedDispatch!ResumedHasRun` | as `paused_orderly` | a wake that fails reads another dispatch's success back and marks the row resumed; loops.rs:1765 names the gap |
| `PausedDispatch!PausesEnd` | FairSpec, as `paused_orderly` | nothing runs `run_resume_due` but `ato loop resume-due`, which somebody has to type or schedule; loops.rs:2248: "startup scanner"; docs/v2.16-missions.md:270 |
| `PausedDispatch!ResumingIsRetried` | FairSpec, as `paused_orderly` | a wake that ends in an error leaves the row in `resuming`, which nothing claims again, however often somebody scans; loops.rs:2349: "leave the paused row in 'resuming' so a retry can pick it up" |
| `MasterKey!RightKeyAccepted` | as `key_safe` | after a launch has filled `identity_probe` with the binary's probe, rekey compares it with a hash of the key and refuses the right key; rekey.rs:175: "Same shape as identity_probe::compute_probe" |
| `MasterKey!Readable` | `LookupFails = TRUE` | a rekey dies before it deletes the old keychain entry; a save that twice fails to read the ledger seals and opens under that entry, and stores a row that the active key does not open |
| `PassiveObserver!RestIsRead` | FairSpec, as `observer` | a scan that stops at `MAX_READ_BYTES_PER_SCAN` leaves the rest to the next event of the file system, which a finished session never sends; lib.rs:107: "history catches up immediately"; worker.rs:106: "let the next FS event pick up the rest" |
| `PassiveObserver!HistoryCatchesUp` | `Formats = {"codex"}`, one death | restarted after a Codex file's first line, an observer consumes the rest unrecorded; lib.rs:104: "the user's pre-launch history catches up immediately" |
| `PassiveObserver!RowsAreTrue` | two `Observers` | the desktop's and `ato observe` share offsets and not the waiting prompt, and an answer is recorded under an earlier prompt; docs/tiers.md:37: "writes every observed user→assistant pair" |
| `ActiveRuns!WipedAreDead` | `Kinds = {"cli"}` | the desktop's start deletes the row of a command line at work; schema.rs:519: "if any live_runs survived a prior crash, they're dead by definition" |
| `ActiveRuns!ForgottenSlotGoes` | `Kinds = {"context"}` | a slot the window forgot outlives every later begin_run and is evidence against each; commands/mod.rs:7932: "entry stays until next call to begin_run with same workspace" |
| `MissionMerge!RolledBackIsGone`, `MergedIsIntegrated` | two `Operators` | the rollback of one takes back the commit of the other and leaves the regression; missions.rs:2846: "The squash commit has been rolled back. Integration branch is clean." |
| `MissionMerge!SkippedIsLeftOut` | `MaxCrashes = 0` | git refuses ann's commit and her squash stays staged; the next approval commits it with cal's, ann is skipped, and the integration completes with her work and without her name; if everybody is skipped instead, the gate may even pass on staged files the head lacks. missions.rs:2769: "the commit fails — which is the right outcome; the operator should --skip instead" |
| `RecipesEngine!EveryEventIsHandled` | FairSpec, as `recipes_approvals` | the poll moves its watermark past an event the engine cannot parse; events_publisher.rs:277: ops recipes can react to `ratchet_breach` |
| `RecipesEngine!TurnedAwayIsNotCounted` | as `recipes` | the desktop dies between the insert of an audit row as `running` and its update to `rate_limited`, and the row counts as an execution until it is a minute old; recipes_engine/mod.rs:450: "Rate-limited rows are NOT counted toward the next window's quota" |
| `RecipesEngine!FiredOnce` | three desktop events, `SeenCap = Capacity = 2`, `RateLimit = 2` | the smallest number is forgotten while an older event is still to come by the other way, and fires again; with the code's 256 it takes that many claims while one task is held up by an action |

Seen while modelling, reachable in the models, with no run of their own:

- a tick killed between spawning a worker and inserting `dispatch_started` leaves a worker
  no later tick sees, against the comment at `missions.rs:3761`;
- a tick may spawn the next worker before the finished one's outcome was evaluated, having
  found it dead by a probe; two overlapping ticks abandon an attempt twice, block a
  mission for one attempt's failures (`BuriedOnce` and `NeverForOneAlone` fail with two
  `Ticks`) and write a brief twice;
- a tick aimed at a slug acts on a complete mission; a worker older than two hours is
  declared abandoned and then closes its attempt itself;
- a resume between the executor's row and its mirror leaves the run linked to a row that
  is resumed; the dispatch that first meets a dated limit fails its run and only a later
  one pauses; a resumed run keeps the status `paused` for ever; abandonment on a limit
  without a date writes no brief;
- two processes that both find no keychain entry (or a late keychain thread and the retry
  of its call) both set one, and the first may have confirmed and used its own; two
  desktops have two mutexes, so one may save under v1 while the other rekeys; a key saved
  after the rekey is labelled v1 by the column's default; the healer updates a row by id
  alone;
- the read-back of a wake matches the runtime's name and not its alias; two resumers in
  succession write the mirror after their row writes, the earlier one perhaps last;
- an observer that dies between a pair's insert and its save reads the line again and
  loses the prompt; deaths and a cut together lose more than the pairs the deaths
  interrupt and the lines the cut takes: a file of which two pairs were lost is cut by a
  line, the observer dies while it reads it again from the start (its offset and number
  are set back in memory only, worker.rs:148-158, and saved after the last row), the file
  grows past the old offset, and the pairs after it get numbers that the re-reading has
  given to others (3 deaths, 1 line cut, 17 lines: five pairs missing); `LossIsBounded`
  therefore bounds the two apart. A file that was cut numbers its new pairs from 1, and
  those whose numbers are taken are dropped; Codex's token counts never reach a row,
  because `emit_row` writes its own estimate where the update looks for NULL; a line
  longer than `MAX_READ_BYTES_PER_SCAN` is never got past;
- a Kill pressed before the handler is attached is lost; a child that closes its output
  and lingers is not ended by a kill that was accepted; streams never set a pid, so
  neither `ato kill` nor the reaper sees them; overlaps with dispatches of the command
  line are not noticed;
- a poll may read a command line's row before its payload has its number and take it for
  event 0; events published while the desktop is down are never handled; a death leaves an
  audit row `running` for ever; a lookup that fails loses its event, as the watermark has
  moved on;
- the failing check of a rolled-back approval is the next baseline, so that approving
  again passes (only `--finish` stands in the way); a death after the commit leaves the
  changes on the branch with no record, the agent cannot be approved again, and a skip
  then records it as left out; `--skip` asks nothing, also of an agent already merged; a
  forced cleanup of the worktree lets a new one start at the base while merged agents stay
  on record.

## 6. Assumptions and what is not modelled

SQLite statements succeed, except the log row of a dispatch (`unlogged`), the probe's
write, a rekey or resync transaction (`Busy`), a desktop event's insert on a number that
is taken, and the engine's lookup of recipes (`Miss`); a statement is atomic. Missions
models the `single_cwd` strategy: the worktree branch of a tick is not in it.
PausedDispatch models one runtime, one pause per run and dispatch steps only; a resume
dispatches with the runtime the row names; a dispatch's work, its log row and the limit it
meets are one step, the read-back another. MasterKey leaves out `master-key heal-orphans`,
the migration of plain rows, the `ATO_MASTER_KEY_B64` bypass and the mismatch banner; with
`LookupFails` the check of the cache and the resolution after it fail or not
independently, as in the code. PassiveObserver leaves out which directories exist, text
extraction, token counts and the pidfile of `ato observe`; a line is shorter than what a
scan reads, a longer one being never consumed at all; its first line after a cut comes
when the cut has been scanned (`MayWrite`). ActiveRuns leaves out reuse of process ids,
and a child that outlives its output. RecipesEngine leaves out triggers and templates
(every recipe matches every event), what an action does outside the database, and the
watcher of long runs; a count of executions that fails (`if let Some(count)`, mod.rs:469)
lets its event through, and an audit row that cannot be inserted is given up silently,
neither of which is modelled. In MissionMerge agents do not rework their branches, nobody
resolves a conflict by hand in the worktree, a `git reset` succeeds (the code ignores
whether it did), and `worktree cleanup` is left out.

The remaining components, and why each is left out, are listed in `PROJECT.json`. Most
of the repository's lines are of three kinds a state machine has nothing to say about:
interfaces and their commands that are one statement each (`commands/mod.rs`,
`skills.rs`, `projects.rs`, the React application), formatting and parsing (`main.rs`,
`dispatch.rs`, review tools, list-models), and processes and network calls whose other
side is elsewhere (tether, posts, team sharing, providers). What keeps state across
processes, and can therefore go wrong between two of them, is in the modules above.

## 7. Plan

In order of what it adds:

1. **LoopExecutor** with **RetryPolicy**: topological walk with cycle fallback, per-step
   retry, skip of dependents, fold of statuses (`loops.rs` 799-818, 1063-1422); the order
   as a recursive function checked against "every step after what it needs".
2. The healer as an action of MasterKey, with the lost update of a rotated row; the
   worktree cleanup as an action of MissionMerge.
3. **Agent permissions**: rule resolution as operators against a table.
4. War rooms: a summary taken while a round lands.

