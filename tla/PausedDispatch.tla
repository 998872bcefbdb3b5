--------------------------- MODULE PausedDispatch ---------------------------
(***************************************************************************)
(* Pause-and-wake: a loop run whose dispatch step meets an exhausted       *)
(* subscription is written to paused_dispatches and left; later somebody   *)
(* runs `ato loop resume-due` or `ato loop resume` (paused_dispatches.rs,  *)
(* and execute_loop, handle_dispatch, run_resume and run_resume_due of     *)
(* commands/loops.rs).  Nothing in the program runs either by itself.      *)
(*                                                                         *)
(* The executor and every resumer are OS processes over one SQLite file.   *)
(* Only the claim is a transaction: elsewhere a step is one statement, and *)
(* a dispatch (its work, its execution_logs row, its limit) is one step    *)
(* apart from the read-back of that row.  A run pauses at most once, so    *)
(* there is one row; the policy is pause-and-wake and every step of the    *)
(* loop is a dispatch to one runtime, which others use too.                *)
(***************************************************************************)
EXTENDS Naturals

CONSTANTS
    Resumers,     \* processes of `ato loop resume` and `ato loop resume-due`
    NumSteps,     \* dispatch steps of the loop
    MaxAttempts,  \* retry.max_attempts of a step
    Outcomes,     \* what a dispatch may come to
    MaxTime,      \* bound: the last instant, after which no limit is met
    MaxCrashes,   \* bound: number of killed processes
    MaxManual,    \* bound: number of resumes an operator asks for
    MaxElsewhere, \* bound: number of dispatches outside the loop that matter to it
    Interleaved   \* may a resume begin before the executor is done pausing?

ASSUME PausedAssumption ==
    /\ NumSteps \in Nat \ {0}
    /\ MaxAttempts \in 1..5
    /\ Outcomes \subseteq {"success", "dated", "undated", "failed", "lost", "unlogged", "refused"}
    /\ MaxTime \in Nat /\ MaxCrashes \in Nat
    /\ MaxManual \in Nat /\ MaxElsewhere \in Nat
    /\ Interleaved \in BOOLEAN

\* max_pause_count, as insert_new hard-codes it
MaxPause == 3

VARIABLES
    clock,    \* the time of day
    quota,    \* runtime_quotas.resets_at of the runtime, 0 when there is none
    row,      \* the paused_dispatches row: status, pause_count, reset_at
    run,      \* the loop_runs row: status, error and the mirror of the pause
    exec,     \* the executor process
    resumer,  \* the resumer processes
    dispatch, \* the dispatch under way: did it work, and what its read-back will find
    ran,      \* how often each step's dispatch did its work
    misled,   \* how often the caller of a dispatch that worked was told it failed
    wakes,    \* how often the row was claimed
    external  \* kills, operator's resumes and outside dispatches still to come

paid == <<dispatch, ran, misled>>
vars == <<clock, quota, row, run, exec, resumer, paid, wakes, external>>

Steps == 1..NumSteps

IdleResumer == [pc |-> "idle", reset |-> 0, brief |-> FALSE]

Init ==
    /\ clock = 0
    /\ quota = 0
    /\ row = [status |-> "none", count |-> 0, reset |-> 0]
    /\ run = [status |-> "running", error |-> "none", linked |-> FALSE, until |-> 0]
    /\ exec = [pc |-> "probe", step |-> 1, attempt |-> 1, reset |-> 0, last |-> "none"]
    /\ resumer = [r \in Resumers |-> IdleResumer]
    /\ dispatch = [worked |-> FALSE, row |-> "none", reset |-> 0]
    /\ ran = [s \in Steps |-> 0]
    /\ misled = [s \in Steps |-> 0]
    /\ wakes = 0
    /\ external = [crashes |-> MaxCrashes, manual |-> MaxManual, elsewhere |-> MaxElsewhere]

\* quota::lookup_future
Exhausted == quota > clock

\* the execution_logs rows a read-back may find
Logged == {"success", "dated", "undated", "failed"}

\* the outcomes that are an Err of dispatch::run: no read-back follows
Errs == {"unlogged", "refused"}

\* What a dispatch leaves in runtime_quotas.  A limit that names the instant it
\* ends is recorded; `limit` is the instant its caller will wait for.
Limit(outcome, limit) ==
    /\ outcome \in {"dated", "undated"} => clock < MaxTime
    /\ CASE outcome \in {"success", "lost"} -> quota' = 0 /\ limit = 0
         [] outcome = "dated" -> quota' = limit /\ limit \in (clock + 1)..MaxTime
         [] outcome = "undated" -> UNCHANGED quota /\ limit = clock + 1
         [] OTHER -> UNCHANGED quota /\ limit = 0

\* dispatch::run for the step the executor stands at: it may refuse at its own
\* pre-flight, do the work and log it, do the work and leave no row under the
\* runtime's name ("lost"), do the work and fail to insert its row ("unlogged",
\* an Err), meet a limit that names the instant it ends or one that does not, or
\* any other error.
Dispatch(outcome) ==
    /\ outcome \in IF Exhausted THEN {"refused"} ELSE Outcomes
    /\ \E limit \in 0..MaxTime :
         /\ Limit(outcome, limit)
         /\ dispatch' = [worked |-> outcome \in {"success", "lost", "unlogged"},
                         row |-> IF outcome \in Logged THEN outcome ELSE "none",
                         reset |-> limit]
    /\ ran' = IF dispatch'.worked THEN [ran EXCEPT ![exec.step] = @ + 1] ELSE ran
    /\ misled' = IF outcome = "unlogged" THEN [misled EXCEPT ![exec.step] = @ + 1]
                 ELSE misled

\* The caller takes the newest row of the runtime for its own.
ReadBack ==
    /\ misled' = IF dispatch.worked /\ dispatch.row \in Logged \ {"success"}
                 THEN [misled EXCEPT ![exec.step] = @ + 1] ELSE misled
    /\ UNCHANGED <<dispatch, ran>>

-----------------------------------------------------------------------------
(* The executor *)

ExecAt(pc, to) == exec.pc = pc /\ exec' = [exec EXCEPT !.pc = to]

\* handle_dispatch's pre-flight
ExecProbe ==
    /\ exec.pc = "probe"
    /\ exec' = IF Exhausted THEN [exec EXCEPT !.pc = "insert", !.reset = quota]
               ELSE [exec EXCEPT !.pc = "fire"]
    /\ UNCHANGED <<clock, quota, row, run, resumer, paid, wakes, external>>

\* a failed attempt is tried again while attempts are left
Failed(outcome) ==
    exec' = IF exec.attempt < MaxAttempts
            THEN [exec EXCEPT !.pc = "probe", !.attempt = @ + 1, !.last = outcome]
            ELSE [exec EXCEPT !.pc = "finish", !.last = outcome]

Succeeded ==
    exec' = IF exec.step < NumSteps
            THEN [exec EXCEPT !.pc = "probe", !.step = @ + 1, !.attempt = 1, !.last = "success"]
            ELSE [exec EXCEPT !.pc = "finish", !.last = "success"]

\* the dispatch; an Err is an attempt that failed
ExecFire ==
    /\ exec.pc = "fire"
    /\ \E outcome \in Outcomes \cup {"refused"} :
         /\ Dispatch(outcome)
         /\ IF outcome \in Errs THEN Failed(outcome)
            ELSE exec' = [exec EXCEPT !.pc = "readback"]
    /\ UNCHANGED <<clock, row, run, resumer, wakes, external>>

\* variant: a dispatch whose row is not found is retried like any other failure
ExecReadBackAgain ==
    /\ exec.pc = "readback"
    /\ ReadBack
    /\ IF dispatch.row = "success" THEN Succeeded ELSE Failed(dispatch.row)
    /\ UNCHANGED <<clock, quota, row, run, resumer, wakes, external>>

\* the read-back, and the retry loop of execute_loop: FailedNoRetry for a dispatch
\* that ran and cannot be confirmed
ExecReadBack ==
    /\ exec.pc = "readback"
    /\ ReadBack
    /\ CASE dispatch.row = "success" -> Succeeded
         [] dispatch.row = "none" -> exec' = [exec EXCEPT !.pc = "finish", !.last = "lost"]
         [] OTHER -> Failed(dispatch.row)
    /\ UNCHANGED <<clock, quota, row, run, resumer, wakes, external>>

\* insert_new: the row first, its mirror on loop_runs after
ExecInsert ==
    /\ ExecAt("insert", "mirror")
    /\ row' = [status |-> "paused", count |-> 1, reset |-> exec.reset]
    /\ UNCHANGED <<clock, quota, run, resumer, paid, wakes, external>>

Link == run' = [run EXCEPT !.linked = TRUE, !.until = exec.reset]

ExecMirror ==
    /\ ExecAt("mirror", "remirror")
    /\ Link
    /\ UNCHANGED <<clock, quota, row, resumer, paid, wakes, external>>

\* execute_loop writes the mirror once more
ExecRemirror ==
    /\ ExecAt("remirror", "finish")
    /\ Link
    /\ UNCHANGED <<clock, quota, row, resumer, paid, wakes, external>>

\* the final status, whatever a resumer wrote in between
ExecFinish ==
    /\ ExecAt("finish", "done")
    /\ run' = IF exec.reset # 0
              THEN [run EXCEPT !.status = "paused", !.error = "resume hint"]
              ELSE IF exec.last = "success" THEN [run EXCEPT !.status = "success"]
              ELSE [run EXCEPT !.status = "error", !.error = "step"]
    /\ UNCHANGED <<clock, quota, row, resumer, paid, wakes, external>>

Killed == external.crashes > 0 /\ external' = [external EXCEPT !.crashes = @ - 1]

ExecCrash ==
    /\ Killed
    /\ exec.pc # "done"
    /\ exec' = [exec EXCEPT !.pc = "done"]
    /\ UNCHANGED <<clock, quota, row, run, resumer, paid, wakes>>

ExecStep ==
    \/ ExecProbe \/ ExecFire \/ ExecReadBack
    \/ ExecInsert \/ ExecMirror \/ ExecRemirror \/ ExecFinish

-----------------------------------------------------------------------------
(* A resumer *)

Goto(r, to) == resumer' = [resumer EXCEPT ![r].pc = to]
Stop(r) == resumer' = [resumer EXCEPT ![r] = IdleResumer]
At(r, pc) == resumer[r].pc = pc

\* a re-pause or an abandonment to come, with or without a decision brief
Postpone(r, reset, brief) ==
    resumer' = [resumer EXCEPT ![r] = [pc |-> "postpone", reset |-> reset, brief |-> brief]]

MayResume == Interleaved \/ exec.pc = "done"

\* variant: a row is due strictly after its reset
ScanStrictly(r) ==
    /\ At(r, "idle") /\ MayResume
    /\ row.status = "paused" /\ row.reset < clock
    /\ Goto(r, "claim")
    /\ UNCHANGED <<clock, quota, row, run, exec, paid, wakes, external>>

\* run_resume_due: list_due
Scan(r) ==
    /\ At(r, "idle") /\ MayResume
    /\ row.status = "paused" /\ row.reset <= clock
    /\ Goto(r, "claim")
    /\ UNCHANGED <<clock, quota, row, run, exec, paid, wakes, external>>

\* `ato loop resume <id>`, whatever the state of the row
Manual(r) ==
    /\ At(r, "idle") /\ MayResume
    /\ row.status # "none"
    /\ external.manual > 0 /\ external' = [external EXCEPT !.manual = @ - 1]
    /\ Goto(r, "claim")
    /\ UNCHANGED <<clock, quota, row, run, exec, paid, wakes>>

\* variant: the status is not looked at
ClaimUnchecked(r) ==
    /\ At(r, "claim")
    /\ row' = [row EXCEPT !.status = "resuming"]
    /\ wakes' = wakes + 1
    /\ Goto(r, "preflight")
    /\ UNCHANGED <<clock, quota, run, exec, paid, external>>

\* claim_for_resume, one transaction
Claim(r) ==
    /\ At(r, "claim")
    /\ \/ /\ row.status = "paused"
          /\ row' = [row EXCEPT !.status = "resuming"]
          /\ wakes' = wakes + 1
          /\ Goto(r, "preflight")
       \/ row.status # "paused" /\ Stop(r) /\ UNCHANGED <<row, wakes>>
    /\ UNCHANGED <<clock, quota, run, exec, paid, external>>

Preflight(r) ==
    /\ At(r, "preflight")
    /\ IF Exhausted THEN Postpone(r, quota, TRUE) ELSE Goto(r, "fire")
    /\ UNCHANGED <<clock, quota, row, run, exec, paid, wakes, external>>

\* the wake-time dispatch; after an Err the row stays 'resuming'
Fire(r) ==
    /\ At(r, "fire")
    /\ \E outcome \in Outcomes \cup {"refused"} :
         /\ Dispatch(outcome)
         /\ IF outcome \in Errs THEN Stop(r) ELSE Goto(r, "readback")
    /\ UNCHANGED <<clock, row, run, exec, wakes, external>>

\* its read-back: a limit's date is recorded once more; the row stays 'resuming'
\* after an error that is no limit and when there is no execution_logs row
WakeReadBack(r) ==
    /\ At(r, "readback")
    /\ ReadBack
    /\ quota' = IF dispatch.row = "dated" THEN dispatch.reset ELSE quota
    /\ CASE dispatch.row = "success" -> Goto(r, "resumed")
         [] dispatch.row \in {"dated", "undated"} ->
              Postpone(r, dispatch.reset, dispatch.row = "dated")
         [] OTHER -> Stop(r)
    /\ UNCHANGED <<clock, row, run, exec, wakes, external>>

\* mark_resumed
MarkResumed(r) ==
    /\ At(r, "resumed")
    /\ row' = [row EXCEPT !.status = "resumed"]
    /\ Goto(r, "unlink")
    /\ UNCHANGED <<clock, quota, run, exec, paid, wakes, external>>

\* the mirror's UPDATEs say WHERE paused_dispatch_id = <id>
Unlinked == [run EXCEPT !.linked = FALSE, !.until = 0]

\* variant: the mirror is left behind
UnlinkNot(r) ==
    /\ At(r, "unlink")
    /\ Stop(r)
    /\ UNCHANGED <<clock, quota, row, run, exec, paid, wakes, external>>

Unlink(r) ==
    /\ At(r, "unlink")
    /\ run' = IF run.linked THEN Unlinked ELSE run
    /\ Stop(r)
    /\ UNCHANGED <<clock, quota, row, exec, paid, wakes, external>>

\* variant: the count is compared before it is raised
PostponeOnceMore(r) ==
    /\ At(r, "postpone")
    /\ row' = IF row.count > MaxPause THEN [row EXCEPT !.status = "abandoned"]
              ELSE [status |-> "paused", count |-> row.count + 1, reset |-> resumer[r].reset]
    /\ Goto(r, IF row.count > MaxPause THEN "abandon" ELSE "move")
    /\ UNCHANGED <<clock, quota, run, exec, paid, wakes, external>>

\* re_pause_or_abandon, the row
RePauseOrAbandon(r) ==
    /\ At(r, "postpone")
    /\ IF row.count + 1 > MaxPause
       THEN row' = [row EXCEPT !.status = "abandoned"] /\ Goto(r, "abandon")
       ELSE /\ row' = [status |-> "paused", count |-> row.count + 1,
                       reset |-> resumer[r].reset]
            /\ Goto(r, "move")
    /\ UNCHANGED <<clock, quota, run, exec, paid, wakes, external>>

\* re_pause_or_abandon, the mirror of a re-pause
MoveMirror(r) ==
    /\ At(r, "move")
    /\ run' = IF run.linked THEN [run EXCEPT !.until = resumer[r].reset] ELSE run
    /\ Stop(r)
    /\ UNCHANGED <<clock, quota, row, exec, paid, wakes, external>>

\* variant: the mirror is cleared and the run left as it was
AbandonMirrorOnly(r) ==
    /\ At(r, "abandon")
    /\ run' = IF run.linked THEN Unlinked ELSE run
    /\ IF resumer[r].brief THEN Goto(r, "brief") ELSE Stop(r)
    /\ UNCHANGED <<clock, quota, row, exec, paid, wakes, external>>

\* re_pause_or_abandon, the mirror of an abandonment: COALESCE keeps the hint
AbandonMirror(r) ==
    /\ At(r, "abandon")
    /\ run' = IF run.linked
              THEN [Unlinked EXCEPT !.status = "error",
                        !.error = IF @ = "none" THEN "abandoned" ELSE @]
              ELSE run
    /\ IF resumer[r].brief THEN Goto(r, "brief") ELSE Stop(r)
    /\ UNCHANGED <<clock, quota, row, exec, paid, wakes, external>>

\* the decision brief goes to loop_runs.error, found by the run's own id
Brief(r) ==
    /\ At(r, "brief")
    /\ run' = [run EXCEPT !.error = "brief"]
    /\ Stop(r)
    /\ UNCHANGED <<clock, quota, row, exec, paid, wakes, external>>

ResumerCrash(r) ==
    /\ Killed
    /\ ~At(r, "idle")
    /\ Stop(r)
    /\ UNCHANGED <<clock, quota, row, run, exec, paid, wakes>>

ResumerStep(r) ==
    \/ Claim(r) \/ Preflight(r) \/ Fire(r) \/ WakeReadBack(r)
    \/ MarkResumed(r) \/ Unlink(r)
    \/ RePauseOrAbandon(r) \/ MoveMirror(r) \/ AbandonMirror(r) \/ Brief(r)

-----------------------------------------------------------------------------
\* The hours a reset takes pass once the executor's few statements are written,
\* unless Interleaved.
Advance ==
    /\ clock < MaxTime
    /\ Interleaved \/ exec.pc \in {"probe", "fire", "readback", "done"}
    /\ clock' = clock + 1
    /\ UNCHANGED <<quota, row, run, exec, resumer, paid, wakes, external>>

\* the executor or a resumer has yet to look for its row
Reading == exec.pc = "readback" \/ \E r \in Resumers : At(r, "readback")

\* A dispatch outside the loop clears the runtime's limit, meets one, or fails:
\* its row is the newest for a read-back to come.
Elsewhere ==
    /\ external.elsewhere > 0 /\ external' = [external EXCEPT !.elsewhere = @ - 1]
    /\ \E outcome \in IF Reading THEN Logged ELSE {"success", "dated"}, limit \in 0..MaxTime :
         /\ Limit(outcome, limit)
         /\ dispatch' = IF Reading THEN [dispatch EXCEPT !.row = outcome, !.reset = limit]
                        ELSE dispatch
    /\ UNCHANGED <<clock, row, run, exec, resumer, ran, misled, wakes>>

Next ==
    \/ ExecStep \/ ExecCrash
    \/ \E r \in Resumers : Scan(r) \/ Manual(r) \/ ResumerStep(r) \/ ResumerCrash(r)
    \/ Advance \/ Elsewhere

Spec == Init /\ [][Next]_vars

\* A process that was started runs to its end, and time passes.  Nobody is bound
\* to start one.
Fairness ==
    /\ WF_vars(ExecStep)
    /\ \A r \in Resumers : WF_vars(ResumerStep(r))
    /\ WF_vars(Advance)

FairSpec == Spec /\ Fairness

-----------------------------------------------------------------------------
RowType == [status : {"none", "paused", "resuming", "resumed", "abandoned"},
            count : 0..MaxPause, reset : 0..MaxTime]
RunType == [status : {"running", "paused", "success", "error"},
            error : {"none", "step", "resume hint", "abandoned", "brief"},
            linked : BOOLEAN, until : 0..MaxTime]
ExecType == [pc : {"probe", "fire", "readback", "insert", "mirror", "remirror", "finish", "done"},
             step : Steps, attempt : 1..MaxAttempts, reset : 0..MaxTime,
             last : Logged \cup Errs \cup {"none", "lost"}]
ResumerType == [pc : {"idle", "claim", "preflight", "fire", "readback", "resumed",
                      "unlink", "postpone", "move", "abandon", "brief"},
                reset : 0..MaxTime, brief : BOOLEAN]
DispatchType == [worked : BOOLEAN, row : Logged \cup {"none"}, reset : 0..MaxTime]

\* The type of every variable.
TypeOK ==
    /\ clock \in 0..MaxTime /\ quota \in 0..MaxTime
    /\ row \in RowType /\ run \in RunType
    /\ exec \in ExecType
    /\ resumer \in [Resumers -> ResumerType]
    /\ dispatch \in DispatchType
    /\ ran \in [Steps -> Nat] /\ misled \in [Steps -> Nat]
    /\ wakes \in Nat
    /\ external \in [crashes : Nat, manual : Nat, elsewhere : Nat]

-----------------------------------------------------------------------------
(* However the processes interleave, and wherever they are killed *)

\* Paid work is repeated only when somebody was told it had failed: counting the
\* executor's retries, its pause and everyone who resumes it, a step does its work
\* once, and once more for every dispatch that worked and whose caller got an Err or
\* took another dispatch's failure for its own.
RepeatedOnlyIfMisled == \A s \in Steps : ran[s] <= misled[s] + 1

Lifecycle == INSTANCE PauseLifecycle
                WITH MaxWakes <- MaxPause, status <- row.status, wakes <- wakes

\* The row goes through its life as promised: one resumer at a time, at most three
\* wakes, abandoned only after three that failed.
ImplementsLifecycle == Lifecycle!Spec

-----------------------------------------------------------------------------
(* When resumes wait for the executor's last statement and nobody is killed *)

AtRest == exec.pc = "done" /\ \A r \in Resumers : At(r, "idle")

\* "paused_dispatches AUTHORITATIVE; loop_runs.paused_until is a mirror": once
\* every process is done, the run points at the row exactly while the row is
\* pending, and shows the row's own reset time.
MirrorAgrees ==
    AtRest =>
        /\ run.linked <=> row.status \in {"paused", "resuming"}
        /\ run.linked => run.until = row.reset

\* The run of an abandoned dispatch is an error, not a pause.
AbandonedRunIsAnError ==
    AtRest /\ row.status = "abandoned" => run.status = "error"

-----------------------------------------------------------------------------
(* Under FairSpec *)

\* The wake that held the row is over, and what it read back was an error that is
\* no limit, or nothing: nobody has the row, and no scan selects it.
LeftBehind ==
    /\ row.status = "resuming" /\ \A r \in Resumers : At(r, "idle")
    /\ dispatch.row \in {"failed", "none"}

\* Somebody keeps running `ato loop resume-due`.
ScansGoOn == \A r \in Resumers : WF_vars(Scan(r))

\* As long as somebody keeps scanning, a paused dispatch is not forgotten: it is
\* resumed, given up after its wakes, or left behind by a wake whose dispatch failed
\* otherwise than by a limit.
EveryPauseEnds ==
    ScansGoOn =>
        (row.status = "paused" ~> row.status \in {"resumed", "abandoned"} \/ LeftBehind)

-----------------------------------------------------------------------------
(* What comments and the settings page say, and the code does not do *)

\* Paid work is never repeated.
NeverTwice == \A s \in Steps : ran[s] <= 1

\* A dispatch that is resumed has done its work.
ResumedHasRun == row.status = "resumed" => ran[exec.step] > 0

\* A paused dispatch is picked up at its reset by itself.
PausesEnd == row.status = "paused" ~> row.status # "paused"

\* A row left in 'resuming' is picked up again.
ResumingIsRetried == ScansGoOn => (row.status = "resuming" ~> row.status # "resuming")
=============================================================================
