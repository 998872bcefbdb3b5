------------------------ MODULE PausedDispatch_proofs ------------------------
(***************************************************************************)
(* PausedDispatch for every number of processes, steps, instants and kills. *)
(***************************************************************************)
EXTENDS PausedDispatch, TLAPS

USE DEF paid

-----------------------------------------------------------------------------
(* Types *)

LEMMA InitType == Init => TypeOK
  BY PausedAssumption
  DEF Init, TypeOK, RowType, RunType, ExecType, ResumerType, DispatchType, IdleResumer, Steps,
      MaxPause

\* the moves of a resumer keep it a resumer
LEMMA GotoType ==
  ASSUME TypeOK, NEW r \in Resumers, NEW pc, Goto(r, pc),
         pc \in {"idle", "claim", "preflight", "fire", "readback", "resumed",
                 "unlink", "postpone", "move", "abandon", "brief"}
  PROVE  resumer' \in [Resumers -> ResumerType]
  BY DEF TypeOK, Goto, ResumerType

LEMMA StopType ==
  ASSUME TypeOK, NEW r \in Resumers, Stop(r)
  PROVE  resumer' \in [Resumers -> ResumerType]
  <1>1. IdleResumer \in ResumerType
    BY PausedAssumption DEF IdleResumer, ResumerType
  <1> QED BY <1>1 DEF TypeOK, Stop

LEMMA PostponeType ==
  ASSUME TypeOK, NEW r \in Resumers, NEW reset \in 0..MaxTime, NEW brief \in BOOLEAN,
         Postpone(r, reset, brief)
  PROVE  resumer' \in [Resumers -> ResumerType]
  BY DEF TypeOK, Postpone, ResumerType

\* clearing the mirror keeps a run a run
LEMMA UnlinkedType == TypeOK => Unlinked \in RunType
  <1> SUFFICES ASSUME TypeOK PROVE Unlinked \in RunType
    OBVIOUS
  <1>1. 0 \in 0..MaxTime
    BY PausedAssumption
  <1>2. run \in RunType
    BY DEF TypeOK
  <1>3. [run EXCEPT !.linked = FALSE] \in RunType
    BY <1>2 DEF RunType
  <1>4. \A x \in RunType : [x EXCEPT !.until = 0] \in RunType
    BY <1>1 DEF RunType
  <1>5. Unlinked = [[run EXCEPT !.linked = FALSE] EXCEPT !.until = 0]
    BY <1>2 DEF Unlinked, RunType
  <1> QED BY <1>3, <1>4, <1>5

\* a limit is an instant, whoever meets it
LEMMA LimitType ==
  ASSUME TypeOK, NEW outcome, NEW limit \in 0..MaxTime, Limit(outcome, limit)
  PROVE  quota' \in 0..MaxTime
  BY PausedAssumption DEF Limit, TypeOK

\* what every dispatch does to the step counts and to the limit, whoever fires it
LEMMA DispatchTypes ==
  ASSUME TypeOK, NEW outcome, Dispatch(outcome)
  PROVE  /\ ran' \in [Steps -> Nat] /\ misled' \in [Steps -> Nat]
         /\ quota' \in 0..MaxTime
         /\ dispatch' \in DispatchType
  <1>1. exec.step \in Steps /\ ran \in [Steps -> Nat] /\ misled \in [Steps -> Nat]
    BY DEF TypeOK, ExecType
  <1>2. ran' \in [Steps -> Nat] /\ misled' \in [Steps -> Nat]
    BY <1>1 DEF Dispatch
  <1>3. PICK limit \in 0..MaxTime :
          /\ Limit(outcome, limit)
          /\ dispatch' = [worked |-> outcome \in {"success", "lost", "unlogged"},
                          row |-> IF outcome \in Logged THEN outcome ELSE "none",
                          reset |-> limit]
    BY DEF Dispatch
  <1>4. quota' \in 0..MaxTime
    BY <1>3, LimitType
  <1>5. dispatch' \in DispatchType
    BY <1>3 DEF DispatchType
  <1> QED BY <1>2, <1>4, <1>5

\* and what its read-back does to them
LEMMA ReadBackTypes ==
  ASSUME TypeOK, ReadBack
  PROVE  misled' \in [Steps -> Nat] /\ UNCHANGED <<dispatch, ran>>
  <1>1. exec.step \in Steps /\ misled \in [Steps -> Nat]
    BY DEF TypeOK, ExecType
  <1> QED BY <1>1 DEF ReadBack

\* the executor's next attempt, or its next step
LEMMA FailedType ==
  ASSUME TypeOK, NEW outcome \in Logged \cup Errs, Failed(outcome)
  PROVE  exec' \in ExecType
  <1>1. exec.attempt < MaxAttempts => exec.attempt + 1 \in 1..MaxAttempts
    BY PausedAssumption DEF TypeOK, ExecType
  <1> QED BY <1>1 DEF Failed, TypeOK, ExecType

LEMMA SucceededType ==
  ASSUME TypeOK, Succeeded
  PROVE  exec' \in ExecType
  <1>1. exec.step < NumSteps => exec.step + 1 \in Steps
    BY PausedAssumption DEF TypeOK, ExecType, Steps
  <1>2. 1 \in 1..MaxAttempts /\ exec \in ExecType
    BY PausedAssumption DEF TypeOK
  <1> QED BY <1>1, <1>2 DEF Succeeded, ExecType, Logged

LEMMA ExecType1 ==
  ASSUME TypeOK, ExecStep
  PROVE  TypeOK'
  <1>1. CASE ExecProbe
    BY <1>1 DEF ExecProbe, TypeOK, ExecType
  <1>2. CASE ExecFire
    <2>1. PICK outcome \in Outcomes \cup {"refused"} :
            /\ Dispatch(outcome)
            /\ IF outcome \in Errs THEN Failed(outcome)
               ELSE exec' = [exec EXCEPT !.pc = "readback"]
      BY <1>2 DEF ExecFire
    <2>2. exec' \in ExecType
      <3>1. CASE outcome \in Errs
        BY <2>1, <3>1, FailedType
      <3>2. CASE outcome \notin Errs
        BY <2>1, <3>2 DEF TypeOK, ExecType
      <3> QED BY <3>1, <3>2
    <2> QED BY <1>2, <2>1, <2>2, DispatchTypes DEF ExecFire, TypeOK
  <1>7. CASE ExecReadBack
    <2>1. ReadBack /\ UNCHANGED <<clock, quota, row, run, resumer, wakes, external>>
      BY <1>7 DEF ExecReadBack
    <2>2. dispatch.row \in Logged \cup {"none"}
      BY DEF TypeOK, DispatchType
    <2>3. exec' \in ExecType
      <3>1. CASE dispatch.row = "success"
        BY <1>7, <3>1, SucceededType DEF ExecReadBack
      <3>2. CASE dispatch.row = "none"
        BY <1>7, <3>2 DEF ExecReadBack, TypeOK, ExecType
      <3>3. CASE dispatch.row \notin {"success", "none"}
        <4>1. Failed(dispatch.row)
          BY <1>7, <3>3 DEF ExecReadBack
        <4> QED BY <2>2, <3>3, <4>1, FailedType
      <3> QED BY <3>1, <3>2, <3>3
    <2> QED BY <2>1, <2>3, ReadBackTypes DEF TypeOK
  <1>3. CASE ExecInsert
    BY <1>3 DEF ExecInsert, ExecAt, TypeOK, ExecType, RowType, MaxPause
  <1>4. CASE ExecMirror
    BY <1>4 DEF ExecMirror, ExecAt, Link, TypeOK, ExecType, RunType
  <1>5. CASE ExecRemirror
    BY <1>5 DEF ExecRemirror, ExecAt, Link, TypeOK, ExecType, RunType
  <1>6. CASE ExecFinish
    BY <1>6 DEF ExecFinish, ExecAt, TypeOK, ExecType, RunType
  <1> QED BY <1>1, <1>2, <1>3, <1>4, <1>5, <1>6, <1>7 DEF ExecStep

LEMMA ResumerType1 ==
  ASSUME TypeOK, NEW r \in Resumers, ResumerStep(r)
  PROVE  TypeOK'
  <1>1. CASE Claim(r)
    BY <1>1, GotoType, StopType DEF Claim, TypeOK, RowType
  <1>2. CASE Preflight(r)
    BY <1>2, GotoType, PostponeType DEF Preflight, TypeOK
  <1>3. CASE Fire(r)
    <2>1. PICK outcome \in Outcomes \cup {"refused"} :
            Dispatch(outcome) /\ (Stop(r) \/ Goto(r, "readback"))
      BY <1>3 DEF Fire
    <2>2. resumer' \in [Resumers -> ResumerType]
      BY <2>1, GotoType, StopType
    <2> QED BY <1>3, <2>1, <2>2, DispatchTypes DEF Fire, TypeOK
  <1>10. CASE WakeReadBack(r)
    <2>1. ReadBack /\ UNCHANGED <<clock, row, run, exec, wakes, external>>
      BY <1>10 DEF WakeReadBack
    <2>2. dispatch.reset \in 0..MaxTime /\ (dispatch.row = "dated") \in BOOLEAN
      BY DEF TypeOK, DispatchType
    <2>3. quota' \in 0..MaxTime
      BY <1>10, <2>2 DEF WakeReadBack, TypeOK
    <2>4. \/ Goto(r, "resumed") \/ Stop(r)
          \/ Postpone(r, dispatch.reset, dispatch.row = "dated")
      BY <1>10 DEF WakeReadBack
    <2>5. resumer' \in [Resumers -> ResumerType]
      BY <2>2, <2>4, GotoType, StopType, PostponeType
    <2> QED BY <2>1, <2>3, <2>5, ReadBackTypes DEF TypeOK
  <1>4. CASE MarkResumed(r)
    BY <1>4, GotoType DEF MarkResumed, TypeOK, RowType
  <1>5. CASE Unlink(r)
    BY <1>5, StopType, UnlinkedType DEF Unlink, TypeOK
  <1>6. CASE RePauseOrAbandon(r)
    <2>1. resumer[r].reset \in 0..MaxTime
      BY DEF TypeOK, ResumerType
    <2>2. row.count + 1 <= MaxPause => row.count + 1 \in 0..MaxPause
      BY DEF TypeOK, RowType, MaxPause
    <2>3. row' \in RowType
      BY <1>6, <2>1, <2>2 DEF RePauseOrAbandon, TypeOK, RowType, MaxPause
    <2>4. resumer' \in [Resumers -> ResumerType]
      BY <1>6, GotoType DEF RePauseOrAbandon
    <2> QED BY <1>6, <2>3, <2>4 DEF RePauseOrAbandon, TypeOK
  <1>7. CASE MoveMirror(r)
    BY <1>7, StopType DEF MoveMirror, TypeOK, ResumerType, RunType
  <1>8. CASE AbandonMirror(r)
    <2>1. Unlinked \in RunType
      BY UnlinkedType
    <2>2. run' \in RunType
      BY <1>8, <2>1 DEF AbandonMirror, TypeOK, RunType
    <2>3. resumer' \in [Resumers -> ResumerType]
      BY <1>8, StopType, GotoType DEF AbandonMirror
    <2> QED BY <1>8, <2>2, <2>3 DEF AbandonMirror, TypeOK
  <1>9. CASE Brief(r)
    BY <1>9, StopType DEF Brief, TypeOK, RunType
  <1> QED BY <1>1, <1>2, <1>3, <1>4, <1>5, <1>6, <1>7, <1>8, <1>9, <1>10 DEF ResumerStep

LEMMA NextType == TypeOK /\ [Next]_vars => TypeOK'
  <1> SUFFICES ASSUME TypeOK, [Next]_vars PROVE TypeOK'
    OBVIOUS
  <1>1. CASE ExecStep
    BY <1>1, ExecType1
  <1>2. CASE ExecCrash
    BY <1>2 DEF ExecCrash, Killed, TypeOK, ExecType
  <1>3. ASSUME NEW r \in Resumers, Scan(r)
        PROVE TypeOK'
    BY <1>3, GotoType DEF Scan, TypeOK
  <1>4. ASSUME NEW r \in Resumers, Manual(r)
        PROVE TypeOK'
    BY <1>4, GotoType DEF Manual, TypeOK
  <1>5. ASSUME NEW r \in Resumers, ResumerStep(r)
        PROVE TypeOK'
    BY <1>5, ResumerType1
  <1>6. ASSUME NEW r \in Resumers, ResumerCrash(r)
        PROVE TypeOK'
    BY <1>6, StopType DEF ResumerCrash, Killed, TypeOK
  <1>7. CASE Advance
    BY <1>7, PausedAssumption DEF Advance, TypeOK
  <1>8. CASE Elsewhere
    <2>1. PICK outcome \in Logged, limit \in 0..MaxTime :
            /\ Limit(outcome, limit)
            /\ dispatch' = IF Reading THEN [dispatch EXCEPT !.row = outcome, !.reset = limit]
                           ELSE dispatch
      BY <1>8 DEF Elsewhere, Logged
    <2>2. dispatch' \in DispatchType
      BY <2>1 DEF TypeOK, DispatchType
    <2>3. external' \in [crashes : Nat, manual : Nat, elsewhere : Nat]
      BY <1>8 DEF Elsewhere, TypeOK
    <2> QED BY <1>8, <2>1, <2>2, <2>3, LimitType DEF Elsewhere, TypeOK
  <1>9. CASE UNCHANGED vars
    BY <1>9 DEF vars, TypeOK
  <1> QED BY <1>1, <1>2, <1>3, <1>4, <1>5, <1>6, <1>7, <1>8, <1>9 DEF Next

(* Every variable of the pause-and-wake protocol keeps its type, however many *)
(* processes there are.                                                       *)
THEOREM TypeCorrect == Spec => []TypeOK
  BY InitType, NextType, PTL DEF Spec
-----------------------------------------------------------------------------
(* The claim and the count: who holds the row, and how often it was woken *)

\* the resumer that claimed the row and has not settled it yet
Holds(r) == resumer[r].pc \in {"preflight", "fire", "readback", "resumed", "postpone"}

\* a holder has claimed the row, and holds it alone
OneHolder ==
  /\ \A r \in Resumers : Holds(r) => row.status = "resuming"
  /\ \A r, q \in Resumers : Holds(r) /\ Holds(q) => r = q

\* the pause count is one ahead of the wakes while paused, and level in a wake
CountsWakes ==
  /\ row.status = "none" => wakes = 0
  /\ row.status = "paused" => wakes + 1 = row.count
  /\ row.status = "resuming" => wakes = row.count

\* the executor dispatches, or is about to write the row
Dispatching == exec.pc \in {"probe", "fire", "readback", "insert"}

\* there is a row only once the executor has stopped dispatching
RowAfterStep == Dispatching => row.status = "none"

LifeInv == TypeOK /\ OneHolder /\ CountsWakes /\ RowAfterStep

LEMMA InitLife == Init => LifeInv
  BY InitType DEF Init, LifeInv, OneHolder, CountsWakes, RowAfterStep, Dispatching, Holds,
                    IdleResumer

\* a step that leaves row, wakes and the resumers alone
LEMMA LifeKept ==
  ASSUME LifeInv, TypeOK', UNCHANGED <<row, wakes, resumer>>,
         Dispatching' => Dispatching
  PROVE  LifeInv'
  BY DEF LifeInv, OneHolder, CountsWakes, RowAfterStep, Holds

\* a resumer that gains nothing: it moves on without touching the row
LEMMA LifeMoved ==
  ASSUME LifeInv, TypeOK', NEW r \in Resumers,
         UNCHANGED <<row, wakes, exec>>,
         \A q \in Resumers \ {r} : resumer'[q] = resumer[q],
         Holds(r)' => Holds(r)
  PROVE  LifeInv'
  BY DEF LifeInv, OneHolder, CountsWakes, RowAfterStep, Dispatching, Holds

\* where the moves of one resumer leave it and the others
LEMMA GotoMoves ==
  ASSUME TypeOK, NEW r \in Resumers, NEW pc, Goto(r, pc)
  PROVE  resumer'[r].pc = pc /\ \A q \in Resumers \ {r} : resumer'[q] = resumer[q]
  BY DEF TypeOK, ResumerType, Goto

LEMMA StopMoves ==
  ASSUME TypeOK, NEW r \in Resumers, Stop(r)
  PROVE  resumer'[r].pc = "idle" /\ \A q \in Resumers \ {r} : resumer'[q] = resumer[q]
  BY DEF TypeOK, Stop, IdleResumer

LEMMA PostponeMoves ==
  ASSUME TypeOK, NEW r \in Resumers, NEW reset, NEW brief, Postpone(r, reset, brief)
  PROVE  resumer'[r].pc = "postpone" /\ \A q \in Resumers \ {r} : resumer'[q] = resumer[q]
  BY DEF TypeOK, Postpone

LEMMA LifeStep == LifeInv /\ [Next]_vars => LifeInv'
  <1> SUFFICES ASSUME LifeInv, [Next]_vars PROVE LifeInv'
    OBVIOUS
  <1>0. TypeOK /\ TypeOK'
    BY NextType DEF LifeInv
  <1>1. CASE ExecProbe
    BY <1>0, <1>1, LifeKept DEF ExecProbe, Dispatching
  <1>2. CASE ExecFire \/ ExecReadBack
    <2>1. UNCHANGED <<row, wakes, resumer>> /\ Dispatching
      BY <1>2 DEF ExecFire, ExecReadBack, Dispatching
    <2> QED BY <1>0, <2>1, LifeKept
  <1>3. CASE ExecInsert
    <2>1. exec'.pc = "mirror"
      BY <1>0, <1>3 DEF ExecInsert, ExecAt, TypeOK, ExecType
    <2>2. row.status = "none" /\ wakes = 0
      BY <1>3 DEF ExecInsert, ExecAt, LifeInv, RowAfterStep, Dispatching, CountsWakes
    <2>3. \A r \in Resumers : ~Holds(r)
      BY <2>2 DEF LifeInv, OneHolder
    <2> QED BY <1>0, <1>3, <2>1, <2>2, <2>3
        DEF ExecInsert, LifeInv, OneHolder, CountsWakes, RowAfterStep, Dispatching, Holds
  <1>4. CASE ExecMirror \/ ExecRemirror \/ ExecFinish \/ ExecCrash
    <2>1. UNCHANGED <<row, wakes, resumer>> /\ exec'.pc \in {"remirror", "finish", "done"}
      BY <1>0, <1>4
      DEF ExecMirror, ExecRemirror, ExecFinish, ExecCrash, ExecAt, TypeOK, ExecType
    <2> QED BY <1>0, <2>1, LifeKept DEF Dispatching
  <1>5. ASSUME NEW r \in Resumers, Scan(r) \/ Manual(r)
        PROVE LifeInv'
    <2>1. UNCHANGED <<row, wakes, exec>> /\ Goto(r, "claim")
      BY <1>5 DEF Scan, Manual
    <2> QED BY <1>0, <2>1, GotoMoves, LifeMoved DEF Holds
  <1>6. ASSUME NEW r \in Resumers, Claim(r)
        PROVE LifeInv'
    <2>1. CASE row.status = "paused"
      <3>1. /\ row' = [row EXCEPT !.status = "resuming"]
            /\ wakes' = wakes + 1 /\ Goto(r, "preflight") /\ UNCHANGED exec
        BY <1>6, <2>1 DEF Claim
      <3>2. row'.status = "resuming" /\ row'.count = row.count
        BY <1>0, <3>1 DEF TypeOK, RowType
      <3>3. \A q \in Resumers : ~Holds(q)
        BY <2>1 DEF LifeInv, OneHolder
      <3>4. \A q \in Resumers \ {r} : ~Holds(q)'
        BY <1>0, <3>1, <3>3, GotoMoves DEF Holds
      <3>5. wakes' = row'.count
        BY <1>0, <2>1, <3>1, <3>2 DEF LifeInv, CountsWakes, TypeOK, RowType, MaxPause
      <3>6. RowAfterStep'
        BY <2>1, <3>1 DEF LifeInv, RowAfterStep, Dispatching
      <3> QED BY <1>0, <3>2, <3>4, <3>5, <3>6 DEF LifeInv, OneHolder, CountsWakes
    <2>2. CASE row.status # "paused"
      <3>1. Stop(r) /\ UNCHANGED <<row, wakes, exec>>
        BY <1>6, <2>2 DEF Claim
      <3> QED BY <1>0, <3>1, StopMoves, LifeMoved DEF Holds
    <2> QED BY <2>1, <2>2
  <1>7. ASSUME NEW r \in Resumers, Preflight(r)
        PROVE LifeInv'
    <2>1. UNCHANGED <<row, wakes, exec>> /\ Holds(r)
      BY <1>7 DEF Preflight, At, Holds
    <2>2. Goto(r, "fire") \/ Postpone(r, quota, TRUE)
      BY <1>7 DEF Preflight
    <2>3. \A q \in Resumers \ {r} : resumer'[q] = resumer[q]
      BY <1>0, <2>2, GotoMoves, PostponeMoves
    <2> QED BY <1>0, <2>1, <2>3, LifeMoved
  <1>8. ASSUME NEW r \in Resumers, Fire(r) \/ WakeReadBack(r)
        PROVE LifeInv'
    <2>1. UNCHANGED <<row, wakes, exec>> /\ Holds(r)
      BY <1>8 DEF Fire, WakeReadBack, At, Holds
    <2>2. \/ Goto(r, "readback") \/ Goto(r, "resumed") \/ Stop(r)
          \/ \E reset, brief : Postpone(r, reset, brief)
      BY <1>8 DEF Fire, WakeReadBack
    <2>3. \A q \in Resumers \ {r} : resumer'[q] = resumer[q]
      BY <1>0, <2>2, GotoMoves, PostponeMoves, StopMoves
    <2> QED BY <1>0, <2>1, <2>3, LifeMoved
  <1>9. ASSUME NEW r \in Resumers, MarkResumed(r) \/ RePauseOrAbandon(r)
        PROVE LifeInv'
    <2>1. row.status = "resuming" /\ wakes = row.count
          /\ \A q \in Resumers \ {r} : ~Holds(q)
      BY <1>9 DEF MarkResumed, RePauseOrAbandon, At, Holds, LifeInv, OneHolder, CountsWakes
    <2>2. resumer'[r].pc \in {"unlink", "abandon", "move"}
          /\ \A q \in Resumers \ {r} : resumer'[q] = resumer[q]
      BY <1>0, <1>9, GotoMoves DEF MarkResumed, RePauseOrAbandon
    <2>3. \A q \in Resumers : ~Holds(q)'
      BY <2>1, <2>2 DEF Holds
    <2>4. UNCHANGED <<exec, wakes>>
      BY <1>9 DEF MarkResumed, RePauseOrAbandon
    <2>5. \/ row'.status \in {"resumed", "abandoned"}
          \/ row'.status = "paused" /\ row'.count = row.count + 1
      BY <1>0, <1>9 DEF MarkResumed, RePauseOrAbandon, TypeOK, RowType
    <2>6. RowAfterStep'
      BY <2>1, <2>4 DEF LifeInv, RowAfterStep, Dispatching
    <2>7. CountsWakes'
      BY <2>1, <2>4, <2>5 DEF CountsWakes
    <2> QED BY <1>0, <2>3, <2>6, <2>7 DEF LifeInv, OneHolder
  <1>10. ASSUME NEW r \in Resumers,
                Unlink(r) \/ MoveMirror(r) \/ AbandonMirror(r) \/ Brief(r) \/ ResumerCrash(r)
         PROVE LifeInv'
    <2>1. UNCHANGED <<row, wakes, exec>>
      BY <1>10 DEF Unlink, MoveMirror, AbandonMirror, Brief, ResumerCrash
    <2>2. Stop(r) \/ Goto(r, "brief")
      BY <1>10 DEF Unlink, MoveMirror, AbandonMirror, Brief, ResumerCrash
    <2>3. ~Holds(r)' /\ \A q \in Resumers \ {r} : resumer'[q] = resumer[q]
      BY <1>0, <2>2, GotoMoves, StopMoves DEF Holds
    <2> QED BY <1>0, <2>1, <2>3, LifeMoved
  <1>11. CASE Advance \/ Elsewhere \/ UNCHANGED vars
    BY <1>0, <1>11, LifeKept DEF Advance, Elsewhere, vars, Dispatching
  <1> QED BY <1>1, <1>2, <1>3, <1>4, <1>5, <1>6, <1>7, <1>8, <1>9, <1>10, <1>11
          DEF Next, ExecStep, ResumerStep

-----------------------------------------------------------------------------
(* The row lives the life PauseLifecycle promises *)

LEMMA LifeOfARow ==
  ASSUME LifeInv, [Next]_vars
  PROVE  [Lifecycle!Next]_<<row.status, wakes>>
  <1>0. TypeOK
    BY DEF LifeInv
  <1>1. CASE ExecInsert
    <2>1. Lifecycle!Pause
      BY <1>1 DEF ExecInsert, ExecAt, LifeInv, RowAfterStep, Dispatching, Lifecycle!Pause,
                  Lifecycle!Move
    <2> QED BY <2>1 DEF Lifecycle!Next
  <1>2. ASSUME NEW r \in Resumers, Claim(r)
        PROVE [Lifecycle!Next]_<<row.status, wakes>>
    <2>1. CASE row.status = "paused"
      <3>1. wakes < MaxPause
        BY <1>0, <2>1 DEF LifeInv, CountsWakes, TypeOK, RowType, MaxPause
      <3>2. row'.status = "resuming" /\ wakes' = wakes + 1
        BY <1>0, <1>2, <2>1 DEF Claim, TypeOK, RowType
      <3> QED BY <2>1, <3>1, <3>2 DEF Lifecycle!Next, Lifecycle!Claim, Lifecycle!Move
    <2>2. CASE row.status # "paused"
      BY <1>2, <2>2 DEF Claim
    <2> QED BY <2>1, <2>2
  <1>3. ASSUME NEW r \in Resumers, MarkResumed(r)
        PROVE [Lifecycle!Next]_<<row.status, wakes>>
    <2>1. row.status = "resuming"
      BY <1>3 DEF MarkResumed, At, Holds, LifeInv, OneHolder
    <2>2. row'.status = "resumed" /\ UNCHANGED wakes
      BY <1>0, <1>3 DEF MarkResumed, TypeOK, RowType
    <2> QED BY <2>1, <2>2 DEF Lifecycle!Next, Lifecycle!Resume, Lifecycle!Move
  <1>4. ASSUME NEW r \in Resumers, RePauseOrAbandon(r)
        PROVE [Lifecycle!Next]_<<row.status, wakes>>
    <2>1. row.status = "resuming" /\ wakes = row.count /\ UNCHANGED wakes
      BY <1>4 DEF RePauseOrAbandon, At, Holds, LifeInv, OneHolder, CountsWakes
    <2>2. CASE row.count + 1 > MaxPause
      <3>1. row'.status = "abandoned" /\ wakes = MaxPause
        BY <1>0, <1>4, <2>1, <2>2 DEF RePauseOrAbandon, TypeOK, RowType, MaxPause
      <3> QED BY <2>1, <3>1 DEF Lifecycle!Next, Lifecycle!Abandon, Lifecycle!Move
    <2>3. CASE ~(row.count + 1 > MaxPause)
      <3>1. row'.status = "paused" /\ wakes < MaxPause
        BY <1>0, <1>4, <2>1, <2>3 DEF RePauseOrAbandon, TypeOK, RowType, MaxPause
      <3> QED BY <2>1, <3>1 DEF Lifecycle!Next, Lifecycle!RePause, Lifecycle!Move
    <2> QED BY <2>2, <2>3
  <1>5. CASE ExecProbe \/ ExecFire \/ ExecReadBack \/ ExecMirror \/ ExecRemirror \/ ExecFinish \/ ExecCrash
             \/ Advance \/ Elsewhere \/ UNCHANGED vars
    BY <1>5 DEF ExecProbe, ExecFire, ExecReadBack, ExecMirror, ExecRemirror, ExecFinish, ExecCrash,
                Advance, Elsewhere, vars
  <1>6. ASSUME NEW r \in Resumers,
               \/ Scan(r) \/ Manual(r) \/ Preflight(r) \/ Fire(r) \/ WakeReadBack(r)
               \/ Unlink(r) \/ MoveMirror(r) \/ AbandonMirror(r) \/ Brief(r) \/ ResumerCrash(r)
        PROVE [Lifecycle!Next]_<<row.status, wakes>>
    BY <1>6 DEF Scan, Manual, Preflight, Fire, WakeReadBack, Unlink, MoveMirror, AbandonMirror,
                Brief, ResumerCrash
  <1> QED BY <1>1, <1>2, <1>3, <1>4, <1>5, <1>6 DEF Next, ExecStep, ResumerStep

(* However executor, resumers and kills interleave, one resumer at a time has *)
(* the paused row, it is woken at most three times, and it is abandoned only  *)
(* after three wakes.                                                         *)
THEOREM LifecycleImplemented == Spec => ImplementsLifecycle
  <1>1. Init => Lifecycle!Init
    BY DEF Init, Lifecycle!Init
  <1>2. LifeInv /\ [Next]_vars => [Lifecycle!Next]_<<row.status, wakes>>
    BY LifeOfARow
  <1> QED BY <1>1, <1>2, InitLife, LifeStep, PTL
      DEF Spec, ImplementsLifecycle, Lifecycle!Spec

-----------------------------------------------------------------------------
(* Paid work *)

\* every time the step did its work, its caller was told it had failed
Clear(s) == ran[s] <= misled[s]

\* the step did its work once more than that at most
Paid(s) == ran[s] <= misled[s] + 1

\* a dispatch is read back, and its caller can still be told anything
Undecided ==
  \/ exec.pc = "readback"
  \/ \E r \in Resumers : resumer[r].pc = "readback"

\* the step may be dispatched again
Pending ==
  \/ exec.pc \in {"probe", "fire", "insert"}
  \/ row.status = "paused"
  \/ \E r \in Resumers : resumer[r].pc \in {"preflight", "fire", "postpone"}

\* a step that may be dispatched again is clear, and so is one whose dispatch did
\* nothing while it is read back
Unspent ==
  /\ \A s \in Steps : Paid(s) /\ (s > exec.step => Clear(s))
  /\ Pending => Clear(exec.step)
  /\ Undecided /\ ~dispatch.worked => Clear(exec.step)

LEMMA InitUnspent == Init => Unspent
  BY PausedAssumption
  DEF Init, Unspent, Clear, Paid, Pending, Undecided, IdleResumer, Steps

\* a step that dispatches nothing and makes nothing pending
LEMMA UnspentKept ==
  ASSUME Unspent, UNCHANGED <<ran, misled>>, exec'.step = exec.step,
         dispatch'.worked = dispatch.worked,
         Pending' => Clear(exec.step), Undecided' => Undecided
  PROVE  Unspent'
  BY DEF Unspent, Clear, Paid

\* a dispatch does the work of the executor's step once more at most, and if it
\* ends in an Err the caller is misled
LEMMA DispatchPays ==
  ASSUME TypeOK, NEW outcome, Dispatch(outcome), Clear(exec.step)
  PROVE  /\ \A s \in Steps \ {exec.step} : ran'[s] = ran[s] /\ misled'[s] = misled[s]
         /\ ran'[exec.step] <= misled'[exec.step] + 1
         /\ dispatch'.worked \in BOOLEAN
         /\ ~dispatch'.worked \/ outcome \in Errs => ran'[exec.step] <= misled'[exec.step]
  <1>1. exec.step \in Steps /\ ran \in [Steps -> Nat] /\ misled \in [Steps -> Nat]
    BY DEF TypeOK, ExecType
  <1>2. dispatch'.worked = (outcome \in {"success", "lost", "unlogged"})
    BY DEF Dispatch
  <1>3. /\ ran' = IF outcome \in {"success", "lost", "unlogged"}
                  THEN [ran EXCEPT ![exec.step] = @ + 1] ELSE ran
        /\ misled' = IF outcome = "unlogged" THEN [misled EXCEPT ![exec.step] = @ + 1]
                     ELSE misled
    BY <1>2 DEF Dispatch
  <1>4. ran[exec.step] <= misled[exec.step] /\ ran[exec.step] \in Nat /\ misled[exec.step] \in Nat
    BY <1>1 DEF Clear
  <1>5. CASE outcome = "unlogged"
    BY <1>1, <1>2, <1>3, <1>4, <1>5
  <1>6. CASE outcome \in {"success", "lost"}
    <2>1. dispatch'.worked = TRUE /\ outcome \notin Errs
      BY <1>2, <1>6 DEF Errs
    <2>2. ran' = [ran EXCEPT ![exec.step] = @ + 1] /\ misled' = misled
      BY <1>3, <1>6
    <2>3. ran'[exec.step] <= misled'[exec.step] + 1
      BY <1>1, <1>4, <2>2
    <2>4. \A s \in Steps \ {exec.step} : ran'[s] = ran[s] /\ misled'[s] = misled[s]
      BY <1>1, <2>2
    <2> QED BY <2>1, <2>3, <2>4
  <1>7. CASE outcome \notin {"success", "lost", "unlogged"}
    <2>1. ran' = ran /\ misled' = misled
      BY <1>3, <1>7
    <2>2. dispatch'.worked \in BOOLEAN
      BY <1>2
    <2> QED BY <1>4, <2>1, <2>2
  <1> QED BY <1>5, <1>6, <1>7

\* a read-back that reports a failure clears the step
LEMMA ReadBackClears ==
  ASSUME TypeOK, Unspent, Undecided, ReadBack
  PROVE  /\ ran' = ran
         /\ \A s \in Steps \ {exec.step} : misled'[s] = misled[s]
         /\ misled'[exec.step] >= misled[exec.step]
         /\ dispatch.row \in Logged \ {"success"} => ran[exec.step] <= misled'[exec.step]
  <1>1. exec.step \in Steps /\ ran \in [Steps -> Nat] /\ misled \in [Steps -> Nat]
    BY DEF TypeOK, ExecType
  <1>2. ran' = ran
    BY DEF ReadBack
  <1>3. Paid(exec.step) /\ (~dispatch.worked => Clear(exec.step))
    BY <1>1 DEF Unspent
  <1>4. CASE dispatch.worked /\ dispatch.row \in Logged \ {"success"}
    BY <1>1, <1>2, <1>3, <1>4 DEF ReadBack, Paid
  <1>5. CASE ~(dispatch.worked /\ dispatch.row \in Logged \ {"success"})
    BY <1>1, <1>2, <1>3, <1>5 DEF ReadBack, Clear
  <1> QED BY <1>2, <1>4, <1>5

\* what a dispatch or a read-back leaves of every step: the executor's own is paid
\* for, and clear if somebody may dispatch it again; no other is touched
LEMMA UnspentSettled ==
  ASSUME TypeOK, TypeOK', Unspent,
         \A s \in Steps \ {exec.step} : ran'[s] = ran[s] /\ misled'[s] = misled[s],
         Paid(exec.step)',
         exec'.step = exec.step,
         Pending' => ran'[exec.step] <= misled'[exec.step],
         Undecided' /\ ~dispatch'.worked => ran'[exec.step] <= misled'[exec.step]
  PROVE  Unspent'
  <1>1. exec.step \in Steps
    BY DEF TypeOK, ExecType
  <1>2. \A s \in Steps : Paid(s)'
    <2> TAKE s \in Steps
    <2>1. CASE s = exec.step
      BY <2>1
    <2>2. CASE s # exec.step
      BY <2>2 DEF Unspent, Paid
    <2> QED BY <2>1, <2>2
  <1>3. \A s \in Steps : s > exec.step => Clear(s)'
    BY <1>1 DEF Unspent, Clear, Steps
  <1> QED BY <1>2, <1>3 DEF Unspent, Clear

LEMMA ExecFireSpends ==
  ASSUME LifeInv, TypeOK', Unspent, ExecFire
  PROVE  Unspent'
  <1>0. TypeOK /\ exec.step \in Steps
    BY DEF LifeInv, TypeOK, ExecType
  <1>1. PICK outcome \in Outcomes \cup {"refused"} :
          /\ Dispatch(outcome)
          /\ IF outcome \in Errs THEN Failed(outcome)
             ELSE exec' = [exec EXCEPT !.pc = "readback"]
    BY DEF ExecFire
  <1>2. UNCHANGED <<row, resumer>> /\ exec.pc = "fire"
    BY DEF ExecFire
  <1>3. row.status = "none" /\ \A r \in Resumers : ~Holds(r)
    BY <1>2 DEF LifeInv, RowAfterStep, Dispatching, OneHolder
  <1>4. Clear(exec.step)
    BY <1>2 DEF Unspent, Pending
  <1>5. exec'.step = exec.step
    BY <1>0, <1>1 DEF Failed, TypeOK, ExecType
  <1>6. Pending' => outcome \in Errs
    <2>1. outcome \notin Errs => exec'.pc = "readback"
      BY <1>0, <1>1 DEF TypeOK, ExecType
    <2> QED BY <1>2, <1>3, <2>1 DEF Pending, Holds
  <1>7. Paid(exec.step)'
    BY <1>0, <1>1, <1>4, <1>5, DispatchPays DEF Paid
  <1> QED BY <1>0, <1>1, <1>4, <1>5, <1>6, <1>7, DispatchPays, UnspentSettled

LEMMA ExecReadBackSpends ==
  ASSUME LifeInv, TypeOK', Unspent, ExecReadBack
  PROVE  Unspent'
  <1>0. TypeOK /\ exec.step \in Steps /\ ran \in [Steps -> Nat] /\ misled \in [Steps -> Nat]
    BY DEF LifeInv, TypeOK, ExecType
  <1>1. ReadBack /\ UNCHANGED <<row, resumer>> /\ exec.pc = "readback"
    BY DEF ExecReadBack
  <1>2. /\ row.status = "none" /\ \A r \in Resumers : ~Holds(r)
        /\ \A r \in Resumers : ~Holds(r)'
    BY <1>1 DEF LifeInv, RowAfterStep, Dispatching, OneHolder, Holds
  <1>3. Undecided
    BY <1>1 DEF Undecided
  <1>4. Paid(exec.step) /\ ran'[exec.step] <= misled'[exec.step] + 1
    BY <1>0, <1>1, <1>3, ReadBackClears DEF Unspent, Paid, TypeOK
  <1>5. CASE dispatch.row = "success"
    <2>1. Succeeded
      BY <1>5 DEF ExecReadBack
    <2>2. \/ exec'.pc = "probe" /\ exec'.step = exec.step + 1
          \/ exec'.pc = "finish" /\ exec'.step = exec.step
      BY <1>0, <2>1 DEF Succeeded, TypeOK, ExecType
    <2>3. CASE exec'.pc = "finish" /\ exec'.step = exec.step
      <3>1. ~Pending' /\ ~Undecided'
        BY <1>1, <1>2, <2>3 DEF Pending, Undecided, Holds
      <3>2. Paid(exec.step)'
        BY <1>4, <2>3 DEF Paid
      <3> QED BY <1>0, <1>1, <1>3, <2>3, <3>1, <3>2, ReadBackClears, UnspentSettled
    <2>4. CASE exec'.pc = "probe" /\ exec'.step = exec.step + 1
      <3>1. exec'.step \in Steps
        BY DEF TypeOK, ExecType
      <3>2. \A s \in Steps \ {exec.step} : ran'[s] = ran[s] /\ misled'[s] = misled[s]
        BY <1>0, <1>1, <1>3, ReadBackClears
      <3>3. \A s \in Steps : Paid(s)'
        BY <1>0, <1>4, <3>2 DEF Unspent, Paid
      <3>4. \A s \in Steps : s > exec.step => Clear(s)'
        BY <1>0, <3>2 DEF Unspent, Clear, Steps
      <3>5. \A s \in Steps : s > exec'.step => Clear(s)'
        BY <1>0, <2>4, <3>4 DEF Steps
      <3>6. Clear(exec.step)'
        BY <1>0, <2>4, <3>1, <3>4 DEF Steps, Clear
      <3> QED BY <2>4, <3>3, <3>5, <3>6 DEF Unspent
    <2> QED BY <2>2, <2>3, <2>4
  <1>6. CASE dispatch.row # "success"
    <2>1. exec'.step = exec.step /\ exec'.pc \in {"probe", "finish"}
          /\ (dispatch.row = "none" => exec'.pc = "finish")
      BY <1>0, <1>6 DEF ExecReadBack, Failed, TypeOK, ExecType
    <2>2. ~Undecided'
      BY <1>2, <2>1 DEF Undecided, Holds
    <2>3. Pending' => dispatch.row \in Logged \ {"success"}
      BY <1>0, <1>1, <1>2, <1>6, <2>1 DEF Pending, Holds, TypeOK, DispatchType
    <2>4. Paid(exec.step)'
      BY <1>4, <2>1 DEF Paid
    <2> QED BY <1>0, <1>1, <1>3, <2>1, <2>2, <2>3, <2>4, ReadBackClears, UnspentSettled
  <1> QED BY <1>5, <1>6

LEMMA WakeSpends ==
  ASSUME LifeInv, TypeOK', Unspent, NEW r \in Resumers, Fire(r) \/ WakeReadBack(r)
  PROVE  Unspent'
  <1>0. TypeOK /\ exec.step \in Steps /\ ran \in [Steps -> Nat] /\ misled \in [Steps -> Nat]
    BY DEF LifeInv, TypeOK, ExecType
  <1>1. UNCHANGED <<row, exec>> /\ Holds(r) /\ resumer[r].pc \in {"fire", "readback"}
    BY DEF Fire, WakeReadBack, At, Holds
  <1>2. row.status = "resuming" /\ (\A q \in Resumers \ {r} : ~Holds(q)) /\ ~Dispatching
    BY <1>1 DEF LifeInv, OneHolder, RowAfterStep
  <1>3. ~Dispatching' /\ row'.status = "resuming"
    BY <1>1, <1>2 DEF Dispatching
  <1>4. CASE Fire(r)
    <2>1. PICK outcome \in Outcomes \cup {"refused"} :
            Dispatch(outcome) /\ (IF outcome \in Errs THEN Stop(r) ELSE Goto(r, "readback"))
      BY <1>4 DEF Fire
    <2>2. Clear(exec.step)
      BY <1>4 DEF Fire, At, Unspent, Pending
    <2>3. /\ resumer'[r].pc = IF outcome \in Errs THEN "idle" ELSE "readback"
          /\ \A q \in Resumers \ {r} : resumer'[q] = resumer[q]
      BY <1>0, <2>1, StopMoves, GotoMoves
    <2>4. ~Pending'
      BY <1>2, <1>3, <2>3 DEF Pending, Dispatching, Holds
    <2>5. Paid(exec.step)'
      BY <1>0, <1>1, <2>1, <2>2, DispatchPays DEF Paid
    <2> QED BY <1>0, <1>1, <2>1, <2>2, <2>4, <2>5, DispatchPays, UnspentSettled
  <1>5. CASE WakeReadBack(r)
    <2>1. ReadBack /\ Undecided
      BY <1>5 DEF WakeReadBack, At, Undecided
    <2>2. \/ Goto(r, "resumed") \/ Stop(r)
          \/ Postpone(r, dispatch.reset, dispatch.row = "dated") /\ dispatch.row \in {"dated", "undated"}
      BY <1>5 DEF WakeReadBack
    <2>3. \/ resumer'[r].pc \in {"resumed", "idle"}
          \/ resumer'[r].pc = "postpone" /\ dispatch.row \in Logged \ {"success"}
      BY <1>0, <2>2, GotoMoves, StopMoves, PostponeMoves DEF Logged
    <2>4. \A q \in Resumers \ {r} : resumer'[q] = resumer[q]
      BY <1>0, <2>2, GotoMoves, StopMoves, PostponeMoves
    <2>5. Pending' => dispatch.row \in Logged \ {"success"}
      BY <1>2, <1>3, <2>3, <2>4 DEF Pending, Dispatching, Holds
    <2>6. ~Undecided'
      BY <1>2, <1>3, <2>3, <2>4 DEF Undecided, Dispatching, Holds
    <2>7. Paid(exec.step)'
      BY <1>0, <1>1, <2>1, ReadBackClears DEF Unspent, Paid, TypeOK
    <2> QED BY <1>0, <1>1, <2>1, <2>5, <2>6, <2>7, ReadBackClears, UnspentSettled
  <1> QED BY <1>4, <1>5

LEMMA UnspentStep ==
  ASSUME LifeInv, Unspent, [Next]_vars
  PROVE  Unspent'
  <1>0. TypeOK /\ TypeOK' /\ exec.step \in Steps
    BY NextType DEF LifeInv, TypeOK, ExecType
  <1>1. CASE ExecProbe \/ ExecInsert \/ ExecMirror \/ ExecRemirror \/ ExecFinish \/ ExecCrash
    <2>1. UNCHANGED <<paid, resumer>>
      BY <1>1 DEF ExecProbe, ExecInsert, ExecMirror, ExecRemirror, ExecFinish, ExecCrash
    <2>2. /\ exec'.step = exec.step
          /\ exec'.pc # "readback"
          /\ exec'.pc \in {"probe", "fire", "insert"} => exec.pc \in {"probe", "fire", "insert"}
      BY <1>0, <1>1 DEF ExecProbe, ExecInsert, ExecMirror, ExecRemirror, ExecFinish,
                        ExecCrash, ExecAt, TypeOK, ExecType
    <2>3. row'.status = "paused" => row.status = "paused" \/ exec.pc = "insert"
      BY <1>1 DEF ExecProbe, ExecInsert, ExecMirror, ExecRemirror, ExecFinish, ExecCrash,
                  ExecAt
    <2>4. (Pending' => Pending) /\ (Undecided' => Undecided)
      BY <2>1, <2>2, <2>3 DEF Pending, Undecided
    <2> QED BY <2>1, <2>2, <2>4, UnspentKept DEF Unspent
  <1>2. CASE ExecFire
    BY <1>0, <1>2, ExecFireSpends
  <1>3. CASE ExecReadBack
    BY <1>0, <1>3, ExecReadBackSpends
  <1>4. ASSUME NEW r \in Resumers, Fire(r) \/ WakeReadBack(r)
        PROVE Unspent'
    BY <1>0, <1>4, WakeSpends
  <1>5. ASSUME NEW r \in Resumers,
               Claim(r) \/ Preflight(r) \/ RePauseOrAbandon(r) \/ MarkResumed(r)
        PROVE Unspent'
    <2>1. UNCHANGED <<exec, paid>>
      BY <1>5 DEF Claim, Preflight, RePauseOrAbandon, MarkResumed
    <2>2. \/ Goto(r, "preflight") /\ row.status = "paused"
          \/ Goto(r, "fire") /\ At(r, "preflight")
          \/ (\E reset, brief : Postpone(r, reset, brief)) /\ At(r, "preflight")
          \/ Goto(r, "abandon") \/ Goto(r, "move") \/ Goto(r, "unlink") \/ Stop(r)
      BY <1>5 DEF Claim, Preflight, RePauseOrAbandon, MarkResumed
    <2>3. row'.status = "paused" => row.status = "paused" \/ At(r, "postpone")
      BY <1>0, <1>5 DEF Claim, Preflight, RePauseOrAbandon, MarkResumed, TypeOK, RowType
    <2>4. /\ resumer'[r].pc \in {"preflight", "fire", "postpone"}
               => row.status = "paused" \/ At(r, "preflight")
          /\ resumer'[r].pc # "readback"
          /\ \A q \in Resumers \ {r} : resumer'[q] = resumer[q]
      BY <1>0, <2>2, GotoMoves, StopMoves, PostponeMoves
    <2>5. (Pending' => Pending) /\ (Undecided' => Undecided)
      BY <2>1, <2>3, <2>4 DEF Pending, Undecided, At
    <2> QED BY <2>1, <2>5, UnspentKept DEF Unspent
  <1>6. ASSUME NEW r \in Resumers,
               \/ Scan(r) \/ Manual(r) \/ Unlink(r)
               \/ MoveMirror(r) \/ AbandonMirror(r) \/ Brief(r) \/ ResumerCrash(r)
        PROVE Unspent'
    <2>1. UNCHANGED <<exec, row, paid>>
      BY <1>6 DEF Scan, Manual, Unlink, MoveMirror, AbandonMirror, Brief, ResumerCrash
    <2>2. Stop(r) \/ Goto(r, "claim") \/ Goto(r, "brief")
      BY <1>6 DEF Scan, Manual, Unlink, MoveMirror, AbandonMirror, Brief, ResumerCrash
    <2>3. /\ resumer'[r].pc \in {"idle", "claim", "brief"}
          /\ \A q \in Resumers \ {r} : resumer'[q] = resumer[q]
      BY <1>0, <2>2, StopMoves, GotoMoves
    <2>4. (Pending' => Pending) /\ (Undecided' => Undecided)
      BY <2>1, <2>3 DEF Pending, Undecided
    <2> QED BY <2>1, <2>4, UnspentKept DEF Unspent
  <1>7. CASE Advance \/ Elsewhere \/ UNCHANGED vars
    <2>1. UNCHANGED <<exec, row, resumer, ran, misled>>
      BY <1>7 DEF Advance, Elsewhere, vars
    <2>2. dispatch'.worked = dispatch.worked
      BY <1>0, <1>7 DEF Advance, Elsewhere, vars, TypeOK, DispatchType
    <2>3. (Pending' => Pending) /\ (Undecided' => Undecided)
      BY <2>1 DEF Pending, Undecided
    <2> QED BY <2>1, <2>2, <2>3, UnspentKept DEF Unspent
  <1> QED BY <1>1, <1>2, <1>3, <1>4, <1>5, <1>6, <1>7 DEF Next, ExecStep, ResumerStep

(* Paid work is repeated only when a caller was told it had failed: for any   *)
(* number of resumers, retries, limits and kills, with dispatches that work   *)
(* and leave no row and other dispatches whose rows are taken for the step's  *)
(* own, no step does its work more than once beyond the times its caller was  *)
(* misled.                                                                    *)
THEOREM RepeatedOnlyIfMisledAlways == Spec => []RepeatedOnlyIfMisled
  <1>1. LifeInv /\ Unspent /\ [Next]_vars => LifeInv' /\ Unspent'
    BY LifeStep, UnspentStep
  <1>2. Unspent => RepeatedOnlyIfMisled
    BY DEF Unspent, Paid, RepeatedOnlyIfMisled
  <1> QED BY <1>1, <1>2, InitLife, InitUnspent, PTL DEF Spec

-----------------------------------------------------------------------------
(* The mirror on loop_runs, when nobody is killed and resumes wait for the  *)
(* executor's last statement                                                *)

\* the row is settled and its mirror not yet
Unmirrored(r) == resumer[r].pc \in {"unlink", "abandon"}

\* while the executor runs there is no resumer, and the row is the one it wrote
ExecutorFirst ==
  /\ external.crashes = 0
  /\ exec.pc # "done" => row.status \in {"none", "paused"}
                         /\ \A r \in Resumers : At(r, "idle")
  /\ exec.pc \in {"probe", "fire", "readback"} => exec.reset = 0
  /\ exec.pc = "insert" => exec.reset # 0
  /\ exec.pc \in {"mirror", "remirror"} => row.status = "paused" /\ row.reset = exec.reset
  /\ exec.pc \in {"mirror", "remirror", "finish"} =>
       (row.status = "none" <=> exec.reset = 0)

\* the run points at the row from the mirror's first write until the row's last
\* state is mirrored, and an abandonment is shown or about to be
MirrorFollows ==
  /\ exec.pc = "mirror" => ~run.linked
  /\ exec.pc # "mirror" =>
       (run.linked <=> \/ row.status \in {"paused", "resuming"}
                       \/ \E r \in Resumers : Unmirrored(r))
  /\ \A r \in Resumers : /\ At(r, "unlink") => row.status = "resumed"
                         /\ At(r, "abandon") => row.status = "abandoned"
  /\ \A r, q \in Resumers : Unmirrored(r) /\ Unmirrored(q) => r = q
  /\ row.status = "abandoned" =>
       run.status = "error" \/ \E r \in Resumers : At(r, "abandon")

MirrorInv == ExecutorFirst /\ MirrorFollows

LEMMA InitMirror == MaxCrashes = 0 /\ Init => MirrorInv
  BY DEF Init, MirrorInv, ExecutorFirst, MirrorFollows, Unmirrored, At, IdleResumer

\* a step of the executor or of the world around it
LEMMA MirrorKept ==
  ASSUME MirrorInv, ExecutorFirst', UNCHANGED <<row, resumer>>,
         run'.linked = run.linked, exec.pc # "mirror", exec'.pc # "mirror",
         row.status = "abandoned" => run'.status = run.status
  PROVE  MirrorInv'
  BY DEF MirrorInv, MirrorFollows, Unmirrored, At

\* a resumer that settles nothing
LEMMA MirrorMoved ==
  ASSUME MirrorInv, TypeOK, NEW r \in Resumers, exec.pc = "done",
         UNCHANGED <<exec, row>>, external'.crashes = external.crashes,
         run'.linked = run.linked, run'.status = run.status,
         ~Unmirrored(r), ~Unmirrored(r)',
         \A q \in Resumers \ {r} : resumer'[q] = resumer[q]
  PROVE  MirrorInv'
  BY DEF MirrorInv, ExecutorFirst, MirrorFollows, Unmirrored, At

\* nobody resumes before the executor is done
LEMMA ExecutorDone ==
  ASSUME MirrorInv, NEW r \in Resumers, ~At(r, "idle")
  PROVE  exec.pc = "done"
  BY DEF MirrorInv, ExecutorFirst

LEMMA NobodyKilled ==
  ASSUME MirrorInv
  PROVE  ~ExecCrash /\ \A r \in Resumers : ~ResumerCrash(r)
  BY DEF MirrorInv, ExecutorFirst, ExecCrash, ResumerCrash, Killed

\* the executor writes the row, then its mirror, then the run's final status
LEMMA ExecMirrors ==
  ASSUME LifeInv, MirrorInv, ExecStep
  PROVE  MirrorInv'
  <1>0. TypeOK
    BY DEF LifeInv
  <1>1. CASE ExecProbe
    <2>1. Exhausted => quota # 0
      BY <1>0 DEF Exhausted, TypeOK
    <2>2. exec.pc = "probe" /\ UNCHANGED <<row, run, resumer, external>>
      BY <1>1 DEF ExecProbe
    <2>3. \/ exec'.pc = "fire" /\ exec'.reset = exec.reset
          \/ exec'.pc = "insert" /\ exec'.reset # 0
      BY <1>0, <1>1, <2>1 DEF ExecProbe, TypeOK, ExecType
    <2>4. ExecutorFirst'
      BY <2>2, <2>3 DEF MirrorInv, ExecutorFirst, At
    <2> QED BY <2>2, <2>3, <2>4, MirrorKept
  <1>2. CASE ExecFire \/ ExecReadBack
    <2>1. exec.pc \in {"fire", "readback"} /\ UNCHANGED <<row, run, resumer, external>>
      BY <1>2 DEF ExecFire, ExecReadBack
    <2>2. exec'.pc \in {"probe", "readback", "finish"} /\ exec'.reset = exec.reset
      BY <1>0, <1>2 DEF ExecFire, ExecReadBack, Succeeded, Failed, TypeOK, ExecType
    <2>3. row.status = "none"
      BY <2>1 DEF LifeInv, RowAfterStep, Dispatching
    <2>4. ExecutorFirst'
      BY <2>1, <2>2, <2>3 DEF MirrorInv, ExecutorFirst, At
    <2> QED BY <2>1, <2>2, <2>4, MirrorKept
  <1>3. CASE ExecInsert
    <2>1. exec.pc = "insert" /\ UNCHANGED <<run, resumer, external>>
      BY <1>3 DEF ExecInsert, ExecAt
    <2>2. exec'.pc = "mirror" /\ exec'.reset = exec.reset
      BY <1>0, <1>3 DEF ExecInsert, ExecAt, TypeOK, ExecType
    <2>3. row'.status = "paused" /\ row'.reset = exec.reset
      BY <1>3 DEF ExecInsert
    <2>4. row.status = "none"
      BY <2>1 DEF LifeInv, RowAfterStep, Dispatching
    <2>5. \A r \in Resumers : resumer[r].pc = "idle"
      BY <2>1 DEF MirrorInv, ExecutorFirst, At
    <2>6. ~run.linked
      BY <2>1, <2>4, <2>5 DEF MirrorInv, MirrorFollows, Unmirrored
    <2>7. ExecutorFirst'
      BY <2>1, <2>2, <2>3, <2>5 DEF MirrorInv, ExecutorFirst, At
    <2>8. MirrorFollows'
      BY <2>1, <2>2, <2>3, <2>5, <2>6 DEF MirrorFollows, Unmirrored, At
    <2> QED BY <2>7, <2>8 DEF MirrorInv
  <1>4. CASE ExecMirror \/ ExecRemirror
    <2>1. exec.pc \in {"mirror", "remirror"} /\ UNCHANGED <<row, resumer, external>>
      BY <1>4 DEF ExecMirror, ExecRemirror, ExecAt
    <2>2. exec'.pc \in {"remirror", "finish"} /\ exec'.reset = exec.reset
      BY <1>0, <1>4 DEF ExecMirror, ExecRemirror, ExecAt, TypeOK, ExecType
    <2>3. run'.linked
      BY <1>0, <1>4 DEF ExecMirror, ExecRemirror, Link, TypeOK, RunType
    <2>4. \A r \in Resumers : resumer[r].pc = "idle"
      BY <2>1 DEF MirrorInv, ExecutorFirst, At
    <2>5. row.status = "paused"
      BY <2>1 DEF MirrorInv, ExecutorFirst
    <2>6. ExecutorFirst'
      BY <2>1, <2>2, <2>4, <2>5 DEF MirrorInv, ExecutorFirst, At
    <2>7. MirrorFollows'
      BY <2>1, <2>2, <2>3, <2>4, <2>5 DEF MirrorFollows, Unmirrored, At
    <2> QED BY <2>6, <2>7 DEF MirrorInv
  <1>5. CASE ExecFinish
    <2>1. exec.pc = "finish" /\ UNCHANGED <<row, resumer, external>>
      BY <1>5 DEF ExecFinish, ExecAt
    <2>2. exec'.pc = "done" /\ exec'.reset = exec.reset
      BY <1>0, <1>5 DEF ExecFinish, ExecAt, TypeOK, ExecType
    <2>3. run'.linked = run.linked
      BY <1>0, <1>5 DEF ExecFinish, TypeOK, RunType
    <2>4. row.status \in {"none", "paused"}
      BY <2>1 DEF MirrorInv, ExecutorFirst
    <2>5. ExecutorFirst'
      BY <2>1, <2>2 DEF MirrorInv, ExecutorFirst
    <2> QED BY <2>1, <2>2, <2>3, <2>4, <2>5, MirrorKept
  <1> QED BY <1>1, <1>2, <1>3, <1>4, <1>5 DEF ExecStep

\* a resumer settles the row first and its mirror after
LEMMA ResumerMirrors ==
  ASSUME LifeInv, MirrorInv, NEW r \in Resumers, ResumerStep(r)
  PROVE  MirrorInv'
  <1>0. TypeOK
    BY DEF LifeInv
  <1>1. exec.pc = "done" /\ UNCHANGED <<exec, external>>
    <2>1. ~At(r, "idle")
      BY DEF ResumerStep, Claim, Preflight, Fire, WakeReadBack, MarkResumed, Unlink, RePauseOrAbandon,
             MoveMirror, AbandonMirror, Brief, At
    <2>2. UNCHANGED <<exec, external>>
      BY DEF ResumerStep, Claim, Preflight, Fire, WakeReadBack, MarkResumed, Unlink, RePauseOrAbandon,
             MoveMirror, AbandonMirror, Brief
    <2> QED BY <2>1, <2>2, ExecutorDone
  <1>2. ExecutorFirst'
    BY <1>1 DEF MirrorInv, ExecutorFirst
  <1>3. CASE Claim(r)
    <2>1. CASE row.status = "paused"
      <3>1. row' = [row EXCEPT !.status = "resuming"] /\ Goto(r, "preflight")
            /\ UNCHANGED run
        BY <1>3, <2>1 DEF Claim
      <3>2. row'.status = "resuming"
        BY <1>0, <3>1 DEF TypeOK, RowType
      <3>3. resumer'[r].pc = "preflight"
            /\ \A q \in Resumers \ {r} : resumer'[q] = resumer[q]
        BY <1>0, <3>1, GotoMoves
      <3>4. \A q \in Resumers : ~Unmirrored(q)
        BY <2>1 DEF MirrorInv, MirrorFollows, Unmirrored, At
      <3>5. \A q \in Resumers : ~Unmirrored(q)'
        BY <3>3, <3>4 DEF Unmirrored
      <3>6. run.linked
        BY <1>1, <2>1 DEF MirrorInv, MirrorFollows
      <3>7. MirrorFollows'
        BY <1>1, <3>1, <3>2, <3>5, <3>6 DEF MirrorFollows, Unmirrored, At
      <3> QED BY <1>2, <3>7 DEF MirrorInv
    <2>2. CASE row.status # "paused"
      <3>1. Stop(r) /\ UNCHANGED <<row, run>> /\ ~Unmirrored(r)
        BY <1>3, <2>2 DEF Claim, At, Unmirrored
      <3> QED BY <1>0, <1>1, <3>1, StopMoves, MirrorMoved DEF Unmirrored
    <2> QED BY <2>1, <2>2
  <1>4. CASE Preflight(r) \/ Fire(r) \/ WakeReadBack(r)
    <2>1. UNCHANGED <<row, run>> /\ ~Unmirrored(r)
      BY <1>4 DEF Preflight, Fire, WakeReadBack, At, Unmirrored
    <2>2. \/ Goto(r, "fire") \/ Goto(r, "readback") \/ Goto(r, "resumed") \/ Stop(r)
          \/ \E reset, brief : Postpone(r, reset, brief)
      BY <1>4 DEF Preflight, Fire, WakeReadBack
    <2>3. ~Unmirrored(r)' /\ \A q \in Resumers \ {r} : resumer'[q] = resumer[q]
      BY <1>0, <2>2, GotoMoves, StopMoves, PostponeMoves DEF Unmirrored
    <2> QED BY <1>0, <1>1, <2>1, <2>3, MirrorMoved
  <1>5. CASE MarkResumed(r) \/ RePauseOrAbandon(r)
    <2>1. row.status = "resuming" /\ UNCHANGED run
      BY <1>5 DEF MarkResumed, RePauseOrAbandon, At, Holds, LifeInv, OneHolder
    <2>2. \A q \in Resumers : ~Unmirrored(q)
      BY <2>1 DEF MirrorInv, MirrorFollows, Unmirrored, At
    <2>3. \/ row'.status = "resumed" /\ Goto(r, "unlink")
          \/ row'.status = "abandoned" /\ Goto(r, "abandon")
          \/ row'.status = "paused" /\ Goto(r, "move")
      BY <1>0, <1>5 DEF MarkResumed, RePauseOrAbandon, TypeOK, RowType
    <2>4. /\ \/ row'.status = "resumed" /\ resumer'[r].pc = "unlink"
             \/ row'.status = "abandoned" /\ resumer'[r].pc = "abandon"
             \/ row'.status = "paused" /\ resumer'[r].pc = "move"
          /\ \A q \in Resumers \ {r} : resumer'[q] = resumer[q]
      BY <1>0, <2>3, GotoMoves
    <2>5. \A q \in Resumers \ {r} : resumer'[q].pc \notin {"unlink", "abandon"}
      BY <2>2, <2>4 DEF Unmirrored
    <2>6. run.linked
      BY <1>1, <2>1 DEF MirrorInv, MirrorFollows
    <2>7. MirrorFollows'
      BY <1>1, <2>1, <2>4, <2>5, <2>6 DEF MirrorFollows, Unmirrored, At
    <2> QED BY <1>2, <2>7 DEF MirrorInv
  <1>6. CASE Unlink(r) \/ AbandonMirror(r)
    <2>1. UNCHANGED row /\ Unmirrored(r)
      BY <1>6 DEF Unlink, AbandonMirror, At, Unmirrored
    <2>2. run.linked
      BY <1>1, <2>1 DEF MirrorInv, MirrorFollows
    <2>3. \/ row.status = "resumed"
          \/ row.status = "abandoned" /\ AbandonMirror(r)
      BY <1>6 DEF MirrorInv, MirrorFollows, Unlink, AbandonMirror, At
    <2>4. Unlinked \in RunType /\ Unlinked.linked = FALSE
      BY <1>0, UnlinkedType DEF Unlinked, TypeOK, RunType
    <2>5. run'.linked = FALSE /\ (AbandonMirror(r) => run'.status = "error")
      BY <1>0, <1>6, <2>2, <2>4 DEF Unlink, AbandonMirror, At, RunType
    <2>6. Stop(r) \/ Goto(r, "brief")
      BY <1>6 DEF Unlink, AbandonMirror
    <2>7. resumer'[r].pc \in {"idle", "brief"}
          /\ \A q \in Resumers \ {r} : resumer'[q] = resumer[q]
      BY <1>0, <2>6, StopMoves, GotoMoves
    <2>8. \A q \in Resumers \ {r} : ~Unmirrored(q)
      BY <2>1 DEF MirrorInv, MirrorFollows
    <2>9. \A q \in Resumers : resumer'[q].pc \notin {"unlink", "abandon"}
      BY <2>7, <2>8 DEF Unmirrored
    <2>10. MirrorFollows'
      BY <1>1, <2>1, <2>3, <2>5, <2>9 DEF MirrorFollows, Unmirrored, At
    <2> QED BY <1>2, <2>10 DEF MirrorInv
  <1>7. CASE MoveMirror(r) \/ Brief(r)
    <2>1. UNCHANGED row /\ Stop(r) /\ ~Unmirrored(r)
      BY <1>7 DEF MoveMirror, Brief, At, Unmirrored
    <2>2. run'.linked = run.linked /\ run'.status = run.status
      BY <1>0, <1>7 DEF MoveMirror, Brief, TypeOK, RunType
    <2> QED BY <1>0, <1>1, <2>1, <2>2, StopMoves, MirrorMoved DEF Unmirrored
  <1> QED BY <1>3, <1>4, <1>5, <1>6, <1>7 DEF ResumerStep

LEMMA MirrorStep ==
  ASSUME ~Interleaved, LifeInv, MirrorInv, [Next]_vars
  PROVE  MirrorInv'
  <1>0. TypeOK
    BY DEF LifeInv
  <1>1. CASE ExecStep
    BY <1>1, ExecMirrors
  <1>2. ASSUME NEW r \in Resumers, Scan(r) \/ Manual(r)
        PROVE MirrorInv'
    <2>1. exec.pc = "done" /\ UNCHANGED <<exec, row, run>> /\ Goto(r, "claim")
      BY <1>2 DEF Scan, Manual, MayResume
    <2>2. external'.crashes = external.crashes
      BY <1>0, <1>2 DEF Scan, Manual, TypeOK
    <2>3. ~Unmirrored(r)
      BY <1>2 DEF Scan, Manual, At, Unmirrored
    <2> QED BY <1>0, <2>1, <2>2, <2>3, GotoMoves, MirrorMoved DEF Unmirrored
  <1>3. ASSUME NEW r \in Resumers, ResumerStep(r)
        PROVE MirrorInv'
    BY <1>3, ResumerMirrors
  <1>4. CASE Advance \/ Elsewhere \/ UNCHANGED vars
    <2>1. UNCHANGED <<exec, row, run, resumer>>
      BY <1>4 DEF Advance, Elsewhere, vars
    <2>2. external'.crashes = external.crashes
      BY <1>0, <1>4 DEF Advance, Elsewhere, vars, TypeOK
    <2> QED BY <2>1, <2>2 DEF MirrorInv, ExecutorFirst, MirrorFollows, Unmirrored, At
  <1> QED BY <1>1, <1>2, <1>3, <1>4, NobodyKilled DEF Next

(* When resumes wait for the executor's last statement and nobody is killed,  *)
(* an abandoned dispatch leaves its run an error once everyone is at rest,    *)
(* for any number of resumers.                                                *)
THEOREM AbandonedRunIsAnErrorAlways ==
  ASSUME ~Interleaved, MaxCrashes = 0
  PROVE  Spec => []AbandonedRunIsAnError
  <1>1. LifeInv /\ MirrorInv /\ [Next]_vars => LifeInv' /\ MirrorInv'
    BY LifeStep, MirrorStep
  <1>2. MirrorInv => AbandonedRunIsAnError
    BY DEF MirrorInv, MirrorFollows, AbandonedRunIsAnError, AtRest, At
  <1>3. Init => LifeInv /\ MirrorInv
    BY InitLife, InitMirror
  <1> QED BY <1>1, <1>2, <1>3, PTL DEF Spec

-----------------------------------------------------------------------------
(* The mirror's reset time, for one resumer *)

\* the run shows the row's reset, or its resumer is about to write it there
UntilFollows ==
  /\ \A r \in Resumers : At(r, "move") => resumer[r].reset = row.reset
  /\ run.linked => \/ run.until = row.reset
                   \/ \E r \in Resumers : At(r, "move")

LEMMA UntilStep ==
  ASSUME ~Interleaved, \A r, q \in Resumers : r = q,
         LifeInv, MirrorInv, UntilFollows, [Next]_vars
  PROVE  UntilFollows'
  <1>0. TypeOK
    BY DEF LifeInv
  <1>1. CASE ExecProbe \/ ExecFire \/ ExecReadBack \/ Advance \/ Elsewhere \/ UNCHANGED vars
    <2>1. UNCHANGED <<row, run, resumer>>
      BY <1>1 DEF ExecProbe, ExecFire, ExecReadBack, Advance, Elsewhere, vars
    <2> QED BY <2>1 DEF UntilFollows, At
  <1>2. CASE ExecInsert \/ ExecMirror \/ ExecRemirror \/ ExecFinish
    <2>1. \A r \in Resumers : resumer'[r].pc = "idle"
      <3>1. exec.pc # "done" /\ UNCHANGED resumer
        BY <1>2 DEF ExecInsert, ExecMirror, ExecRemirror, ExecFinish, ExecAt
      <3> QED BY <3>1 DEF MirrorInv, ExecutorFirst, At
    <2>2. CASE ExecInsert
      <3>1. ~run.linked /\ UNCHANGED run
        BY <2>2 DEF ExecInsert, ExecAt, LifeInv, RowAfterStep, Dispatching, MirrorInv, ExecutorFirst,
                    MirrorFollows, Unmirrored, At
      <3> QED BY <2>1, <3>1 DEF UntilFollows, At
    <2>3. CASE ExecMirror \/ ExecRemirror
      <3>1. exec.pc \in {"mirror", "remirror"} /\ UNCHANGED row
        BY <2>3 DEF ExecMirror, ExecRemirror, ExecAt
      <3>2. run'.until = exec.reset
        BY <1>0, <2>3 DEF ExecMirror, ExecRemirror, Link, TypeOK, RunType
      <3>3. row.reset = exec.reset
        BY <3>1 DEF MirrorInv, ExecutorFirst
      <3> QED BY <2>1, <3>1, <3>2, <3>3 DEF UntilFollows, At
    <2>4. CASE ExecFinish
      <3>1. UNCHANGED row /\ exec.pc # "done"
        BY <2>4 DEF ExecFinish, ExecAt
      <3>2. run'.until = run.until /\ run'.linked = run.linked
        BY <1>0, <2>4 DEF ExecFinish, TypeOK, RunType
      <3>3. \A r \in Resumers : resumer[r].pc = "idle"
        BY <3>1 DEF MirrorInv, ExecutorFirst, At
      <3> QED BY <2>1, <3>1, <3>2, <3>3 DEF UntilFollows, At
    <2> QED BY <1>2, <2>2, <2>3, <2>4
  <1>3. ASSUME NEW r \in Resumers,
               \/ Scan(r) \/ Manual(r) \/ Claim(r) \/ Preflight(r) \/ Fire(r)
               \/ WakeReadBack(r) \/ MarkResumed(r) \/ Brief(r)
        PROVE UntilFollows'
    <2>1. row'.reset = row.reset
      BY <1>0, <1>3 DEF Scan, Manual, Claim, Preflight, Fire, WakeReadBack, MarkResumed, Brief,
                        TypeOK, RowType
    <2>2. run'.linked = run.linked /\ run'.until = run.until
      BY <1>0, <1>3 DEF Scan, Manual, Claim, Preflight, Fire, WakeReadBack, MarkResumed, Brief,
                        TypeOK, RunType
    <2>3. resumer[r].pc # "move"
      BY <1>3 DEF Scan, Manual, Claim, Preflight, Fire, WakeReadBack, MarkResumed, Brief, At
    <2>4. \/ Stop(r) \/ Goto(r, "claim") \/ Goto(r, "preflight") \/ Goto(r, "fire")
          \/ Goto(r, "readback") \/ Goto(r, "resumed") \/ Goto(r, "unlink")
          \/ \E reset, brief : Postpone(r, reset, brief)
      BY <1>3 DEF Scan, Manual, Claim, Preflight, Fire, WakeReadBack, MarkResumed, Brief
    <2>5. resumer'[r].pc # "move"
      BY <1>0, <2>4, StopMoves, GotoMoves, PostponeMoves
    <2>6. \A q \in Resumers : q = r
      OBVIOUS
    <2> QED BY <2>1, <2>2, <2>3, <2>5, <2>6 DEF UntilFollows, At
  <1>4. ASSUME NEW r \in Resumers, RePauseOrAbandon(r)
        PROVE UntilFollows'
    <2>1. UNCHANGED run
      BY <1>4 DEF RePauseOrAbandon
    <2>2. \/ row'.reset = row.reset /\ Goto(r, "abandon")
          \/ row'.reset = resumer[r].reset /\ Goto(r, "move")
      BY <1>0, <1>4 DEF RePauseOrAbandon, TypeOK, RowType
    <2>3. resumer[r].pc # "move"
      BY <1>4 DEF RePauseOrAbandon, At
    <2>4. \A q \in Resumers : q = r
      OBVIOUS
    <2>5. \/ row'.reset = row.reset /\ resumer'[r].pc = "abandon"
          \/ row'.reset = resumer'[r].reset /\ resumer'[r].pc = "move"
      <3>1. \A pc : Goto(r, pc) => resumer'[r].reset = resumer[r].reset
        BY <1>0 DEF Goto, TypeOK, ResumerType
      <3> QED BY <1>0, <2>2, <3>1, GotoMoves
    <2> QED BY <2>1, <2>3, <2>4, <2>5 DEF UntilFollows, At
  <1>5. ASSUME NEW r \in Resumers, MoveMirror(r)
        PROVE UntilFollows'
    <2>1. UNCHANGED row /\ Stop(r) /\ resumer[r].reset = row.reset
      BY <1>5 DEF MoveMirror, UntilFollows
    <2>2. run'.linked => run'.until = resumer[r].reset
      BY <1>0, <1>5 DEF MoveMirror, TypeOK, RunType
    <2>3. \A q \in Resumers : resumer'[q].pc = "idle"
      BY <1>0, <2>1, StopMoves
    <2> QED BY <2>1, <2>2, <2>3 DEF UntilFollows, At
  <1>6. ASSUME NEW r \in Resumers, Unlink(r) \/ AbandonMirror(r)
        PROVE UntilFollows'
    <2>1. run.linked => run'.linked = FALSE
      BY <1>0, <1>6 DEF Unlink, AbandonMirror, Unlinked, TypeOK, RunType
    <2>2. ~run.linked => run' = run
      BY <1>6 DEF Unlink, AbandonMirror
    <2>3. UNCHANGED row /\ (Stop(r) \/ Goto(r, "brief"))
      BY <1>6 DEF Unlink, AbandonMirror
    <2>4. \A q \in Resumers : resumer'[q].pc # "move"
      BY <1>0, <2>3, StopMoves, GotoMoves
    <2> QED BY <2>1, <2>2, <2>3, <2>4 DEF UntilFollows, At
  <1> QED BY <1>1, <1>2, <1>3, <1>4, <1>5, <1>6, NobodyKilled DEF Next, ExecStep, ResumerStep

(* Where one process at a time resumes, after the executor's last statement, *)
(* and nobody is killed, the mirror on loop_runs agrees with the paused row  *)
(* whenever everyone is at rest: it points there exactly while the row is    *)
(* pending, and shows its reset.                                             *)
THEOREM MirrorAgreesAlways ==
  ASSUME ~Interleaved, MaxCrashes = 0, \A r, q \in Resumers : r = q
  PROVE  Spec => []MirrorAgrees
  <1>1. LifeInv /\ MirrorInv /\ UntilFollows /\ [Next]_vars
          => LifeInv' /\ MirrorInv' /\ UntilFollows'
    BY LifeStep, MirrorStep, UntilStep
  <1>2. MirrorInv /\ UntilFollows => MirrorAgrees
    BY DEF MirrorInv, MirrorFollows, Unmirrored, UntilFollows, MirrorAgrees, AtRest, At
  <1>3. Init => LifeInv /\ MirrorInv /\ UntilFollows
    <2>1. Init => UntilFollows
      BY DEF Init, UntilFollows, At, IdleResumer
    <2> QED BY <2>1, InitLife, InitMirror
  <1> QED BY <1>1, <1>2, <1>3, PTL DEF Spec
=============================================================================
