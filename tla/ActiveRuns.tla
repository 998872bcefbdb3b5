----------------------------- MODULE ActiveRuns -----------------------------
(***************************************************************************)
(* Dispatches in flight: the desktop's registry (active_runs.rs), its       *)
(* mirror in the table live_runs, where command lines add their own         *)
(* dispatches (live_runs.rs of the CLI), and everybody who ends a run: its  *)
(* own path, the Kill button, `ato kill`, the reaper behind every rendering *)
(* of the list, and the desktop's start, which clears the table.            *)
(*                                                                         *)
(* The registry is under one mutex, every other step is one statement or    *)
(* one signal.  A run has one process; process ids are not used twice, so   *)
(* a process is named by its run.  A child closes its output by exiting.    *)
(***************************************************************************)
EXTENDS Naturals, FiniteSets

CONSTANTS
    Runs,         \* run ids
    Workspaces,   \* workspaces of dispatches, which may include
    NoWorkspace,  \* no workspace, as with a provider's dispatch
    Kinds,        \* paths a dispatch may take
    MaxCrashes,   \* bound: times the desktop dies
    MaxReloads    \* bound: times the window forgets a dispatch it waits for

ASSUME RunsAssumption ==
    /\ Workspaces # {}
    /\ Kinds \subseteq {"agent", "context", "stream", "api", "cli"}
    /\ MaxCrashes \in Nat /\ MaxReloads \in Nat

VARIABLES
    up,          \* is the desktop running?
    kind,        \* the path of each run
    workspace,   \* the workspace of each run
    pc,          \* where each run's path stands
    registry,    \* runs with a slot
    handler,     \* slots with a kill closure
    killing,     \* slots whose status is "killing"
    overlapped,  \* each slot's overlap evidence
    signalled,   \* runs whose kill channel holds a message
    mirror,      \* runs with a row in live_runs
    pidKnown,    \* rows with a child_pid
    alive,       \* runs whose process lives
    looked,      \* runs whose pid a killer has read and not used yet, with its signal
    accepted,    \* runs the user was told are being killed
    wiped,       \* runs whose row a start of the desktop deleted
    faults       \* deaths of the desktop, forgotten dispatches

slots == <<registry, handler, killing, overlapped>>
rows == <<mirror, pidKnown>>
run == <<kind, workspace, pc>>
killers == <<looked, accepted>>
vars == <<up, run, slots, signalled, rows, alive, killers, wiped, faults>>

Desktop == {"agent", "context", "stream", "api"}

At(r, from, to) == pc[r] = from /\ pc' = [pc EXCEPT ![r] = to]
OfKind(r, kinds) == kind[r] \in kinds
Named(r) == workspace[r] # NoWorkspace

Init ==
    /\ up = TRUE
    /\ kind \in [Runs -> Kinds]
    /\ workspace \in [Runs -> Workspaces \cup {NoWorkspace}]
    /\ \A r \in Runs : workspace[r] \in IF OfKind(r, {"api", "cli"}) THEN {NoWorkspace} ELSE Workspaces
    /\ pc = [r \in Runs |-> "new"]
    /\ registry = {} /\ handler = {} /\ killing = {}
    /\ overlapped = [r \in Runs |-> {}]
    /\ signalled = {}
    /\ mirror = {} /\ pidKnown = {}
    /\ alive = {}
    /\ looked = {} /\ accepted = {}
    /\ wiped = {}
    /\ faults = [crashes |-> 0, reloads |-> 0]

-----------------------------------------------------------------------------
(* The desktop's dispatch paths *)

Peers(r) == {p \in registry : Named(r) /\ workspace[p] = workspace[r]}

\* variant: only the newcomer learns of the overlap
BeginAlone(r) ==
    /\ up /\ OfKind(r, Desktop)
    /\ At(r, "new", "begun")
    /\ overlapped' = [overlapped EXCEPT ![r] = Peers(r)]
    /\ registry' = registry \cup {r}
    /\ mirror' = mirror \cup {r}
    /\ UNCHANGED <<up, kind, workspace, handler, killing, signalled, pidKnown, alive, killers,
                   wiped, faults>>

\* begin_run: overlap evidence on both sides, the slot and its row, under the lock
Begin(r) ==
    /\ up /\ OfKind(r, Desktop)
    /\ At(r, "new", "begun")
    /\ overlapped' = [p \in Runs |-> CASE p = r -> Peers(r)
                                       [] p \in Peers(r) -> overlapped[p] \cup {r}
                                       [] OTHER -> overlapped[p]]
    /\ registry' = registry \cup {r}
    /\ mirror' = mirror \cup {r}
    /\ UNCHANGED <<up, kind, workspace, handler, killing, signalled, pidKnown, alive, killers,
                   wiped, faults>>

\* attach_kill_handler, before the spawn in prompt_agent and after it in a stream,
\* where the window hears of the run only now; it needs the slot to be there still
Attach(r) ==
    /\ \/ OfKind(r, {"agent", "context"}) /\ At(r, "begun", "attached")
       \/ OfKind(r, {"stream"}) /\ At(r, "spawned", "reading")
    /\ handler' = IF r \in registry THEN handler \cup {r} ELSE handler
    /\ UNCHANGED <<up, kind, workspace, registry, killing, overlapped, signalled, rows, alive,
                   killers, wiped, faults>>

Spawn(r) ==
    /\ \/ OfKind(r, {"agent", "context"}) /\ At(r, "attached", "spawned")
       \/ OfKind(r, {"stream"}) /\ At(r, "begun", "spawned")
    /\ alive' = alive \cup {r}
    /\ UNCHANGED <<up, kind, workspace, slots, signalled, rows, killers, wiped, faults>>

SpawnFails(r) ==
    /\ \/ OfKind(r, {"agent", "context"}) /\ At(r, "attached", "failed")
       \/ OfKind(r, {"stream"}) /\ At(r, "begun", "failed")
    /\ UNCHANGED <<up, kind, workspace, slots, signalled, rows, alive, killers, wiped, faults>>

\* set_child_pid updates the row, if it is there; a stream never calls it
SetPid(r) ==
    /\ OfKind(r, {"agent", "context"})
    /\ At(r, "spawned", "reading")
    /\ pidKnown' = IF r \in mirror THEN pidKnown \cup {r} ELSE pidKnown
    /\ UNCHANGED <<up, kind, workspace, slots, signalled, mirror, alive, killers, wiped, faults>>

\* prompt_api_provider: no child, no handler
CallProvider(r) ==
    /\ OfKind(r, {"api"})
    /\ \E to \in {"ok", "failed"} : At(r, "begun", to)
    /\ UNCHANGED <<up, kind, workspace, slots, signalled, rows, alive, killers, wiped, faults>>

\* variant: the output is read to its end before the kill channel is looked at
ReadKillLate(r) ==
    /\ r \in signalled /\ r \notin alive
    /\ At(r, "reading", "failed")
    /\ signalled' = signalled \ {r}
    /\ UNCHANGED <<up, kind, workspace, slots, rows, alive, killers, wiped, faults>>

\* the biased select: a message on the kill channel goes first
ReadKill(r) ==
    /\ r \in signalled
    /\ At(r, "reading", "failed")
    /\ signalled' = signalled \ {r}
    /\ alive' = alive \ {r}
    /\ UNCHANGED <<up, kind, workspace, slots, rows, killers, wiped, faults>>

\* end of output, and the child's status
ReadEnd(r) ==
    /\ r \notin signalled /\ r \notin alive
    /\ \E to \in {"ok", "failed"} : At(r, "reading", to)
    /\ UNCHANGED <<up, kind, workspace, slots, signalled, rows, alive, killers, wiped, faults>>

\* finish_run, first half: by the path's guard, or for a context dispatch that went
\* well by the window, once it has fetched the overlap evidence
FinishSlot(r) ==
    /\ up /\ OfKind(r, Desktop)
    /\ At(r, "ok", "finishing") \/ At(r, "failed", "finishing")
    /\ registry' = registry \ {r}
    /\ handler' = handler \ {r}
    /\ killing' = killing \ {r}
    /\ UNCHANGED <<up, kind, workspace, overlapped, signalled, rows, alive, killers, wiped, faults>>

\* finish_run, second half, outside the lock
FinishRow(r) ==
    /\ up
    /\ At(r, "finishing", "done")
    /\ mirror' = mirror \ {r}
    /\ pidKnown' = pidKnown \ {r}
    /\ UNCHANGED <<up, kind, workspace, slots, signalled, alive, killers, wiped, faults>>

\* the window reloads while a context dispatch is out: nobody will finish it
Reload(r) ==
    /\ up /\ OfKind(r, {"context"})
    /\ faults.reloads < MaxReloads
    /\ At(r, "ok", "forgotten")
    /\ faults' = [faults EXCEPT !.reloads = @ + 1]
    /\ UNCHANGED <<up, kind, workspace, slots, signalled, rows, alive, killers, wiped>>

\* a runtime comes to its end
ChildExits(r) ==
    /\ OfKind(r, Desktop)
    /\ r \in alive
    /\ alive' = alive \ {r}
    /\ UNCHANGED <<up, run, slots, signalled, rows, killers, wiped, faults>>

-----------------------------------------------------------------------------
(* A dispatch of the command line *)

\* live_runs::insert with the process's own pid
CliInsert(r) ==
    /\ OfKind(r, {"cli"})
    /\ At(r, "new", "working")
    /\ alive' = alive \cup {r}
    /\ mirror' = mirror \cup {r}
    /\ pidKnown' = pidKnown \cup {r}
    /\ UNCHANGED <<up, kind, workspace, slots, signalled, killers, wiped, faults>>

\* LiveRunGuard deletes the row on every way out
CliEnd(r) ==
    /\ OfKind(r, {"cli"})
    /\ At(r, "working", "leaving")
    /\ mirror' = mirror \ {r}
    /\ pidKnown' = pidKnown \ {r}
    /\ UNCHANGED <<up, kind, workspace, slots, signalled, alive, killers, wiped, faults>>

\* the process is gone, in its time or by Ctrl-C or worse, which no guard survives
CliGone(r) ==
    /\ OfKind(r, {"cli"})
    /\ At(r, "leaving", "done") \/ At(r, "working", "dead")
    /\ alive' = alive \ {r}
    /\ UNCHANGED <<up, kind, workspace, slots, signalled, rows, killers, wiped, faults>>

-----------------------------------------------------------------------------
(* Those who end runs *)

\* variant: the id is given a slot where it has none, a command line's row or not
KillSlotOfAny(r) ==
    /\ up
    /\ r \in registry \cup mirror
    /\ registry' = registry \cup {r}
    /\ killing' = killing \cup {r}
    /\ handler' = handler \ {r}
    /\ signalled' = IF r \in handler THEN signalled \cup {r} ELSE signalled
    /\ accepted' = IF r \in handler THEN accepted \cup {r} ELSE accepted
    /\ UNCHANGED <<up, run, overlapped, rows, alive, looked, wiped, faults>>

\* kill_run of a run with a slot: the closure is used up, without one the answer is no
KillSlot(r) ==
    /\ up
    /\ r \in registry
    /\ killing' = killing \cup {r}
    /\ handler' = handler \ {r}
    /\ signalled' = IF r \in handler THEN signalled \cup {r} ELSE signalled
    /\ accepted' = IF r \in handler THEN accepted \cup {r} ELSE accepted
    /\ UNCHANGED <<up, run, registry, overlapped, rows, alive, looked, wiped, faults>>

\* The row's child_pid is read: by kill_run for a run without a slot (kill_via_pid),
\* by `ato kill` for any row.
Look(r) ==
    /\ r \in pidKnown
    /\ \E signal \in {"KILL", "TERM"} :
         /\ signal = "KILL" => up /\ r \notin registry
         /\ looked' = looked \cup {<<r, signal>>}
    /\ UNCHANGED <<up, run, slots, signalled, rows, alive, accepted, wiped, faults>>

\* a process of the command line that a signal ends leaves its row behind
Struck(r) == IF pc[r] \in {"working", "leaving"} THEN [pc EXCEPT ![r] = "dead"] ELSE pc

\* kill -9, and the row goes: the process is dead, or was
Kill(r) ==
    /\ <<r, "KILL">> \in looked
    /\ looked' = looked \ {<<r, "KILL">>}
    /\ pc' = Struck(r)
    /\ alive' = alive \ {r}
    /\ accepted' = accepted \cup {r}
    /\ mirror' = mirror \ {r}
    /\ pidKnown' = pidKnown \ {r}
    /\ UNCHANGED <<up, kind, workspace, slots, signalled, wiped, faults>>

\* `ato kill` sends SIGTERM, which a runtime may disregard, and leaves the row
Terminate(r) ==
    /\ <<r, "TERM">> \in looked
    /\ looked' = looked \ {<<r, "TERM">>}
    /\ \/ pc' = Struck(r) /\ alive' = alive \ {r}
       \/ OfKind(r, Desktop) /\ UNCHANGED <<pc, alive>>
    /\ UNCHANGED <<up, kind, workspace, slots, signalled, rows, accepted, wiped, faults>>

\* variant: whatever kill -0 complains of, the process is taken for dead
ReapUnsure(r) ==
    /\ up
    /\ r \in pidKnown
    /\ mirror' = mirror \ {r}
    /\ pidKnown' = pidKnown \ {r}
    /\ UNCHANGED <<up, run, slots, signalled, alive, killers, wiped, faults>>

\* reap_dead_live_runs: a row whose process kill -0 says does not exist.  The grace
\* of thirty seconds is some time, as is the interval of the list's rendering.
Reap(r) ==
    /\ up
    /\ r \in pidKnown /\ r \notin alive
    /\ mirror' = mirror \ {r}
    /\ pidKnown' = pidKnown \ {r}
    /\ UNCHANGED <<up, run, slots, signalled, alive, killers, wiped, faults>>

\* The desktop dies: the registry is gone with it, its children live on.
Crash ==
    /\ up
    /\ faults.crashes < MaxCrashes
    /\ up' = FALSE
    /\ registry' = {} /\ handler' = {} /\ killing' = {}
    /\ overlapped' = [r \in Runs |-> {}]
    /\ signalled' = {}
    /\ looked' = {l \in looked : l[2] = "TERM"}
    /\ pc' = [r \in Runs |-> IF OfKind(r, Desktop) /\ pc[r] \notin {"new", "done"}
                             THEN "lost" ELSE pc[r]]
    /\ faults' = [faults EXCEPT !.crashes = @ + 1]
    /\ UNCHANGED <<kind, workspace, rows, alive, accepted, wiped>>

\* variant: the start of the desktop leaves the table to the reaper
BootKeeping ==
    /\ ~up
    /\ up' = TRUE
    /\ UNCHANGED <<run, slots, signalled, rows, alive, killers, wiped, faults>>

\* init_database at the start of the desktop: DELETE FROM live_runs
Boot ==
    /\ ~up
    /\ up' = TRUE
    /\ mirror' = {} /\ pidKnown' = {}
    /\ wiped' = wiped \cup mirror
    /\ UNCHANGED <<run, slots, signalled, alive, killers, faults>>

Path(r) ==
    \/ Begin(r) \/ Attach(r) \/ Spawn(r) \/ SpawnFails(r) \/ SetPid(r) \/ CallProvider(r)
    \/ ReadKill(r) \/ ReadEnd(r) \/ FinishSlot(r) \/ FinishRow(r)

Next ==
    \/ \E r \in Runs :
         \/ Path(r) \/ Reload(r) \/ ChildExits(r)
         \/ CliInsert(r) \/ CliEnd(r) \/ CliGone(r)
         \/ KillSlot(r) \/ Look(r) \/ Kill(r) \/ Terminate(r) \/ Reap(r)
    \/ Crash \/ Boot

Spec == Init /\ [][Next]_vars

\* A path goes on and a killer uses what it read; the list is rendered and the
\* desktop opened again and again.  Nobody owes a kill, and no child its end.
FairSpec ==
    /\ Spec
    /\ \A r \in Runs : WF_vars(Path(r)) /\ WF_vars(Kill(r)) /\ WF_vars(Reap(r))
    /\ WF_vars(Boot)

-----------------------------------------------------------------------------
(* What the Live tab shows and does *)

Stages == {"new", "begun", "attached", "spawned", "reading", "ok", "failed", "finishing",
           "done", "forgotten", "working", "leaving", "dead", "lost"}

\* The variables keep their types, and what hangs on a slot or a row goes with it.
TypeOK ==
    /\ up \in BOOLEAN
    /\ kind \in [Runs -> Kinds]
    /\ workspace \in [Runs -> Workspaces \cup {NoWorkspace}]
    /\ pc \in [Runs -> Stages]
    /\ registry \subseteq {r \in Runs : OfKind(r, Desktop)}
    /\ handler \subseteq registry /\ killing \subseteq registry
    /\ overlapped \in [Runs -> SUBSET Runs]
    /\ signalled \subseteq Runs
    /\ mirror \subseteq Runs /\ pidKnown \subseteq mirror
    /\ alive \subseteq Runs
    /\ looked \subseteq Runs \X {"KILL", "TERM"}
    /\ accepted \subseteq Runs /\ wiped \subseteq Runs
    /\ faults \in [crashes : 0..MaxCrashes, reloads : 0..MaxReloads]

\* Two dispatches that are out in one workspace at once have each other in their
\* evidence, whichever came first.
OverlapIsMutual ==
    \A a, b \in registry :
        a # b /\ Named(a) /\ workspace[a] = workspace[b] => b \in overlapped[a]

\* A dispatch of the command line that works is in the table: neither a killer who
\* read an old row nor the reaper takes it away, only a start of the desktop.
CliIsVisible == \A r \in Runs : pc[r] = "working" => r \in mirror \cup wiped

\* A start of the desktop clears only rows of processes that are gone.
WipedAreDead == \A r \in wiped : OfKind(r, {"cli"}) => pc[r] # "working"

\* A row whose run is over, or nobody's any more, does not stay.
Stale(r) == r \in mirror /\ r \notin alive /\ pc[r] \in {"dead", "lost", "forgotten", "finishing"}
StaleRowsGo == \A r \in Runs : Stale(r) ~> r \notin mirror

\* A run the user was told is being killed does end, though its child would never;
\* unless the desktop dies first.
KillEnds == \A r \in Runs : r \in accepted ~> r \notin alive \/ pc[r] = "lost"

\* As prompt_agent_with_context has it, the slot of a dispatch the window forgot stays
\* until the next begin_run in the same workspace.
ForgottenSlotGoes ==
    [][\A r, p \in Runs :
         (r \notin registry /\ r \in registry' /\ p \in registry /\ pc[p] = "forgotten"
            /\ Named(p) /\ workspace[p] = workspace[r]) => p \notin registry']_vars
=============================================================================
