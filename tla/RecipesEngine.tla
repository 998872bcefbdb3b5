--------------------------- MODULE RecipesEngine ---------------------------
(***************************************************************************)
(* The recipes engine of the desktop (recipes_engine/): events published by *)
(* the desktop's threads on the bus (events.rs) and by command lines in the *)
(* table events_log (events_publisher.rs), the two tasks that hear of them, *)
(* the claim that keeps a recipe from firing twice, its rate limit and the  *)
(* audit row of every firing, and the firings that wait for an approval.    *)
(*                                                                         *)
(* A step is one statement on the database, or one operation on a counter,  *)
(* a channel or what a recipe's lock guards in memory.                      *)
(***************************************************************************)
EXTENDS Integers, Sequences, FiniteSets, SequencesExt

CONSTANTS
    DesktopEvents,  \* events that threads of the desktop publish
    CliEvents,      \* events that command lines publish
    Unreadable,     \* those of them that are no AtoEvent, such as ratchet_breach
    Recipes,        \* enabled recipes, whose triggers match every event
    Asking,         \* the recipes among them whose action is request_approval
    RateLimit,      \* executions of a recipe within the window, 10 in the code
    SeenCap,        \* SEEN_CAP, 256 in the code
    Capacity,       \* CHANNEL_CAPACITY of the bus, 256 in the code
    PollLimit,      \* rows that one poll reads, 200 in the code
    MaxFaults       \* bound: deaths of the desktop, and failed lookups

ASSUME RecipesAssumption ==
    /\ DesktopEvents \cap CliEvents = {} /\ Unreadable \subseteq CliEvents
    /\ Asking \subseteq Recipes
    /\ {RateLimit, SeenCap, Capacity, PollLimit} \subseteq Nat \ {0}
    /\ MaxFaults \in Nat

Events == DesktopEvents \cup CliEvents
Tasks == {"bus", "poll"}

VARIABLES
    up,         \* is the desktop running?
    counter,    \* the bus's SEQ: the number it will give out next
    stage,      \* where the publication of each event stands
    number,     \* the event_seq of each event, 0 before it has one
    tries,      \* attempts left for each command line
    ledger,     \* events_log: event_seq |-> event, and the event_seq its payload says
    bus,        \* what the subscriber has not received yet
    watermark,  \* last_seen_seq of the poll, -1 before it is read from the table
    listening,  \* tasks that have begun to listen
    heard,      \* what each task has in hand: pairs of an event and its event_seq
    left,       \* recipes that each task has to try with the first of those
    firing,     \* the audit row that each task is at, 0 for none
    holds,      \* the recipe whose lock (lock_for_slug) each task holds, if it holds one
    room,       \* did each task find its recipe below the limit, when it counted?
    seen,       \* the numbers claimed for each recipe
    rows,       \* ops_recipe_runs, oldest first
    aged,       \* how many of them are older than the rate limit's window
    skipped,    \* recipe, event and number of what was taken for a duplicate
    missed,     \* events lost because the lookup of recipes failed
    faults      \* deaths and failures so far

publishers == <<counter, stage, number, tries, ledger>>
locks == <<holds, room>>
tasks == <<listening, watermark, heard, left, firing, locks>>
audit == <<rows, aged>>
vars == <<up, publishers, bus, tasks, seen, audit, skipped, missed, faults>>

MaxSeq == Max(DOMAIN ledger \cup {0})

Init ==
    /\ up = TRUE
    /\ counter = 1
    /\ stage = [e \in Events |-> "new"]
    /\ number = [e \in Events |-> 0]
    /\ tries = [e \in Events |-> 3]
    /\ ledger = <<>>
    /\ bus = <<>>
    /\ watermark = -1
    /\ listening = {}
    /\ heard = [t \in Tasks |-> <<>>]
    /\ left = [t \in Tasks |-> {}]
    /\ firing = [t \in Tasks |-> 0]
    /\ holds = [t \in Tasks |-> {}] /\ room = [t \in Tasks |-> FALSE]
    /\ seen = [r \in Recipes |-> {}]
    /\ rows = <<>> /\ aged = 0
    /\ skipped = {} /\ missed = {}
    /\ faults = 0

-----------------------------------------------------------------------------
(* The desktop's publishers *)

Moves(e, from, to) == stage[e] = from /\ stage' = [stage EXCEPT ![e] = to]

\* next_seq
Reserve(e) ==
    /\ up /\ e \in DesktopEvents
    /\ Moves(e, "new", "reserved")
    /\ number' = [number EXCEPT ![e] = counter]
    /\ counter' = counter + 1
    /\ UNCHANGED <<up, tries, ledger, bus, tasks, seen, audit, skipped, missed, faults>>

\* persist_event: a conflict on event_seq leaves the event out of the table
Persist(e) ==
    /\ up /\ e \in DesktopEvents
    /\ Moves(e, "reserved", "persisted")
    /\ ledger' = [s \in DOMAIN ledger \cup {number[e]} |->
                    IF s \in DOMAIN ledger THEN ledger[s] ELSE [event |-> e, says |-> s]]
    /\ UNCHANGED <<up, counter, number, tries, bus, tasks, seen, audit, skipped, missed, faults>>

\* variant: the channel keeps what a slow subscriber has not received
SendAll(e) ==
    /\ up /\ e \in DesktopEvents
    /\ Moves(e, "persisted", "sent")
    /\ bus' = IF "bus" \notin listening THEN bus ELSE Append(bus, e)
    /\ UNCHANGED <<up, counter, number, tries, ledger, tasks, seen, audit, skipped, missed, faults>>

\* the broadcast: nobody may be listening, and a full channel loses its oldest
Send(e) ==
    /\ up /\ e \in DesktopEvents
    /\ Moves(e, "persisted", "sent")
    /\ bus' = IF "bus" \notin listening THEN bus
              ELSE LET all == Append(bus, e) IN IF Len(all) > Capacity THEN Tail(all) ELSE all
    /\ UNCHANGED <<up, counter, number, tries, ledger, tasks, seen, audit, skipped, missed, faults>>

-----------------------------------------------------------------------------
(* insert_event_row and the rewriting of its payload, in a command line *)

ReadMax(e) ==
    /\ e \in CliEvents /\ tries[e] > 0
    /\ Moves(e, "new", "numbered")
    /\ number' = [number EXCEPT ![e] = MaxSeq + 1]
    /\ tries' = [tries EXCEPT ![e] = @ - 1]
    /\ UNCHANGED <<up, counter, ledger, bus, tasks, seen, audit, skipped, missed, faults>>

\* the payload goes in with event_seq 0; on a conflict the maximum is read again
Insert(e) ==
    /\ e \in CliEvents
    /\ IF number[e] \in DOMAIN ledger
       THEN Moves(e, "numbered", "new") /\ UNCHANGED ledger
       ELSE /\ Moves(e, "numbered", "inserted")
            /\ ledger' = [s \in DOMAIN ledger \cup {number[e]} |->
                            IF s = number[e] THEN [event |-> e, says |-> 0] ELSE ledger[s]]
    /\ UNCHANGED <<up, counter, number, tries, bus, tasks, seen, audit, skipped, missed, faults>>

Rewrite(e) ==
    /\ Moves(e, "inserted", "sent")
    /\ ledger' = [ledger EXCEPT ![number[e]].says = number[e]]
    /\ UNCHANGED <<up, counter, number, tries, bus, tasks, seen, audit, skipped, missed, faults>>

-----------------------------------------------------------------------------
(* The engine's two ears *)

Subscribe ==
    /\ up /\ "bus" \notin listening
    /\ listening' = listening \cup {"bus"}
    /\ UNCHANGED <<up, publishers, bus, watermark, heard, left, firing, locks, seen, audit,
                   skipped, missed, faults>>

\* the poll starts from the end of the table
Bootstrap ==
    /\ up /\ "poll" \notin listening
    /\ listening' = listening \cup {"poll"}
    /\ watermark' = MaxSeq
    /\ UNCHANGED <<up, publishers, bus, heard, left, firing, locks, seen, audit, skipped,
                   missed, faults>>

Hears(t, what) ==
    /\ up /\ t \in listening /\ heard[t] = <<>>
    /\ heard' = [heard EXCEPT ![t] = what]
    /\ left' = [left EXCEPT ![t] = Recipes]

Receive ==
    /\ bus # <<>>
    /\ Hears("bus", <<<<Head(bus), number[Head(bus)]>>>>)
    /\ bus' = Tail(bus)
    /\ UNCHANGED <<up, publishers, listening, watermark, firing, locks, seen, audit, skipped,
                   missed, faults>>

\* the lowest PollLimit numbers above the watermark
Page ==
    LET above == {s \in DOMAIN ledger : s > watermark}
    IN  {s \in above : Cardinality({q \in above : q < s}) < PollLimit}

\* those of its rows that parse; the rest is skipped with a line on stderr
Readable == {s \in Page : ledger[s].event \notin Unreadable}

Occurrences == [i \in 1..Cardinality(Readable) |->
    LET s == CHOOSE q \in Readable : Cardinality({p \in Readable : p < q}) = i - 1
    IN  <<ledger[s].event, ledger[s].says>>]

\* variant: the watermark jumps to the end of the table
PollToTheEnd ==
    /\ Page # {}
    /\ Hears("poll", Occurrences)
    /\ watermark' = MaxSeq
    /\ UNCHANGED <<up, publishers, bus, listening, firing, locks, seen, audit, skipped, missed, faults>>

\* poll_events_log: an event is what its payload says at the time, and the watermark
\* passes what does not parse
Poll ==
    /\ Page # {}
    /\ Hears("poll", Occurrences)
    /\ watermark' = Max(Page)
    /\ UNCHANGED <<up, publishers, bus, listening, firing, locks, seen, audit, skipped, missed, faults>>

-----------------------------------------------------------------------------
(* handle_event *)

Idle(t) == up /\ heard[t] # <<>> /\ firing[t] = 0 /\ holds[t] = {}
Current(t) == heard[t][1][1]
Number(t) == heard[t][1][2]

\* a recipe is dealt with: on to the next one, or with none left to the next event
Done(t, rest) ==
    IF rest # {} THEN left' = [left EXCEPT ![t] = rest] /\ UNCHANGED heard
    ELSE left' = [left EXCEPT ![t] = Recipes] /\ heard' = [heard EXCEPT ![t] = Tail(@)]

\* find_candidates fails: an error for the log, and the event is over
Miss(t) ==
    /\ Idle(t) /\ left[t] = Recipes /\ faults < MaxFaults
    /\ faults' = faults + 1
    /\ missed' = missed \cup {Current(t)}
    /\ heard' = [heard EXCEPT ![t] = Tail(@)]
    /\ UNCHANGED <<up, publishers, bus, listening, watermark, left, firing, locks, seen, audit,
                   skipped>>

\* rows of the window that count: those that were not turned away by it
Counted(r) ==
    {i \in aged + 1 .. Len(rows) : rows[i].recipe = r /\ rows[i].status # "rate_limited"}

\* claim_recipe_event: of too many numbers the smallest goes, be it the new one
Claimed(r, s) ==
    LET all == seen[r] \cup {s}
    IN  IF Cardinality(all) > SeenCap THEN all \ {CHOOSE m \in all : \A q \in all : m <= q} ELSE all

\* variant: a number below one that was claimed is taken for a duplicate
DuplicateBelow(r, s) == \E q \in seen[r] : q >= s

Duplicate(r, s) == s \in seen[r]

Row(r, t, status) ==
    [recipe |-> r, event |-> Current(t), status |-> status, asked |-> FALSE, verdict |-> "none"]

\* A task waits for the recipe's lock; a duplicate gives it up at once.
Free(t, r) == Idle(t) /\ r \in left[t] /\ \A u \in Tasks : r \notin holds[u]

Skip(t, r) ==
    /\ Free(t, r)
    /\ Duplicate(r, Number(t))
    /\ Done(t, left[t] \ {r})
    /\ skipped' = skipped \cup {<<r, Current(t), Number(t)>>}
    /\ UNCHANGED <<up, publishers, bus, listening, watermark, firing, locks, seen, audit, missed,
                   faults>>

\* variant: the lock is not waited for
EnterUnlocked(t, r) ==
    /\ Idle(t) /\ r \in left[t]
    /\ ~Duplicate(r, Number(t))
    /\ seen' = [seen EXCEPT ![r] = Claimed(r, Number(t))]
    /\ holds' = [holds EXCEPT ![t] = {r}]
    /\ room' = [room EXCEPT ![t] = Cardinality(Counted(r)) < RateLimit]
    /\ UNCHANGED <<up, publishers, bus, listening, watermark, heard, left, firing, audit, skipped,
                   missed, faults>>

\* variant: the claim is left out when the limit turns the event away
EnterUnclaimed(t, r) ==
    /\ Free(t, r)
    /\ ~Duplicate(r, Number(t))
    /\ holds' = [holds EXCEPT ![t] = {r}]
    /\ room' = [room EXCEPT ![t] = Cardinality(Counted(r)) < RateLimit]
    /\ seen' = IF room'[t] THEN [seen EXCEPT ![r] = Claimed(r, Number(t))] ELSE seen
    /\ UNCHANGED <<up, publishers, bus, listening, watermark, heard, left, firing, audit, skipped,
                   missed, faults>>

\* with the lock: claim_recipe_event, and runs_in_window_executed_only
Enter(t, r) ==
    /\ Free(t, r)
    /\ ~Duplicate(r, Number(t))
    /\ seen' = [seen EXCEPT ![r] = Claimed(r, Number(t))]
    /\ holds' = [holds EXCEPT ![t] = {r}]
    /\ room' = [room EXCEPT ![t] = Cardinality(Counted(r)) < RateLimit]
    /\ UNCHANGED <<up, publishers, bus, listening, watermark, heard, left, firing, audit, skipped,
                   missed, faults>>

\* insert_run_row, 'running' in either case; the lock goes before the action begins, and is
\* kept over a row that will be turned away ("turning" tells the two apart, not the table)
Fire(t, r) ==
    /\ up /\ r \in holds[t] /\ firing[t] = 0
    /\ rows' = Append(rows, Row(r, t, IF room[t] THEN "running" ELSE "turning"))
    /\ firing' = [firing EXCEPT ![t] = Len(rows')]
    /\ holds' = IF room[t] THEN [holds EXCEPT ![t] = {}] ELSE holds
    /\ UNCHANGED <<up, publishers, bus, listening, watermark, heard, left, room, seen, aged,
                   skipped, missed, faults>>

\* finalize_run_row of what the limit turns away, and the lock
TurnAway(t) ==
    /\ up /\ firing[t] # 0 /\ rows[firing[t]].status = "turning"
    /\ rows' = [rows EXCEPT ![firing[t]].status = "rate_limited"]
    /\ firing' = [firing EXCEPT ![t] = 0]
    /\ holds' = [holds EXCEPT ![t] = {}]
    /\ Done(t, left[t] \ {rows[firing[t]].recipe})
    /\ UNCHANGED <<up, publishers, bus, listening, watermark, room, seen, aged, skipped, missed,
                   faults>>

\* an action has ended, well or not, and finalize_run_row says so
Finish(t) ==
    /\ up /\ firing[t] # 0 /\ rows[firing[t]].status = "running"
    /\ rows' = [rows EXCEPT ![firing[t]].status = "done"]
    /\ firing' = [firing EXCEPT ![t] = 0]
    /\ Done(t, left[t] \ {rows[firing[t]].recipe})
    /\ UNCHANGED <<up, publishers, bus, listening, watermark, locks, seen, aged, skipped, missed,
                   faults>>

\* variant: the status is left to finalize_run_row
ParkInPart(t) ==
    /\ up /\ firing[t] # 0 /\ rows[firing[t]].status = "running" /\ ~rows[firing[t]].asked
    /\ rows[firing[t]].recipe \in Asking
    /\ rows' = [rows EXCEPT ![firing[t]].asked = TRUE]
    /\ UNCHANGED <<up, publishers, bus, tasks, seen, aged, skipped, missed, faults>>

\* request_approval: the post and the parked row in one transaction
Park(t) ==
    /\ up /\ firing[t] # 0 /\ rows[firing[t]].status = "running"
    /\ rows[firing[t]].recipe \in Asking
    /\ rows' = [rows EXCEPT ![firing[t]].asked = TRUE, ![firing[t]].status = "awaiting_approval"]
    /\ UNCHANGED <<up, publishers, bus, tasks, seen, aged, skipped, missed, faults>>

\* variant: finalize_run_row writes the outcome of every action
UnparkOver(t) ==
    /\ up /\ firing[t] # 0
    /\ rows[firing[t]].asked
    /\ rows' = [rows EXCEPT ![firing[t]].status = "awaiting_approval"]
    /\ firing' = [firing EXCEPT ![t] = 0]
    /\ Done(t, left[t] \ {rows[firing[t]].recipe})
    /\ UNCHANGED <<up, publishers, bus, listening, watermark, locks, seen, aged, skipped, missed,
                   faults>>

\* finalize_run_row leaves a parked row as it is, which may have been decided by now
Unpark(t) ==
    /\ up /\ firing[t] # 0
    /\ rows[firing[t]].asked
    /\ firing' = [firing EXCEPT ![t] = 0]
    /\ Done(t, left[t] \ {rows[firing[t]].recipe})
    /\ UNCHANGED <<up, publishers, bus, listening, watermark, locks, seen, audit, skipped, missed,
                   faults>>

-----------------------------------------------------------------------------
(* Approvals, time, and the end of the desktop *)

\* posts_decide of the window, `ato posts approve`: the unique index admits one decision
Decide(i, verdict) ==
    /\ rows[i].asked /\ rows[i].verdict = "none"
    /\ rows' = [rows EXCEPT ![i].verdict = verdict]
    /\ UNCHANGED <<up, publishers, bus, tasks, seen, aged, skipped, missed, faults>>

\* run_approval_resume_tick, of one parked row
Resume(i) ==
    /\ up
    /\ rows[i].status = "awaiting_approval" /\ rows[i].verdict # "none"
    /\ rows' = [rows EXCEPT ![i].status = rows[i].verdict]
    /\ UNCHANGED <<up, publishers, bus, tasks, seen, aged, skipped, missed, faults>>

\* sixty seconds have gone by since the oldest row of the window
Age ==
    /\ aged < Len(rows)
    /\ aged' = aged + 1
    /\ UNCHANGED <<up, publishers, bus, tasks, seen, rows, skipped, missed, faults>>

\* The desktop dies, with what its threads and tasks had in hand.
Crash ==
    /\ up /\ faults < MaxFaults
    /\ faults' = faults + 1
    /\ up' = FALSE
    /\ stage' = [e \in Events |-> IF e \in DesktopEvents /\ stage[e] \in {"reserved", "persisted"}
                                  THEN "lost" ELSE stage[e]]
    /\ bus' = <<>>
    /\ listening' = {} /\ watermark' = -1
    /\ heard' = [t \in Tasks |-> <<>>]
    /\ left' = [t \in Tasks |-> {}]
    /\ firing' = [t \in Tasks |-> 0]
    /\ holds' = [t \in Tasks |-> {}] /\ room' = [t \in Tasks |-> FALSE]
    /\ seen' = [r \in Recipes |-> {}]
    /\ UNCHANGED <<counter, number, tries, ledger, audit, skipped, missed>>

\* init_seq_from_db
Boot ==
    /\ ~up
    /\ up' = TRUE
    /\ counter' = MaxSeq + 1
    /\ UNCHANGED <<stage, number, tries, ledger, bus, tasks, seen, audit, skipped, missed, faults>>

Engine(t) ==
    \/ TurnAway(t) \/ Finish(t) \/ Park(t) \/ Unpark(t)
    \/ \E r \in Recipes : Skip(t, r) \/ Enter(t, r) \/ Fire(t, r)

Next ==
    \/ \E e \in Events : Reserve(e) \/ Persist(e) \/ Send(e) \/ ReadMax(e) \/ Insert(e) \/ Rewrite(e)
    \/ Subscribe \/ Bootstrap \/ Receive \/ Poll
    \/ \E t \in Tasks : Engine(t) \/ Miss(t)
    \/ \E i \in DOMAIN rows : Resume(i) \/ \E verdict \in {"approved", "denied"} : Decide(i, verdict)
    \/ Age \/ Crash \/ Boot

Spec == Init /\ [][Next]_vars

\* The engine's loops go round and an action comes to an end.  Publishers, people and
\* the opening of the desktop owe nothing, but a desktop that is down is opened.
FairSpec ==
    /\ Spec
    /\ WF_vars(Boot) /\ WF_vars(Subscribe) /\ WF_vars(Bootstrap)
    /\ WF_vars(Receive) /\ WF_vars(Poll)
    /\ \A t \in Tasks : WF_vars(Engine(t))
    /\ \A i \in 1..2 * Cardinality(Events) * Cardinality(Recipes) :
         WF_vars(i \in DOMAIN rows /\ Resume(i))

-----------------------------------------------------------------------------
(* What a recipe may count on *)

Handled(r, e) == \E i \in DOMAIN rows : rows[i].recipe = r /\ rows[i].event = e

RowType == [recipe : Recipes, event : Events, asked : BOOLEAN,
            status : {"running", "done", "turning", "rate_limited", "awaiting_approval",
                      "approved", "denied"},
            verdict : {"none", "approved", "denied"}]

\* The variables keep their types, and a task is at the row of its own event, which is
\* running, to be turned away, or was parked.
TypeOK ==
    /\ up \in BOOLEAN /\ counter \in Nat \ {0}
    /\ stage \in [Events -> {"new", "reserved", "persisted", "numbered", "inserted", "sent", "lost"}]
    /\ number \in [Events -> Nat] /\ tries \in [Events -> 0..3]
    /\ \A s \in DOMAIN ledger : number[ledger[s].event] = s /\ ledger[s].says \in {0, s}
    /\ Len(bus) <= Capacity
    /\ watermark >= -1 /\ listening \subseteq Tasks
    /\ \A t \in Tasks : left[t] \subseteq Recipes
    /\ \A t \in Tasks : firing[t] # 0 => /\ rows[firing[t]].event = Current(t)
                                         /\ \/ rows[firing[t]].asked
                                            \/ rows[firing[t]].status \in {"running", "turning"}
    /\ \A r \in Recipes : Cardinality(seen[r]) <= SeenCap
    /\ holds \in [Tasks -> SUBSET Recipes] /\ room \in [Tasks -> BOOLEAN]
    /\ rows \in Seq(RowType) /\ aged \in 0..Len(rows)
    /\ faults \in 0..MaxFaults

\* The bus and the poll both bring an event of the desktop, in either order and at
\* once, and a poll may read a row before its payload is complete: no recipe has two
\* rows of one event, not after a restart of the desktop either.
FiredOnce ==
    \A i, j \in DOMAIN rows :
        rows[i].recipe = rows[j].recipe /\ rows[i].event = rows[j].event => i = j

\* An event is taken for a duplicate because the recipe has had it, however late it
\* comes: or because it shares its number with another, or has none yet.
SkippedWasHandled ==
    \A k \in skipped :
        Handled(k[1], k[2]) \/ k[3] = 0 \/ \E f \in Events \ {k[2]} : number[f] = k[3]

\* As events_publisher.rs has it, the event of a command line runs the matching recipes:
\* it is not taken for a duplicate of something else.
CliEventRuns == \A k \in skipped : k[2] \in CliEvents => Handled(k[1], k[2])

\* what was executed in the window: all that counts but what is yet to be turned away
Executed(r) == {i \in Counted(r) : rows[i].status # "turning"}

\* At no time has a recipe more executions in the last sixty seconds than its limit:
\* between the count and the insert that answers it no other task comes to the recipe.
RateLimitHolds == \A r \in Recipes : Cardinality(Executed(r)) <= RateLimit

\* What a human decided is not decided again, nor overwritten by the task that parked
\* the row and comes back to it late.
DecidedIsFinal ==
    [][\A i \in DOMAIN rows :
         /\ rows[i].verdict # "none" => rows'[i].verdict = rows[i].verdict
         /\ rows[i].status \in {"approved", "denied"} => rows'[i] = rows[i]]_vars

\* A decision reaches its row, whatever became of the desktop that parked it.
DecisionsResume ==
    \A i \in 1..Cardinality(Events) * Cardinality(Recipes) :
        (i \in DOMAIN rows /\ rows[i].verdict # "none")
            ~> (i \in DOMAIN rows /\ rows[i].status = rows[i].verdict)

\* What stands in the table above the watermark and parses comes to every recipe, page by
\* page, unless the desktop dies or the lookup of its recipes fails.
LedgerIsHandled ==
    \A r \in Recipes, e \in Events \ Unreadable :
        (/\ "poll" \in listening
         /\ \E s \in DOMAIN ledger : s > watermark /\ ledger[s].event = e)
            ~> (Handled(r, e) \/ (\E k \in skipped : k[1] = r /\ k[2] = e)
                  \/ e \in missed \/ ~up)

-----------------------------------------------------------------------------
(* What the code does not keep; README, section 5 *)

\* As events_publisher.rs has it of ratchet_breach, recipes can react to every event that
\* a command line publishes: refuted for the types that the engine cannot parse.
EveryEventIsHandled ==
    \A r \in Recipes, e \in Events :
        (/\ "poll" \in listening
         /\ \E s \in DOMAIN ledger : s > watermark /\ ledger[s].event = e)
            ~> (Handled(r, e) \/ (\E k \in skipped : k[1] = r /\ k[2] = e)
                  \/ e \in missed \/ ~up)

\* As handle_event has it, what was turned away does not count toward the next window's
\* quota: refuted when the desktop dies between the insert and finalize_run_row.
TurnedAwayIsNotCounted ==
    \A r \in Recipes : \A i \in Counted(r) :
        rows[i].status = "turning" => \E t \in Tasks : firing[t] = i
=============================================================================
