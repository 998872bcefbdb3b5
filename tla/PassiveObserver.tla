--------------------------- MODULE PassiveObserver ---------------------------
(***************************************************************************)
(* The passive observer (packages/ato-passive-observer): a worker follows  *)
(* the session files other command lines write, pairs each prompt with its *)
(* answer and inserts the pair into execution_logs under (session, number).*)
(*                                                                         *)
(* Where it stands in a file is kept twice: byte_offset and last_seq in    *)
(* watcher_state survive the process, the prompt that waits for its answer *)
(* and, for Codex, the session's id live in the process's memory only.     *)
(*                                                                         *)
(* A file is one session of one format: "claude" and "codex" append lines, *)
(* "array" is Gemini's logs.json, one document that is read as a whole.    *)
(* (Gemini's line format has Claude's control.)  A line is the unit of an  *)
(* offset, since only complete lines are consumed; a torn line is half     *)
(* written.  The statements of one line, and loading with the read it is   *)
(* for, are one step each.  A Codex token_count line is left out: it only   *)
(* fills tokens that are NULL, and emit_row never leaves them NULL.        *)
(***************************************************************************)
EXTENDS Naturals, Sequences, FiniteSets, FiniteSetsExt, Functions

CONSTANTS
    Observers,    \* processes with a worker: the desktop, `ato observe`
    Files,        \* session files
    Formats,      \* formats the files may have
    MaxLines,     \* bound: lines written to a file
    MaxRead,      \* MAX_READ_BYTES_PER_SCAN, in lines
    MaxRewinds,   \* bound: times the files are cut short or removed
    MaxCrashes    \* bound: times an observer dies

ASSUME ObserverAssumption ==
    /\ Observers # {} /\ Files # {}
    /\ Formats \subseteq {"claude", "codex", "array"} /\ Formats # {}
    /\ MaxLines \in Nat /\ MaxRead \in Nat \ {0}
    /\ MaxRewinds \in Nat /\ MaxCrashes \in Nat

VARIABLES
    format,   \* each file's format
    content,  \* each file's complete lines; no line, no file
    torn,     \* is the file's next line half written?
    written,  \* number of lines ever written to the file
    turns,    \* every prompt of the file with the answer it was given
    cut,      \* number of lines cut away
    unseen,   \* the file was cut and nothing has scanned it since
    watcher,  \* watcher_state: offset and last number, zeros where there is no row
    rows,     \* execution_logs: number within the session -> pair
    live,     \* sessions with a 'passive:' row in live_runs
    obs,      \* the observers
    faults    \* how often a file was rewound and an observer died

file == <<format, content, torn, written, turns, cut, unseen>>
store == <<watcher, rows, live>>
vars == <<file, store, obs, faults>>

\* What is left in memory of a session: whether its id is known, and the prompt
\* that waits for its answer (0: none).
NoPair == [known |-> FALSE, prompt |-> 0]

\* A scan holds the lines it has read and not yet processed.
NoScan == [file |-> {}, lines |-> <<>>, offset |-> 0, seq |-> 0, fresh |-> FALSE]

Down == [up |-> FALSE, pending |-> {}, memory |-> [f \in Files |-> NoPair], scan |-> NoScan]

\* start_observer: the first sweep asks for every file there is
Started == [Down EXCEPT !.up = TRUE, !.pending = {f \in Files : content[f] # <<>>}]

Init ==
    /\ format \in [Files -> Formats]
    /\ content = [f \in Files |-> <<>>]
    /\ torn = [f \in Files |-> FALSE]
    /\ written = [f \in Files |-> 0]
    /\ turns = [f \in Files |-> {}]
    /\ cut = [f \in Files |-> 0]
    /\ unseen = [f \in Files |-> FALSE]
    /\ watcher = [f \in Files |-> [offset |-> 0, seq |-> 0]]
    /\ rows = [f \in Files |-> <<>>]
    /\ live = {}
    /\ obs = [o \in Observers |-> [Down EXCEPT !.up = TRUE]]
    /\ faults = [rewinds |-> 0, crashes |-> 0]

-----------------------------------------------------------------------------
(* The command lines that write the files *)

\* on_fs_event: every observer that is up hears of a change
Notify(f) ==
    obs' = [o \in Observers |-> IF obs[o].up
                                THEN [obs[o] EXCEPT !.pending = @ \cup {f}] ELSE obs[o]]

Spoken(f) == {i \in DOMAIN content[f] : content[f][i].kind \in {"prompt", "answer"}}

\* The prompt an answer appended now would answer: the message before it (0: none,
\* it continues another answer).
Asked(f) ==
    LET last == content[f][Max(Spoken(f))] IN IF last.kind = "prompt" THEN last.id ELSE 0

\* A Codex file begins with its meta line, the conversation itself with a prompt.
Writable(f) ==
    IF Spoken(f) # {} THEN {"prompt", "answer"}
    ELSE IF content[f] = <<>> /\ format[f] = "codex" THEN {"meta"}
    ELSE {"prompt"}

\* A turn takes seconds and a scan a quarter of one: the first line after a file was
\* cut comes when the cut has been scanned, or nobody was there to scan it.
MayWrite(f) == written[f] < MaxLines /\ (unseen[f] => \A o \in Observers : ~obs[o].up)

BeginLine(f) ==
    /\ MayWrite(f)
    /\ ~torn[f]
    /\ torn' = [torn EXCEPT ![f] = TRUE]
    /\ Notify(f)
    /\ UNCHANGED <<format, content, written, turns, cut, unseen, store, faults>>

FinishLine(f) ==
    /\ torn[f]
    /\ MayWrite(f)
    /\ torn' = [torn EXCEPT ![f] = FALSE]
    /\ written' = [written EXCEPT ![f] = @ + 1]
    /\ \E kind \in Writable(f) :
         /\ content' = [content EXCEPT ![f] = Append(@, [kind |-> kind, id |-> written'[f]])]
         /\ turns' = IF kind = "answer" /\ Asked(f) # 0
                     THEN [turns EXCEPT ![f] = @ \cup {<<Asked(f), written'[f]>>}]
                     ELSE turns
    /\ Notify(f)
    /\ UNCHANGED <<format, cut, unseen, store, faults>>

\* A conversation is rewound, its file rewritten without its last lines, or removed.
Rewind(f) ==
    /\ faults.rewinds < MaxRewinds
    /\ content[f] # <<>> /\ ~unseen[f]
    /\ \E kept \in 0..(Len(content[f]) - 1) :
         /\ content' = [content EXCEPT ![f] = SubSeq(@, 1, kept)]
         /\ cut' = [cut EXCEPT ![f] = @ + Len(content[f]) - kept]
    /\ torn' = [torn EXCEPT ![f] = FALSE]
    /\ unseen' = [unseen EXCEPT ![f] = TRUE]
    /\ faults' = [faults EXCEPT !.rewinds = @ + 1]
    /\ Notify(f)
    /\ UNCHANGED <<format, written, turns, store>>

-----------------------------------------------------------------------------
(* An observer's worker *)

Idle(o) == obs[o].up /\ obs[o].scan = NoScan

\* variant: a document's numbers go on from the last scan's
BatchOn(f) ==
    LET from == IF Len(content[f]) < watcher[f].offset THEN [offset |-> 0, seq |-> 0] ELSE watcher[f]
        to == Min({Len(content[f]), from.offset + MaxRead})
    IN  IF format[f] = "array"
        THEN [lines |-> content[f], offset |-> Len(content[f]), seq |-> watcher[f].seq]
        ELSE [lines |-> SubSeq(content[f], from.offset + 1, to), offset |-> to, seq |-> from.seq]

\* The lines a scan would read, from where, numbered from what: the whole document
\* of an array, and otherwise what follows the stored offset, unless the file
\* became shorter than that.
Batch(f) ==
    LET size == Len(content[f])
        from == IF size < watcher[f].offset THEN [offset |-> 0, seq |-> 0] ELSE watcher[f]
        to == Min({size, from.offset + MaxRead})
    IN  IF format[f] = "array" THEN [lines |-> content[f], offset |-> size, seq |-> 0]
        ELSE [lines |-> SubSeq(content[f], from.offset + 1, to), offset |-> to, seq |-> from.seq]

\* nothing to read: the size is the one on record, or the document does not parse yet
NothingNew(f) ==
    \/ Len(content[f]) = watcher[f].offset /\ ~torn[f]
    \/ format[f] = "array" /\ torn[f]

\* variant: a half-written line is consumed with the complete ones
LoadTorn(o, f) ==
    /\ Idle(o)
    /\ f \in obs[o].pending
    /\ content[f] # <<>>
    /\ \E fresh \in BOOLEAN :
         LET torns == IF torn[f] /\ format[f] # "array" THEN 1 ELSE 0
             scan == [file |-> {f}, lines |-> Batch(f).lines, seq |-> Batch(f).seq,
                      offset |-> Batch(f).offset + torns, fresh |-> fresh]
         IN  obs' = [obs EXCEPT ![o].pending = @ \ {f},
                                ![o].scan = IF NothingNew(f) THEN NoScan ELSE scan]
    /\ unseen' = [unseen EXCEPT ![f] = FALSE]
    /\ UNCHANGED <<format, content, torn, written, turns, cut, store, faults>>

\* The next file of the coalesced batch: scan_file up to its first line.
Load(o, f) ==
    /\ Idle(o)
    /\ f \in obs[o].pending
    /\ content[f] # <<>>
    /\ \E fresh \in BOOLEAN :
         LET scan == [file |-> {f}, lines |-> Batch(f).lines, seq |-> Batch(f).seq,
                      offset |-> Batch(f).offset, fresh |-> fresh]
         IN  obs' = [obs EXCEPT ![o].pending = @ \ {f},
                                ![o].scan = IF NothingNew(f) THEN NoScan ELSE scan]
    /\ unseen' = [unseen EXCEPT ![f] = FALSE]
    /\ UNCHANGED <<format, content, torn, written, turns, cut, store, faults>>

\* scan_file of a file that is gone drops its row
LoadGone(o, f) ==
    /\ Idle(o)
    /\ f \in obs[o].pending
    /\ content[f] = <<>>
    /\ obs' = [obs EXCEPT ![o].pending = @ \ {f}]
    /\ watcher' = [watcher EXCEPT ![f] = [offset |-> 0, seq |-> 0]]
    /\ unseen' = [unseen EXCEPT ![f] = FALSE]
    /\ UNCHANGED <<format, content, torn, written, turns, cut, rows, live, faults>>

\* gc_stale_state forgets the sessions of files that are gone
Collect(o) ==
    /\ Idle(o)
    /\ \E f \in Files : content[f] = <<>> /\ obs[o].memory[f] # NoPair
    /\ obs' = [obs EXCEPT ![o].memory = [f \in Files |-> IF content[f] = <<>> THEN NoPair ELSE @[f]]]
    /\ UNCHANGED <<file, store, faults>>

\* emit_row's INSERT OR IGNORE: a row of that session and number stays as it is
Inserted(f, seq, turn) ==
    [rows EXCEPT ![f] = [n \in DOMAIN @ \cup {seq} |-> IF n \in DOMAIN @ THEN @[n] ELSE turn]]

\* mark_passive_in_progress, while the file is fresh
Marked(f, fresh) == IF fresh THEN live \cup {f} ELSE live

\* variant: an answer nobody waits for is recorded too
AnswerUnasked(o, f, line) ==
    LET seq == obs[o].scan.seq + 1
    IN  /\ obs' = [obs EXCEPT ![o].scan.lines = Tail(@), ![o].scan.seq = seq,
                              ![o].memory[f].prompt = 0]
        /\ rows' = Inserted(f, seq, <<obs[o].memory[f].prompt, line.id>>)
        /\ live' = live \ {f}

\* process_line with an answer: the waiting prompt is taken and the pair gets the
\* next number; clear_passive_live_row.
Answer(o, f, line) ==
    LET prompt == obs[o].memory[f].prompt
        seq == obs[o].scan.seq + 1
    IN  IF prompt = 0
        THEN /\ obs' = [obs EXCEPT ![o].scan.lines = Tail(@)]
             /\ UNCHANGED <<rows, live>>
        ELSE /\ obs' = [obs EXCEPT ![o].scan.lines = Tail(@), ![o].scan.seq = seq,
                                   ![o].memory[f].prompt = 0]
             /\ rows' = Inserted(f, seq, <<prompt, line.id>>)
             /\ live' = live \ {f}

\* process_line with a prompt: it waits for its answer, and while the file is fresh
\* its session is shown as running.
Prompt(o, f, line) ==
    /\ obs' = [obs EXCEPT ![o].scan.lines = Tail(@), ![o].memory[f].prompt = line.id]
    /\ live' = Marked(f, obs[o].scan.fresh)
    /\ UNCHANGED rows

\* handle_session_meta: the session is known from here on
Meta(o, f) ==
    /\ obs' = [obs EXCEPT ![o].scan.lines = Tail(@), ![o].memory[f].known = TRUE]
    /\ UNCHANGED <<rows, live>>

\* a line the parsers make nothing of
Skip(o) ==
    /\ obs' = [obs EXCEPT ![o].scan.lines = Tail(@)]
    /\ UNCHANGED <<rows, live>>

\* One line of the scan.  A Codex message has no session until the meta line is seen.
Line(o) ==
    /\ obs[o].scan # NoScan
    /\ obs[o].scan.lines # <<>>
    /\ \E f \in obs[o].scan.file :
         LET line == Head(obs[o].scan.lines)
             known == format[f] # "codex" \/ obs[o].memory[f].known
         IN  CASE line.kind = "meta" -> Meta(o, f)
               [] line.kind = "prompt" /\ known -> Prompt(o, f, line)
               [] line.kind = "answer" /\ known -> Answer(o, f, line)
               [] OTHER -> Skip(o)
    /\ UNCHANGED <<file, watcher, faults>>

\* variant: the number is not saved
SaveOffsetOnly(o) ==
    /\ obs[o].scan # NoScan
    /\ obs[o].scan.lines = <<>>
    /\ \E f \in obs[o].scan.file : watcher' = [watcher EXCEPT ![f].offset = obs[o].scan.offset]
    /\ obs' = [obs EXCEPT ![o].scan = NoScan]
    /\ UNCHANGED <<file, rows, live, faults>>

\* save_state, the last statement of a scan
Save(o) ==
    /\ obs[o].scan # NoScan
    /\ obs[o].scan.lines = <<>>
    /\ \E f \in obs[o].scan.file :
         watcher' = [watcher EXCEPT ![f] = [offset |-> obs[o].scan.offset, seq |-> obs[o].scan.seq]]
    /\ obs' = [obs EXCEPT ![o].scan = NoScan]
    /\ UNCHANGED <<file, rows, live, faults>>

\* the process dies, at any of its steps
Crash(o) ==
    /\ obs[o].up
    /\ faults.crashes < MaxCrashes
    /\ obs' = [obs EXCEPT ![o] = Down]
    /\ faults' = [faults EXCEPT !.crashes = @ + 1]
    /\ UNCHANGED <<file, store>>

\* variant: no first sweep
StartUnswept(o) ==
    /\ ~obs[o].up
    /\ obs' = [obs EXCEPT ![o] = [Down EXCEPT !.up = TRUE]]
    /\ UNCHANGED <<file, store, faults>>

\* start_observer, with its sweep; `observe start` lets no second command line in
Start(o) ==
    /\ ~obs[o].up
    /\ obs' = [obs EXCEPT ![o] = Started]
    /\ UNCHANGED <<file, store, faults>>

Work(o) == (\E f \in Files : Load(o, f) \/ LoadGone(o, f)) \/ Line(o) \/ Save(o)

Next ==
    \/ \E f \in Files : BeginLine(f) \/ FinishLine(f) \/ Rewind(f)
    \/ \E o \in Observers : Work(o) \/ Collect(o) \/ Crash(o) \/ Start(o)

Spec == Init /\ [][Next]_vars

\* A worker that has a batch goes through it, and the desktop is opened again.
FairSpec == Spec /\ \A o \in Observers : WF_vars(Work(o)) /\ WF_vars(Start(o))

-----------------------------------------------------------------------------
(* What is recorded *)

TypeOK ==
    /\ format \in [Files -> Formats]
    /\ \A f \in Files :
         /\ content[f] \in Seq([kind : {"meta", "prompt", "answer"}, id : 1..MaxLines])
         /\ written[f] \in 0..MaxLines
         /\ turns[f] \subseteq (1..MaxLines) \X (1..MaxLines)
         /\ watcher[f] \in [offset : 0..MaxLines, seq : 0..MaxLines]
         /\ \A n \in DOMAIN rows[f] : n \in 1..MaxLines /\ rows[f][n] \in (1..MaxLines) \X (1..MaxLines)
    /\ torn \in [Files -> BOOLEAN] /\ unseen \in [Files -> BOOLEAN]
    /\ cut \in [Files -> Nat]
    /\ live \subseteq Files
    /\ \A o \in Observers :
         /\ obs[o].up \in BOOLEAN /\ obs[o].pending \subseteq Files
         /\ obs[o].memory \in [Files -> [known : BOOLEAN, prompt : 0..MaxLines]]
         /\ obs[o].scan.file \subseteq Files

Recorded(f) == {rows[f][n] : n \in DOMAIN rows[f]}

\* Every observer is up and has nothing to do, and the stored offsets reach the ends.
Quiet ==
    /\ \A o \in Observers : Idle(o) /\ obs[o].pending = {}
    /\ \A f \in Files : content[f] # <<>> => watcher[f].offset = Len(content[f])

\* A row is a prompt with the answer it was given, whatever happened to the file and
\* to the process between the two.
RowsAreTrue == \A f \in Files : Recorded(f) \subseteq turns[f]

Lost(f) == Cardinality(turns[f] \ Recorded(f))

\* What is missing when all is read is accounted for.  A cut costs as many pairs as it
\* took lines, whose numbers their successors get, and a whole document, which is read
\* again, loses none to a death.  A session that is not cut, and not Codex's, loses to a
\* death no more than the pair it interrupts.  (The two do not add up: when a session that
\* lost pairs is cut and read again, a death before that is saved can cost as many again.)
LossIsBounded ==
    Quiet => \A f \in Files :
        /\ format[f] = "array" \/ faults.crashes = 0 => Lost(f) <= cut[f]
        /\ format[f] # "codex" /\ faults.rewinds = 0 => Lost(f) <= faults.crashes

\* No pair is recorded twice, be it that deaths, or that cuts, are all that goes wrong:
\* reading a file again gives its pairs the numbers they have.  A document's pairs are
\* always numbered from its beginning.
RecordedOnce ==
    \A f \in Files : format[f] = "array" \/ faults.crashes = 0 \/ faults.rewinds = 0 =>
        Cardinality(Recorded(f)) = Cardinality(DOMAIN rows[f])

CaughtUp(f) ==
    \/ content[f] = <<>>
    \/ watcher[f].offset = Len(content[f])
    \/ format[f] = "array" /\ torn[f]

\* No more is left to read of the file than one scan reads.
WithinARead(f) ==
    \/ format[f] = "array"
    \/ Len(content[f]) <= MaxRead
    \/ watcher[f].offset \in (Len(content[f]) - MaxRead)..Len(content[f])

\* A file that is never more than one scan behind is read to its end again and again,
\* also what came while nobody watched; of a longer backlog one scan's worth is read.
CatchesUp ==
    \A f \in Files :
        /\ []WithinARead(f) => []<>CaughtUp(f)
        /\ []<>(CaughtUp(f) \/ watcher[f].offset >= MaxRead)

-----------------------------------------------------------------------------
(* What comments say, and the code does not do *)

\* As lib.rs says of the sweep, a session's history catches up: what a Codex session
\* loses to crashes is no more than the pairs they interrupt.
HistoryCatchesUp ==
    Quiet /\ faults.rewinds = 0 => \A f \in Files : Lost(f) <= faults.crashes

\* As lib.rs and worker.rs say, whatever is written is read in the end: the rest of a
\* read that was cut off is picked up.
RestIsRead == \A f \in Files : []<>CaughtUp(f)
=============================================================================
