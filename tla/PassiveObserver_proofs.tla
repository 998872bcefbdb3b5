------------------------ MODULE PassiveObserver_proofs ------------------------
(***************************************************************************)
(* Proofs about PassiveObserver, for any number of files, lines, rewinds    *)
(* and deaths: the types for any number of observers, and that one observer *)
(* records no pair that was not spoken and none twice, and misses no more   *)
(* than what was cut away or a death interrupted.                           *)
(***************************************************************************)
EXTENDS PassiveObserver, Extrema_proofs, SequenceTheorems, FiniteSetTheorems

Kinds == {"meta", "prompt", "answer"}
LineType == [kind : Kinds, id : 1..MaxLines]
Pairs == (1..MaxLines) \X (1..MaxLines)
Position == [offset : 0..MaxLines, seq : 0..MaxLines]
Memory == [known : BOOLEAN, prompt : 0..MaxLines]
ScanType == [file : SUBSET Files, lines : Seq(LineType), offset : 0..MaxLines,
             seq : 0..MaxLines, fresh : BOOLEAN]
Observer == [up : BOOLEAN, pending : SUBSET Files, memory : [Files -> Memory], scan : ScanType]
IsTable(r) == DOMAIN r \subseteq 1..MaxLines /\ r \in [DOMAIN r -> Pairs]

\* TypeOK with the types of everything it leaves open.
FileTypes ==
    /\ format \in [Files -> Formats]
    /\ content \in [Files -> Seq(LineType)]
    /\ torn \in [Files -> BOOLEAN] /\ unseen \in [Files -> BOOLEAN]
    /\ written \in [Files -> 0..MaxLines]
    /\ turns \in [Files -> SUBSET Pairs]
    /\ cut \in [Files -> Nat]
    /\ \A f \in Files : Len(content[f]) <= written[f]

StoreTypes ==
    /\ watcher \in [Files -> Position]
    /\ rows = [f \in Files |-> rows[f]] /\ \A f \in Files : IsTable(rows[f])
    /\ live \in SUBSET Files
    /\ \A f \in Files : watcher[f].seq <= watcher[f].offset

\* A scan is of one file, and its lines cannot take its number past its offset.
ScanFits(scan) ==
    /\ scan = NoScan \/ \E f \in Files : scan.file = {f}
    /\ scan.seq + Len(scan.lines) <= scan.offset

ObserverTypes ==
    /\ obs \in [Observers -> Observer]
    /\ \A o \in Observers : ScanFits(obs[o].scan)

FaultTypes == faults \in [rewinds : 0..MaxRewinds, crashes : 0..MaxCrashes]

Types == FileTypes /\ StoreTypes /\ ObserverTypes /\ FaultTypes

-----------------------------------------------------------------------------
(* What one observer knows *)

\* nothing is said in the lines from i to j
Silent(c, i, j) == \A k \in i..j : c[k].kind = "meta"

\* no answer without a prompt before it
PromptFirst(c) ==
    \A j \in 1..Len(c) : c[j].kind = "answer" => \E i \in 1..(j - 1) : c[i].kind = "prompt"

\* a prompt and the answer next to it are a turn
Paired(c, t) ==
    \A i, j \in 1..Len(c) :
        i < j /\ c[i].kind = "prompt" /\ c[j].kind = "answer" /\ Silent(c, i + 1, j - 1)
            => <<c[i].id, c[j].id>> \in t

\* so are q and the answer that comes first
Fits(q, c, t) ==
    \A j \in 1..Len(c) :
        c[j].kind = "answer" /\ Silent(c, 1, j - 1) => <<q, c[j].id>> \in t

\* what was said last in the first n lines, if anything, is the prompt q
Follows(q, c, n) ==
    \A i \in 1..n : c[i].kind # "meta" /\ Silent(c, i + 1, n) => c[i].kind = "prompt" /\ c[i].id = q

Conversation == \A f \in Files : PromptFirst(content[f]) /\ Paired(content[f], turns[f])

\* What is in memory is there while the process runs, and of a Codex session that is
\* known.
Remembered ==
    \A o \in Observers :
        /\ ~obs[o].up => obs[o].scan = NoScan
        /\ \A f \in Files : obs[o].memory[f].prompt # 0 =>
             obs[o].up /\ (format[f] = "codex" => obs[o].memory[f].known)

\* The lines of a scan are the file's, up to the offset it will save, unless the file
\* was cut below it; its first answer is to the prompt that waits.
Scanned(o, f) ==
    LET scan == obs[o].scan
        q == obs[o].memory[f].prompt
        at == scan.offset - Len(scan.lines)
    IN  /\ Paired(scan.lines, turns[f])
        /\ q # 0 => Fits(q, scan.lines, turns[f])
        /\ IF Len(content[f]) < scan.offset THEN unseen[f]
           ELSE /\ \A i \in 1..Len(scan.lines) : scan.lines[i] = content[f][at + i]
                /\ q # 0 => Follows(q, content[f], at)

\* Between two scans the waiting prompt is the last thing said before the stored
\* offset; a document is read from its beginning, and so is a file that was cut.
Waiting(o, f) ==
    LET q == obs[o].memory[f].prompt
    IN  q # 0 => \/ format[f] = "array"
                 \/ Len(content[f]) < watcher[f].offset /\ unseen[f]
                 \/ Len(content[f]) >= watcher[f].offset /\ Follows(q, content[f], watcher[f].offset)

Followed ==
    \A o \in Observers, f \in Files :
        IF f \in obs[o].scan.file THEN Scanned(o, f) ELSE Waiting(o, f)

-----------------------------------------------------------------------------
(* The worker's data *)

LEMMA DownType ==
  ASSUME FileTypes
  PROVE  Down \in Observer /\ Started \in Observer
         /\ Down.scan = NoScan /\ Started.scan = NoScan /\ ScanFits(NoScan) /\ NoScan \in ScanType
  <1>1. NoPair \in Memory
    BY ObserverAssumption DEF NoPair, Memory
  <1>2. NoScan \in ScanType /\ ScanFits(NoScan)
    BY ObserverAssumption DEF NoScan, ScanType, ScanFits
  <1>3. [f \in Files |-> NoPair] \in [Files -> Memory]
    BY <1>1
  <1>4. Down \in Observer /\ Down.scan = NoScan
    BY <1>2, <1>3 DEF Down, Observer
  <1>5. Started \in Observer /\ Started.scan = NoScan
    BY <1>2, <1>3 DEF Started, Down, Observer
  <1> QED BY <1>2, <1>4, <1>5

\* the lines after the first n, up to the offset that will be saved
ReadsFrom(f, n) ==
    /\ Batch(f).offset \in n..Len(content[f])
    /\ Batch(f).lines \in Seq(LineType)
    /\ Len(Batch(f).lines) = Batch(f).offset - n
    /\ \A i \in 1..Len(Batch(f).lines) : Batch(f).lines[i] = content[f][n + i]
    /\ Batch(f).seq <= n /\ Batch(f).seq \in 0..MaxLines
    /\ IF format[f] = "array" \/ Len(content[f]) < watcher[f].offset THEN n = 0
       ELSE n = watcher[f].offset /\ Batch(f).seq = watcher[f].seq

\* A batch is a part of the file, read from its beginning or from the stored offset,
\* and its numbers cannot run ahead of its lines.
LEMMA BatchType ==
  ASSUME FileTypes, StoreTypes, NEW f \in Files
  PROVE  \E n \in 0..Len(content[f]) : ReadsFrom(f, n)
  <1> DEFINE size == Len(content[f])
             from == IF size < watcher[f].offset THEN [offset |-> 0, seq |-> 0] ELSE watcher[f]
             to == Min({size, from.offset + MaxRead})
  <1>1. content[f] \in Seq(LineType) /\ size \in Nat /\ size <= MaxLines
        /\ MaxLines \in Nat /\ MaxRead \in Nat \ {0}
    BY ObserverAssumption DEF FileTypes
  <1>2. watcher[f] \in Position /\ watcher[f].seq <= watcher[f].offset
    BY DEF StoreTypes
  <1>3. from \in Position /\ from.offset <= size /\ from.seq <= from.offset
    BY <1>1, <1>2 DEF Position
  <1>4. to \in from.offset..size
    <2>1. Min({size, from.offset + MaxRead}) \in {size, from.offset + MaxRead}
          /\ \A y \in {size, from.offset + MaxRead} : Min({size, from.offset + MaxRead}) <= y
      <3> HIDE DEF from, size
      <3>1. size \in Nat /\ from.offset \in Nat
        BY <1>1, <1>3 DEF Position
      <3>2. \E x \in {size, from.offset + MaxRead} : \A y \in {size, from.offset + MaxRead} : x <= y
        BY <1>1, <3>1
      <3> QED BY <3>2 DEF Min
    <2> QED BY <2>1, <1>1, <1>3 DEF Position
  <1> HIDE DEF from, to
  <1>5. CASE format[f] = "array"
    <2>1. Batch(f) = [lines |-> content[f], offset |-> size, seq |-> 0]
      BY <1>5 DEF Batch
    <2>2. ReadsFrom(f, 0)
      BY <1>1, <1>5, <2>1 DEF ReadsFrom
    <2> QED BY <1>1, <2>2
  <1>6. CASE format[f] # "array"
    <2>1. Batch(f) = [lines |-> SubSeq(content[f], from.offset + 1, to), offset |-> to, seq |-> from.seq]
      BY <1>6 DEF Batch, from, to
    <2>2. from.offset \in 0..size /\ to \in Nat /\ to <= size
      BY <1>1, <1>3, <1>4 DEF Position
    <2>3. /\ SubSeq(content[f], from.offset + 1, to) \in Seq(LineType)
          /\ Len(SubSeq(content[f], from.offset + 1, to)) = to - from.offset
          /\ \A i \in 1..(to - from.offset) :
               SubSeq(content[f], from.offset + 1, to)[i] = content[f][from.offset + i]
      <3>1. \A i \in from.offset + 1 .. to : content[f][i] \in LineType
        BY <1>1, <1>4, <2>2
      <3>2. /\ SubSeq(content[f], from.offset + 1, to) \in Seq(LineType)
            /\ Len(SubSeq(content[f], from.offset + 1, to)) =
                 IF from.offset + 1 <= to THEN to - (from.offset + 1) + 1 ELSE 0
            /\ \A i \in 1..(to - (from.offset + 1) + 1) :
                 SubSeq(content[f], from.offset + 1, to)[i] = content[f][from.offset + 1 + i - 1]
        <4>1. from.offset + 1 \in Int /\ to \in Int
          BY <2>2
        <4> QED BY <3>1, <4>1, SubSeqProperties
      <3>3. to >= from.offset
        BY <1>4, <2>2
      <3>4. Len(SubSeq(content[f], from.offset + 1, to)) = to - from.offset
        BY <2>2, <3>2, <3>3
      <3>5. ASSUME NEW i \in 1..(to - from.offset)
            PROVE  SubSeq(content[f], from.offset + 1, to)[i] = content[f][from.offset + i]
        <4>1. from.offset + 1 + i - 1 = from.offset + i /\ i \in 1..(to - (from.offset + 1) + 1)
          BY <2>2, <3>3
        <4> QED BY <3>2, <4>1
      <3> QED BY <3>2, <3>4, <3>5
    <2>4. IF size < watcher[f].offset THEN from.offset = 0
          ELSE from.offset = watcher[f].offset /\ from.seq = watcher[f].seq
      BY <1>1, <1>2 DEF from, Position
    <2>5. from.seq \in 0..MaxLines /\ from.seq <= from.offset
      BY <1>3 DEF Position
    <2>6. /\ Batch(f).lines = SubSeq(content[f], from.offset + 1, to)
          /\ Batch(f).offset = to /\ Batch(f).seq = from.seq
      <3> DEFINE l == SubSeq(content[f], from.offset + 1, to)
                 n == from.seq
      <3>1. Batch(f) = [lines |-> l, offset |-> to, seq |-> n]
        BY <2>1
      <3> HIDE DEF l, n
      <3>2. Batch(f).lines = l /\ Batch(f).offset = to /\ Batch(f).seq = n
        BY <3>1
      <3> QED BY <3>2 DEF l, n
    <2>7. ReadsFrom(f, from.offset)
      BY <1>4, <1>6, <2>3, <2>4, <2>5, <2>6 DEF ReadsFrom
    <2> QED BY <2>2, <2>7
  <1> QED BY <1>5, <1>6

\* One observer changes at a time.
LEMMA ObserverPut ==
  ASSUME ObserverTypes, NEW o \in Observers, NEW r \in Observer, ScanFits(r.scan),
         obs' = [obs EXCEPT ![o] = r]
  PROVE  ObserverTypes'
  BY DEF ObserverTypes, ScanFits, NoScan

\* or all of them hear of a file
LEMMA NotifyType ==
  ASSUME ObserverTypes, NEW f \in Files, Notify(f)
  PROVE  ObserverTypes' /\ \A o \in Observers : /\ obs'[o].scan = obs[o].scan
                                              /\ obs'[o].memory = obs[o].memory
                                              /\ obs'[o].up = obs[o].up
  <1>1. \A o \in Observers : obs[o] \in Observer /\ [obs[o] EXCEPT !.pending = @ \cup {f}] \in Observer
    BY DEF ObserverTypes, Observer
  <1>2. obs' \in [Observers -> Observer]
    BY <1>1 DEF Notify
  <1>3. \A o \in Observers : /\ obs'[o].scan = obs[o].scan /\ obs'[o].memory = obs[o].memory
                             /\ obs'[o].up = obs[o].up
    BY <1>1 DEF Notify, Observer
  <1> QED BY <1>2, <1>3 DEF ObserverTypes, ScanFits, NoScan

-----------------------------------------------------------------------------
(* Types *)

LEMMA TypesInit == Init => Types
  <1> SUFFICES ASSUME Init PROVE Types
    OBVIOUS
  <1>1. FileTypes
    BY ObserverAssumption DEF Init, FileTypes
  <1>2. StoreTypes
    BY ObserverAssumption DEF Init, StoreTypes, Position, IsTable
  <1>3. [Down EXCEPT !.up = TRUE] \in Observer /\ [Down EXCEPT !.up = TRUE].scan = NoScan
    BY <1>1, DownType DEF Observer
  <1>4. ObserverTypes
    BY <1>1, <1>3, DownType DEF Init, ObserverTypes
  <1> QED BY <1>1, <1>2, <1>4, ObserverAssumption DEF Init, Types, FaultTypes

LEMMA BeginLineTypes ==
  ASSUME Types, NEW f \in Files, BeginLine(f)
  PROVE  Types'
  <1>1. FileTypes' /\ StoreTypes' /\ FaultTypes'
    BY DEF Types, BeginLine, FileTypes, StoreTypes, FaultTypes, store, IsTable
  <1> QED BY <1>1, NotifyType DEF Types, BeginLine

LEMMA AskedType ==
  ASSUME FileTypes, NEW f \in Files, Spoken(f) # {}
  PROVE  \E m \in 1..Len(content[f]) :
           /\ content[f][m].kind # "meta"
           /\ \A i \in m + 1 .. Len(content[f]) : content[f][i].kind = "meta"
           /\ Asked(f) = IF content[f][m].kind = "prompt" THEN content[f][m].id ELSE 0
  <1>1. content[f] \in Seq(LineType) /\ Len(content[f]) \in Nat
        /\ DOMAIN content[f] = 1..Len(content[f])
    BY DEF FileTypes
  <1>2. \A i \in 1..Len(content[f]) : i \in Spoken(f) <=> content[f][i].kind # "meta"
    <2>1. ASSUME NEW i \in 1..Len(content[f])
          PROVE  content[f][i].kind \in {"meta", "prompt", "answer"}
      <3>1. content[f][i] \in LineType
        BY <1>1
      <3> QED BY <3>1 DEF LineType, Kinds
    <2> QED BY <1>1, <2>1 DEF Spoken
  <1>3. Spoken(f) \subseteq 1..Len(content[f]) /\ Spoken(f) \subseteq 0..Len(content[f])
    BY <1>1 DEF Spoken
  <1>4. \E m \in Spoken(f) : \A x \in Spoken(f) : x <= m
    BY <1>1, <1>3, MaxExists
  <1>5. Max(Spoken(f)) \in Spoken(f) /\ \A x \in Spoken(f) : x <= Max(Spoken(f))
    BY <1>4 DEF Max
  <1>6. \A i \in Max(Spoken(f)) + 1 .. Len(content[f]) : content[f][i].kind = "meta"
    BY <1>1, <1>2, <1>3, <1>5
  <1> QED BY <1>2, <1>3, <1>5, <1>6 DEF Asked

\* Of a new line, what there is to say of the file.
LEMMA FinishLineFile ==
  ASSUME FileTypes, NEW f \in Files, FinishLine(f)
  PROVE  \E line \in LineType :
           /\ line.id = written[f] + 1 /\ line.kind \in Writable(f)
           /\ content' = [content EXCEPT ![f] = Append(@, line)]
           /\ turns' = IF line.kind = "answer" /\ Asked(f) # 0
                       THEN [turns EXCEPT ![f] = @ \cup {<<Asked(f), line.id>>}] ELSE turns
  <1>1. written[f] \in Nat /\ written'[f] = written[f] + 1 /\ written[f] + 1 \in 1..MaxLines
    BY ObserverAssumption DEF FileTypes, FinishLine, MayWrite
  <1>2. Writable(f) \subseteq Kinds
    BY DEF Writable, Kinds
  <1>3. PICK kind \in Writable(f) :
          /\ content' = [content EXCEPT ![f] = Append(@, [kind |-> kind, id |-> written'[f]])]
          /\ turns' = IF kind = "answer" /\ Asked(f) # 0
                      THEN [turns EXCEPT ![f] = @ \cup {<<Asked(f), written'[f]>>}]
                      ELSE turns
    BY DEF FinishLine
  <1>4. [kind |-> kind, id |-> written'[f]] \in LineType
    BY <1>1, <1>2 DEF LineType
  <1> QED BY <1>1, <1>3, <1>4

LEMMA FinishLineTypes ==
  ASSUME Types, NEW f \in Files, FinishLine(f)
  PROVE  Types'
  <1>1. PICK line \in LineType :
           /\ line.id = written[f] + 1 /\ line.kind \in Writable(f)
           /\ content' = [content EXCEPT ![f] = Append(@, line)]
           /\ turns' = IF line.kind = "answer" /\ Asked(f) # 0
                       THEN [turns EXCEPT ![f] = @ \cup {<<Asked(f), line.id>>}] ELSE turns
    BY FinishLineFile DEF Types
  <1>2. content' \in [Files -> Seq(LineType)]
    BY <1>1 DEF Types, FileTypes
  <1>3. written' \in [Files -> 0..MaxLines]
        /\ \A g \in Files : Len(content[g])' <= written'[g]
    BY <1>1, ObserverAssumption DEF Types, FileTypes, FinishLine, MayWrite
  <1>4. turns' \in [Files -> SUBSET Pairs]
    <2>1. CASE line.kind = "answer" /\ Asked(f) # 0
      <3>1. Spoken(f) # {}
        BY <1>1, <2>1 DEF Writable
      <3>2. Asked(f) \in 1..MaxLines
        <4>1. PICK m \in 1..Len(content[f]) :
                 Asked(f) = IF content[f][m].kind = "prompt" THEN content[f][m].id ELSE 0
          BY <3>1, AskedType DEF Types
        <4>2. content[f] \in Seq(LineType)
          BY DEF Types, FileTypes
        <4>3. content[f][m] \in LineType
          BY <4>2
        <4> QED BY <2>1, <4>1, <4>3 DEF LineType
      <3>3. <<Asked(f), line.id>> \in Pairs
        BY <3>2 DEF Pairs, LineType
      <3> QED BY <1>1, <2>1, <3>3 DEF Types, FileTypes
    <2>2. CASE ~(line.kind = "answer" /\ Asked(f) # 0)
      BY <1>1, <2>2 DEF Types, FileTypes
    <2> QED BY <2>1, <2>2
  <1>5. FileTypes'
    BY <1>2, <1>3, <1>4 DEF Types, FileTypes, FinishLine
  <1>6. StoreTypes' /\ FaultTypes'
    BY DEF Types, FinishLine, StoreTypes, FaultTypes, store, IsTable
  <1> QED BY <1>5, <1>6, NotifyType DEF Types, FinishLine

LEMMA RewindTypes ==
  ASSUME Types, NEW f \in Files, Rewind(f)
  PROVE  Types'
  <1>1. PICK kept \in 0..(Len(content[f]) - 1) :
         /\ content' = [content EXCEPT ![f] = SubSeq(@, 1, kept)]
         /\ cut' = [cut EXCEPT ![f] = @ + Len(content[f]) - kept]
    BY DEF Rewind
  <1>2. content[f] \in Seq(LineType) /\ kept \in Nat /\ kept <= Len(content[f])
    BY DEF Types, FileTypes
  <1>3. SubSeq(content[f], 1, kept) \in Seq(LineType) /\ Len(SubSeq(content[f], 1, kept)) = kept
    BY <1>2, SubSeqProperties
  <1>4. content' \in [Files -> Seq(LineType)] /\ \A g \in Files : Len(content[g])' <= written[g]
    BY <1>1, <1>2, <1>3, ObserverAssumption DEF Types, FileTypes
  <1>5. cut[f] + Len(content[f]) - kept \in Nat
    BY <1>2 DEF Types, FileTypes
  <1>6. FileTypes'
    BY <1>1, <1>4, <1>5 DEF Types, FileTypes, Rewind
  <1>7. StoreTypes'
    BY DEF Types, Rewind, StoreTypes, store, IsTable
  <1>8. FaultTypes'
    BY ObserverAssumption DEF Types, Rewind, FaultTypes
  <1> QED BY <1>6, <1>7, <1>8, NotifyType DEF Types, Rewind

Loaded(o, f, scan) ==
    /\ ScanFits(scan)
    /\ obs' = [obs EXCEPT ![o] = [obs[o] EXCEPT !.pending = @ \ {f}, !.scan = scan]]
    /\ \/ NothingNew(f) /\ scan = NoScan
       \/ /\ scan.file = {f} /\ scan.lines = Batch(f).lines
          /\ scan.offset = Batch(f).offset /\ scan.seq = Batch(f).seq

\* Loading begins a scan of the file, or finds nothing new.
LEMMA LoadEffect ==
  ASSUME Types, NEW o \in Observers, NEW f \in Files, Load(o, f)
  PROVE  \E scan \in ScanType : Loaded(o, f, scan)
  <1>1. PICK fresh \in BOOLEAN :
         obs' = [obs EXCEPT ![o].pending = @ \ {f},
                            ![o].scan = IF NothingNew(f) THEN NoScan
                                        ELSE [file |-> {f}, lines |-> Batch(f).lines,
                                              seq |-> Batch(f).seq, offset |-> Batch(f).offset,
                                              fresh |-> fresh]]
    BY DEF Load
  <1>2. PICK n \in 0..Len(content[f]) : ReadsFrom(f, n)
    BY BatchType DEF Types
  <1> DEFINE new == [file |-> {f}, lines |-> Batch(f).lines, seq |-> Batch(f).seq,
                     offset |-> Batch(f).offset, fresh |-> fresh]
             scan == IF NothingNew(f) THEN NoScan ELSE new
  <1>3. new \in ScanType /\ ScanFits(new)
    <2>1. Len(content[f]) \in 0..MaxLines
      BY ObserverAssumption DEF Types, FileTypes
    <2>2. new \in ScanType
      BY <1>2, <2>1, ObserverAssumption DEF ReadsFrom, ScanType
    <2>3. new.seq + Len(new.lines) <= new.offset
      BY <1>2, <2>1, ObserverAssumption DEF ReadsFrom
    <2> QED BY <2>2, <2>3 DEF ScanFits
  <1>4. scan \in ScanType /\ ScanFits(scan)
    BY <1>3, DownType DEF Types
  <1>5. obs' = [obs EXCEPT ![o] = [obs[o] EXCEPT !.pending = @ \ {f}, !.scan = scan]]
    BY <1>1 DEF Types, ObserverTypes, Observer
  <1>6. \/ NothingNew(f) /\ scan = NoScan
        \/ /\ scan.file = {f} /\ scan.lines = Batch(f).lines
           /\ scan.offset = Batch(f).offset /\ scan.seq = Batch(f).seq
    <2>1. /\ new.file = {f} /\ new.lines = Batch(f).lines
          /\ new.offset = Batch(f).offset /\ new.seq = Batch(f).seq
      OBVIOUS
    <2>2. CASE NothingNew(f)
      BY <2>2
    <2>3. CASE ~NothingNew(f)
      <3>1. scan = new
        BY <2>3
      <3> HIDE DEF scan, new
      <3> QED BY <2>1, <3>1
    <2> QED BY <2>2, <2>3
  <1> HIDE DEF scan
  <1> QED BY <1>4, <1>5, <1>6 DEF Loaded

LEMMA LoadTypes ==
  ASSUME Types, NEW o \in Observers, NEW f \in Files, Load(o, f)
  PROVE  Types'
  <1>1. PICK scan \in ScanType : Loaded(o, f, scan)
    BY LoadEffect
  <1>2. [obs[o] EXCEPT !.pending = @ \ {f}, !.scan = scan] \in Observer
        /\ [obs[o] EXCEPT !.pending = @ \ {f}, !.scan = scan].scan = scan
    BY DEF Types, ObserverTypes, Observer
  <1>3. ObserverTypes'
    BY <1>1, <1>2, ObserverPut DEF Types, Loaded
  <1>4. FileTypes' /\ StoreTypes' /\ FaultTypes'
    BY DEF Types, Load, FileTypes, StoreTypes, FaultTypes, store, IsTable
  <1> QED BY <1>3, <1>4 DEF Types

LEMMA LoadGoneTypes ==
  ASSUME Types, NEW o \in Observers, NEW f \in Files, LoadGone(o, f)
  PROVE  Types'
  <1>1. [obs[o] EXCEPT !.pending = @ \ {f}] \in Observer
        /\ [obs[o] EXCEPT !.pending = @ \ {f}].scan = obs[o].scan
        /\ obs' = [obs EXCEPT ![o] = [obs[o] EXCEPT !.pending = @ \ {f}]]
    BY DEF Types, ObserverTypes, Observer, LoadGone
  <1>2. ObserverTypes'
    BY <1>1, ObserverPut DEF Types, ObserverTypes
  <1>3. [offset |-> 0, seq |-> 0] \in Position
    BY ObserverAssumption DEF Position
  <1>4. StoreTypes'
    BY <1>3 DEF Types, StoreTypes, LoadGone, IsTable
  <1>5. FileTypes' /\ FaultTypes'
    BY DEF Types, LoadGone, FileTypes, FaultTypes
  <1> QED BY <1>2, <1>4, <1>5 DEF Types

LEMMA CollectTypes ==
  ASSUME Types, NEW o \in Observers, Collect(o)
  PROVE  Types'
  <1> DEFINE r == [obs[o] EXCEPT !.memory = [f \in Files |-> IF content[f] = <<>> THEN NoPair ELSE @[f]]]
  <1>1. r \in Observer /\ r.scan = obs[o].scan /\ obs' = [obs EXCEPT ![o] = r]
    <2>1. NoPair \in Memory
      BY ObserverAssumption DEF NoPair, Memory
    <2> QED BY <2>1 DEF Types, ObserverTypes, Observer, Collect
  <1>2. ObserverTypes'
    BY <1>1, ObserverPut DEF Types, ObserverTypes
  <1> QED BY <1>2 DEF Types, Collect, FileTypes, StoreTypes, FaultTypes, file, store, IsTable

LEMMA SaveTypes ==
  ASSUME Types, NEW o \in Observers, Save(o)
  PROVE  Types'
  <1>1. [obs[o] EXCEPT !.scan = NoScan] \in Observer /\ ScanFits(NoScan)
        /\ [obs[o] EXCEPT !.scan = NoScan].scan = NoScan
        /\ obs' = [obs EXCEPT ![o] = [obs[o] EXCEPT !.scan = NoScan]]
    BY DownType DEF Types, ObserverTypes, Observer, Save
  <1>2. ObserverTypes'
    BY <1>1, ObserverPut DEF Types
  <1>3. PICK f \in obs[o].scan.file :
          watcher' = [watcher EXCEPT ![f] = [offset |-> obs[o].scan.offset, seq |-> obs[o].scan.seq]]
    BY DEF Save
  <1>4. obs[o].scan \in ScanType /\ obs[o].scan.seq <= obs[o].scan.offset
    <2>1. obs[o].scan \in ScanType /\ ScanFits(obs[o].scan) /\ obs[o].scan.lines = <<>>
      BY DEF Types, ObserverTypes, Observer, Save
    <2> QED BY <2>1 DEF ScanFits, ScanType
  <1>5. [offset |-> obs[o].scan.offset, seq |-> obs[o].scan.seq] \in Position
    BY <1>4 DEF ScanType, Position
  <1>6. StoreTypes'
    BY <1>3, <1>4, <1>5 DEF Types, StoreTypes, Save, IsTable
  <1> QED BY <1>2, <1>6 DEF Types, Save, FileTypes, FaultTypes, file

LEMMA CrashTypes ==
  ASSUME Types, NEW o \in Observers, Crash(o)
  PROVE  Types'
  <1>1. ObserverTypes'
    BY DownType, ObserverPut DEF Types, Crash
  <1>2. FaultTypes'
    BY ObserverAssumption DEF Types, Crash, FaultTypes
  <1> QED BY <1>1, <1>2 DEF Types, Crash, FileTypes, StoreTypes, file, store, IsTable

LEMMA StartTypes ==
  ASSUME Types, NEW o \in Observers, Start(o)
  PROVE  Types'
  <1>1. ObserverTypes'
    BY DownType, ObserverPut DEF Types, Start
  <1> QED BY <1>1 DEF Types, Start, FileTypes, StoreTypes, FaultTypes, file, store, IsTable

\* What a line does: the number n and the memory m of its session it leaves.
Heard(o, f, n, m) ==
    LET line == Head(obs[o].scan.lines)
        q == obs[o].memory[f].prompt
        known == format[f] # "codex" \/ obs[o].memory[f].known
    IN  /\ obs[o].scan # NoScan /\ obs[o].scan.lines # <<>> /\ obs[o].scan.file = {f}
        /\ obs' = [obs EXCEPT ![o] = [obs[o] EXCEPT 
               !.scan = [obs[o].scan EXCEPT !.lines = Tail(obs[o].scan.lines), !.seq = n],
               !.memory = [obs[o].memory EXCEPT ![f] = m]]]
        /\ \/ /\ line.kind = "meta" /\ n = obs[o].scan.seq /\ rows' = rows
              /\ m.known /\ m.prompt = q
           \/ /\ line.kind = "prompt" /\ known /\ n = obs[o].scan.seq /\ rows' = rows
              /\ m.known = obs[o].memory[f].known /\ m.prompt = line.id
           \/ /\ line.kind = "answer" /\ known /\ q # 0 /\ n = obs[o].scan.seq + 1
              /\ rows' = Inserted(f, n, <<q, line.id>>)
              /\ m.known = obs[o].memory[f].known /\ m.prompt = 0
           \/ /\ (~known /\ line.kind # "meta") \/ (q = 0 /\ line.kind = "answer")
              /\ n = obs[o].scan.seq /\ rows' = rows /\ m = obs[o].memory[f]

LEMMA LineEffect ==
  ASSUME Types, NEW o \in Observers, Line(o)
  PROVE  \E f \in Files, n \in 0..MaxLines, m \in Memory : Heard(o, f, n, m) /\ live' \subseteq Files
  <1>1. PICK f \in Files : obs[o].scan.file = {f}
    BY DEF Types, ObserverTypes, ScanFits, Line
  <1> DEFINE line == Head(obs[o].scan.lines)
             known == format[f] # "codex" \/ obs[o].memory[f].known
             mem == obs[o].memory
             after(n, m) == [obs EXCEPT ![o] = [obs[o] EXCEPT
                               !.scan = [obs[o].scan EXCEPT !.lines = Tail(obs[o].scan.lines), !.seq = n],
                               !.memory = [obs[o].memory EXCEPT ![f] = m]]]
  <1>2. /\ obs[o] \in Observer /\ obs[o].scan \in ScanType /\ mem \in [Files -> Memory]
        /\ mem[f] \in Memory /\ line \in LineType /\ obs \in [Observers -> Observer]
    BY DEF Types, ObserverTypes, Observer, ScanType, Line
  <1>3. obs[o].scan.seq \in 0..MaxLines /\ obs[o].scan.seq + 1 \in 0..MaxLines
    <2>1. ScanFits(obs[o].scan) /\ obs[o].scan.lines \in Seq(LineType) /\ obs[o].scan.lines # <<>>
      BY <1>2 DEF Types, ObserverTypes, ScanType, Line
    <2>2. Len(obs[o].scan.lines) \in Nat \ {0}
      BY <2>1
    <2> QED BY <1>2, <2>1, <2>2, ObserverAssumption DEF ScanFits, ScanType
  <1>4. live \subseteq Files
    BY DEF Types, StoreTypes
  <1>5. CASE line.kind = "meta"
    <2> DEFINE m == [mem[f] EXCEPT !.known = TRUE]
    <2>1. Meta(o, f)
      BY <1>1, <1>5 DEF Line
    <2>2. m \in Memory /\ m.known = TRUE /\ m.prompt = mem[f].prompt
      BY <1>2, ObserverAssumption DEF Memory, LineType
    <2>3. obs' = after(obs[o].scan.seq, m)
      BY <1>2, <2>1 DEF Meta, Observer, ScanType, Memory
    <2> HIDE DEF m
    <2>4. Heard(o, f, obs[o].scan.seq, m)
      BY <1>1, <1>5, <2>1, <2>2, <2>3 DEF Heard, Meta, Line
    <2> QED BY <1>3, <1>4, <2>1, <2>2, <2>4 DEF Meta, Marked
  <1>6. CASE line.kind = "prompt" /\ known
    <2> DEFINE m == [mem[f] EXCEPT !.prompt = line.id]
    <2>1. Prompt(o, f, line)
      BY <1>1, <1>6 DEF Line
    <2>2. m \in Memory /\ m.known = mem[f].known /\ m.prompt = line.id
      BY <1>2, ObserverAssumption DEF Memory, LineType
    <2>3. obs' = after(obs[o].scan.seq, m)
      BY <1>2, <2>1 DEF Prompt, Observer, ScanType, Memory
    <2> HIDE DEF m
    <2>4. Heard(o, f, obs[o].scan.seq, m)
      BY <1>1, <1>6, <2>1, <2>2, <2>3 DEF Heard, Prompt, Line
    <2> QED BY <1>3, <1>4, <2>1, <2>2, <2>4 DEF Prompt, Marked
  <1>7. CASE line.kind = "answer" /\ known /\ mem[f].prompt # 0
    <2> DEFINE m == [mem[f] EXCEPT !.prompt = 0]
    <2>1. Answer(o, f, line)
      BY <1>1, <1>7 DEF Line
    <2>2. m \in Memory /\ m.known = mem[f].known /\ m.prompt = 0
      BY <1>2, ObserverAssumption DEF Memory, LineType
    <2>3. obs' = after(obs[o].scan.seq + 1, m)
      BY <1>2, <1>7, <2>1 DEF Answer, Observer, ScanType, Memory
    <2> HIDE DEF m
    <2>4. Heard(o, f, obs[o].scan.seq + 1, m)
      BY <1>1, <1>7, <2>1, <2>2, <2>3 DEF Heard, Answer, Line
    <2> QED BY <1>3, <1>4, <1>7, <2>1, <2>2, <2>4 DEF Answer, Marked
  <1>8. CASE line.kind # "meta" /\ (~known \/ (line.kind = "answer" /\ mem[f].prompt = 0))
    <2>1. /\ obs' = [obs EXCEPT ![o].scan.lines = Tail(@)]
          /\ UNCHANGED <<rows, live>>
      BY <1>1, <1>8 DEF Line, Skip, Answer
    <2>2. obs' = after(obs[o].scan.seq, mem[f])
      BY <1>2, <2>1 DEF Observer, ScanType
    <2>3. /\ (~known /\ line.kind # "meta") \/ (mem[f].prompt = 0 /\ line.kind = "answer")
          /\ obs[o].scan # NoScan /\ obs[o].scan.lines # <<>>
      BY <1>8 DEF Line
    <2>4. Heard(o, f, obs[o].scan.seq, mem[f])
      BY <1>1, <2>1, <2>2, <2>3 DEF Heard
    <2> QED BY <1>2, <1>3, <1>4, <2>1, <2>4
  <1>9. line.kind \in {"meta", "prompt", "answer"}
    BY <1>2 DEF LineType, Kinds
  <1> HIDE DEF line, known, mem
  <1> QED BY <1>5, <1>6, <1>7, <1>8, <1>9

\* The insertion keeps a table, whose rows are the old ones and perhaps the new.
LEMMA InsertedType ==
  ASSUME StoreTypes, NEW f \in Files, NEW n \in 1..MaxLines, NEW pair \in Pairs,
         rows' = Inserted(f, n, pair)
  PROVE  /\ rows' = [g \in Files |-> rows'[g]] /\ \A g \in Files : IsTable(rows'[g])
         /\ \A g \in Files \ {f} : rows'[g] = rows[g]
         /\ \A k \in DOMAIN rows'[f] : (k \in DOMAIN rows[f] /\ rows'[f][k] = rows[f][k])
                                       \/ rows'[f][k] = pair
  <1> DEFINE table == [k \in DOMAIN rows[f] \cup {n} |-> IF k \in DOMAIN rows[f] THEN rows[f][k] ELSE pair]
  <1>1. rows' = [g \in Files |-> IF g = f THEN table ELSE rows[g]]
    <2>1. rows' = [rows EXCEPT ![f] = table]
      BY DEF Inserted
    <2> HIDE DEF table
    <2> QED BY <2>1 DEF StoreTypes
  <1>2. IsTable(table)
    BY DEF IsTable, StoreTypes
  <1>3. rows'[f] = table /\ \A g \in Files \ {f} : rows'[g] = rows[g]
    BY <1>1
  <1>4. \A g \in Files : IsTable(rows'[g])
    <2> HIDE DEF table
    <2> QED BY <1>2, <1>3 DEF StoreTypes
  <1>5. rows' = [g \in Files |-> rows'[g]]
    BY <1>1
  <1>6. \A k \in DOMAIN rows'[f] : (k \in DOMAIN rows[f] /\ rows'[f][k] = rows[f][k]) \/ rows'[f][k] = pair
    BY <1>3
  <1> QED BY <1>3, <1>4, <1>5, <1>6

LEMMA LineTypes ==
  ASSUME Types, NEW o \in Observers, Line(o)
  PROVE  Types'
  <1>1. PICK f \in Files, n \in 0..MaxLines, m \in Memory : Heard(o, f, n, m) /\ live' \subseteq Files
    BY LineEffect
  <1> DEFINE scan == obs[o].scan
             new == [scan EXCEPT !.lines = Tail(scan.lines), !.seq = n]
             r == [obs[o] EXCEPT !.scan = new, !.memory = [obs[o].memory EXCEPT ![f] = m]]
  <1>2. scan \in ScanType /\ ScanFits(scan) /\ obs[o] \in Observer
    BY DEF Types, ObserverTypes, Observer
  <1>3. /\ scan # NoScan /\ scan.lines # <<>> /\ scan.file = {f}
        /\ obs' = [obs EXCEPT ![o] = r] /\ n \in scan.seq .. scan.seq + 1
    <2>1. scan.seq \in Nat
      BY <1>2, ObserverAssumption DEF ScanType
    <2> QED BY <1>1, <2>1 DEF Heard
  <1>4. new \in ScanType /\ ScanFits(new)
    <2>1. Tail(scan.lines) \in Seq(LineType) /\ Len(Tail(scan.lines)) = Len(scan.lines) - 1
          /\ Len(scan.lines) \in Nat
      BY <1>2, <1>3 DEF ScanType
    <2>2. new \in ScanType
      BY <1>2, <2>1 DEF ScanType
    <2>3. new.file = {f} /\ new.lines = Tail(scan.lines) /\ new.seq = n /\ new.offset = scan.offset
      BY <1>2, <1>3 DEF ScanType
    <2>4. scan.seq + Len(scan.lines) <= scan.offset /\ scan.seq \in Nat /\ scan.offset \in Nat
      BY <1>2, ObserverAssumption DEF ScanFits, ScanType
    <2> HIDE DEF new
    <2>5. new.seq + Len(new.lines) <= new.offset
      BY <1>3, <2>1, <2>3, <2>4
    <2> QED BY <2>2, <2>3, <2>5 DEF ScanFits
  <1>5. r \in Observer /\ r.scan = new
    <2> HIDE DEF new
    <2> QED BY <1>2, <1>4 DEF Observer
  <1>6. ObserverTypes'
    <2> HIDE DEF r
    <2> QED BY <1>3, <1>4, <1>5, ObserverPut DEF Types
  <1>7. rows' = [g \in Files |-> rows'[g]] /\ \A g \in Files : IsTable(rows'[g])
    <2>1. CASE rows' = rows
      BY <2>1 DEF Types, StoreTypes
    <2>2. CASE rows' # rows
      <3>1. obs[o].memory[f].prompt # 0 /\ n = scan.seq + 1
            /\ rows' = Inserted(f, n, <<obs[o].memory[f].prompt, Head(scan.lines).id>>)
        BY <1>1, <2>2 DEF Heard
      <3>2. n \in 1..MaxLines
        BY <1>2, <3>1, ObserverAssumption DEF ScanType
      <3>3. obs[o].memory[f] \in Memory /\ Head(scan.lines) \in LineType
        BY <1>2, <1>3 DEF Observer, ScanType
      <3>4. <<obs[o].memory[f].prompt, Head(scan.lines).id>> \in Pairs
        BY <3>1, <3>3, ObserverAssumption DEF Memory, LineType, Pairs
      <3> QED BY <3>1, <3>2, <3>4, InsertedType DEF Types
    <2> QED BY <2>1, <2>2
  <1>8. StoreTypes'
    BY <1>1, <1>7 DEF Types, StoreTypes, Line
  <1> QED BY <1>6, <1>8 DEF Types, Line, FileTypes, FaultTypes, file

LEMMA TypesStep == Types /\ [Next]_vars => Types'
  <1> SUFFICES ASSUME Types, [Next]_vars PROVE Types'
    OBVIOUS
  <1>1. ASSUME NEW f \in Files, BeginLine(f) \/ FinishLine(f) \/ Rewind(f)
        PROVE  Types'
    BY <1>1, BeginLineTypes, FinishLineTypes, RewindTypes
  <1>2. ASSUME NEW o \in Observers, Work(o)
        PROVE  Types'
    BY <1>2, LoadTypes, LoadGoneTypes, LineTypes, SaveTypes DEF Work
  <1>3. ASSUME NEW o \in Observers, Collect(o) \/ Crash(o) \/ Start(o)
        PROVE  Types'
    BY <1>3, CollectTypes, CrashTypes, StartTypes
  <1>4. CASE UNCHANGED vars
    BY <1>4 DEF Types, FileTypes, StoreTypes, ObserverTypes, ScanFits, NoScan, FaultTypes, IsTable,
                vars, file, store
  <1> QED BY <1>1, <1>2, <1>3, <1>4 DEF Next

LEMMA TypesAlways == Spec => []Types
  BY TypesInit, TypesStep, PTL DEF Spec

LEMMA TypesTypeOK == Types => TypeOK
  <1> SUFFICES ASSUME Types PROVE TypeOK
    OBVIOUS
  <1>1. \A f \in Files :
         /\ content[f] \in Seq([kind : {"meta", "prompt", "answer"}, id : 1..MaxLines])
         /\ written[f] \in 0..MaxLines
         /\ turns[f] \subseteq (1..MaxLines) \X (1..MaxLines)
         /\ watcher[f] \in [offset : 0..MaxLines, seq : 0..MaxLines]
    BY DEF Types, FileTypes, StoreTypes, LineType, Kinds, Pairs, Position
  <1>2. \A f \in Files : \A n \in DOMAIN rows[f] :
          n \in 1..MaxLines /\ rows[f][n] \in (1..MaxLines) \X (1..MaxLines)
    BY DEF Types, StoreTypes, IsTable, Pairs
  <1>3. \A o \in Observers :
         /\ obs[o].up \in BOOLEAN /\ obs[o].pending \subseteq Files
         /\ obs[o].memory \in [Files -> [known : BOOLEAN, prompt : 0..MaxLines]]
         /\ obs[o].scan.file \subseteq Files
    BY DEF Types, ObserverTypes, Observer, Memory, ScanType
  <1> QED BY <1>1, <1>2, <1>3 DEF TypeOK, Types, FileTypes, StoreTypes

\* The variables keep their types, with any number of observers that share the files and
\* the offsets: no number runs past the lines it counts.
THEOREM TypeCorrect == Spec => []TypeOK
  BY TypesAlways, TypesTypeOK, PTL

-----------------------------------------------------------------------------
(* Prompts and answers in a sequence of lines *)

\* s is what c has after its first n lines, or the first of it
IsPart(s, c, n) == n + Len(s) <= Len(c) /\ \A i \in 1..Len(s) : s[i] = c[n + i]

\* What is read after a prompt that waits is what answers it.
LEMMA FollowsFits ==
  ASSUME NEW c \in Seq(LineType), NEW s \in Seq(LineType), NEW t, NEW q, NEW n \in Nat,
         IsPart(s, c, n), Paired(c, t), PromptFirst(c), Follows(q, c, n)
  PROVE  Fits(q, s, t)
  <1> SUFFICES ASSUME NEW j \in 1..Len(s), s[j].kind = "answer", Silent(s, 1, j - 1)
               PROVE  <<q, s[j].id>> \in t
    BY DEF Fits
  <1>1. n + j \in 1..Len(c) /\ c[n + j] = s[j]
    BY DEF IsPart
  <1>2. \A k \in n + 1 .. n + j - 1 : c[k].kind = "meta"
    <2> SUFFICES ASSUME NEW k \in n + 1 .. n + j - 1 PROVE c[k].kind = "meta"
      OBVIOUS
    <2>1. k - n \in 1..(j - 1) /\ n + (k - n) = k /\ k - n \in 1..Len(s)
      OBVIOUS
    <2>2. s[k - n].kind = "meta" /\ s[k - n] = c[n + (k - n)]
      BY <2>1 DEF Silent, IsPart
    <2> QED BY <2>1, <2>2
  <1>3. PICK p \in 1..(n + j - 1) : c[p].kind = "prompt"
    BY <1>1 DEF PromptFirst
  <1> DEFINE said == {i \in 1..n : c[i].kind # "meta"}
  <1>4. p \in said
    <2>1. p \notin n + 1 .. n + j - 1
      BY <1>2, <1>3
    <2> QED BY <1>3, <2>1
  <1>5. PICK m \in said : \A x \in said : x <= m
    <2>1. said \subseteq 0..n /\ said # {}
      BY <1>4
    <2> HIDE DEF said
    <2> QED BY <2>1, MaxExists
  <1>6. m \in 1..n /\ c[m].kind # "meta" /\ Silent(c, m + 1, n)
    BY <1>5 DEF Silent
  <1>7. c[m].kind = "prompt" /\ c[m].id = q
    BY <1>6 DEF Follows
  <1>8. Silent(c, m + 1, n + j - 1)
    BY <1>2, <1>6 DEF Silent
  <1>9. m \in 1..Len(c) /\ m < n + j
    BY <1>1, <1>6
  <1> QED BY <1>1, <1>7, <1>8, <1>9 DEF Paired

\* What is paired in a file is paired in a part of it.
LEMMA PairedPart ==
  ASSUME NEW c \in Seq(LineType), NEW s \in Seq(LineType), NEW t, NEW n \in Nat,
         IsPart(s, c, n), Paired(c, t)
  PROVE  Paired(s, t)
  <1> SUFFICES ASSUME NEW i \in 1..Len(s), NEW j \in 1..Len(s), i < j, s[i].kind = "prompt",
                      s[j].kind = "answer", Silent(s, i + 1, j - 1)
               PROVE  <<s[i].id, s[j].id>> \in t
    BY DEF Paired
  <1>1. n + i \in 1..Len(c) /\ n + j \in 1..Len(c) /\ c[n + i] = s[i] /\ c[n + j] = s[j]
    BY DEF IsPart
  <1>2. Silent(c, n + i + 1, n + j - 1)
    <2> SUFFICES ASSUME NEW k \in n + i + 1 .. n + j - 1 PROVE c[k].kind = "meta"
      BY DEF Silent
    <2>1. k - n \in i + 1 .. j - 1 /\ n + (k - n) = k /\ k - n \in 1..Len(s)
      OBVIOUS
    <2>2. s[k - n].kind = "meta" /\ s[k - n] = c[n + (k - n)]
      BY <2>1 DEF Silent, IsPart
    <2> QED BY <2>1, <2>2
  <1> QED BY <1>1, <1>2 DEF Paired

\* One line on: the rest of what fitted fits, and a prompt fits what comes after it.
LEMMA TailFits ==
  ASSUME NEW s \in Seq(LineType), s # <<>>, NEW t, NEW q
  PROVE  /\ Paired(s, t) => Paired(Tail(s), t)
         /\ Paired(s, t) /\ Head(s).kind = "prompt" => Fits(Head(s).id, Tail(s), t)
         /\ Fits(q, s, t) /\ Head(s).kind = "meta" => Fits(q, Tail(s), t)
         /\ Fits(q, s, t) /\ Head(s).kind = "answer" => <<q, Head(s).id>> \in t
  <1>1. /\ Tail(s) \in Seq(LineType) /\ Len(s) \in Nat \ {0} /\ Len(Tail(s)) = Len(s) - 1
        /\ Head(s) = s[1] /\ \A i \in 1..Len(Tail(s)) : Tail(s)[i] = s[1 + i]
    OBVIOUS
  <1>2. IsPart(Tail(s), s, 1)
    BY <1>1 DEF IsPart
  <1>3. Paired(s, t) => Paired(Tail(s), t)
    BY <1>1, <1>2, PairedPart
  <1>4. ASSUME NEW j \in 1..Len(Tail(s)), Silent(Tail(s), 1, j - 1)
        PROVE  Silent(s, 2, j) /\ 1 + j \in 1..Len(s) /\ Tail(s)[j] = s[1 + j]
    <2>1. \A k \in 2..j : k - 1 \in 1..(j - 1) /\ k - 1 \in 1..Len(Tail(s)) /\ 1 + (k - 1) = k
      BY <1>1
    <2>2. ASSUME NEW k \in 2..j PROVE s[k].kind = "meta"
      <3>1. Tail(s)[k - 1].kind = "meta"
        BY <1>4, <2>1 DEF Silent
      <3>2. Tail(s)[k - 1] = s[1 + (k - 1)]
        BY <1>1, <2>1
      <3>3. 1 + (k - 1) = k
        BY <2>1
      <3> QED BY <3>1, <3>2, <3>3
    <2> QED BY <1>1, <2>2 DEF Silent
  <1>5. Paired(s, t) /\ Head(s).kind = "prompt" => Fits(Head(s).id, Tail(s), t)
    <2> SUFFICES ASSUME Paired(s, t), Head(s).kind = "prompt",
                        NEW j \in 1..Len(Tail(s)), Tail(s)[j].kind = "answer", Silent(Tail(s), 1, j - 1)
                 PROVE  <<Head(s).id, Tail(s)[j].id>> \in t
      BY DEF Fits
    <2>1. 1 \in 1..Len(s) /\ 1 < 1 + j /\ 1 + 1 = 2 /\ (1 + j) - 1 = j
      BY <1>1
    <2>2. Silent(s, 1 + 1, (1 + j) - 1) /\ 1 + j \in 1..Len(s) /\ s[1 + j] = Tail(s)[j]
      BY <1>4, <2>1
    <2>3. s[1].kind = "prompt" /\ s[1] = Head(s)
      BY <1>1
    <2>4. <<s[1].id, s[1 + j].id>> \in t
      BY <2>1, <2>2, <2>3 DEF Paired
    <2> QED BY <2>2, <2>3, <2>4
  <1>6. Fits(q, s, t) /\ Head(s).kind = "meta" => Fits(q, Tail(s), t)
    <2> SUFFICES ASSUME Fits(q, s, t), Head(s).kind = "meta",
                        NEW j \in 1..Len(Tail(s)), Tail(s)[j].kind = "answer", Silent(Tail(s), 1, j - 1)
                 PROVE  <<q, Tail(s)[j].id>> \in t
      BY DEF Fits
    <2>1. Silent(s, 1, (1 + j) - 1)
      <3>1. Silent(s, 2, j) /\ s[1].kind = "meta" /\ j \in Nat
        BY <1>1, <1>4
      <3>2. \A k \in 1..(1 + j) - 1 : k = 1 \/ k \in 2..j
        BY <3>1
      <3> QED BY <3>1, <3>2 DEF Silent
    <2> QED BY <1>4, <2>1 DEF Fits
  <1>7. Fits(q, s, t) /\ Head(s).kind = "answer" => <<q, Head(s).id>> \in t
    BY <1>1 DEF Fits, Silent
  <1> QED BY <1>3, <1>5, <1>6, <1>7

\* and the line that was read follows
LEMMA FollowsOn ==
  ASSUME NEW c, NEW q, NEW n \in Nat
  PROVE  /\ Follows(q, c, n) /\ c[n + 1].kind = "meta" => Follows(q, c, n + 1)
         /\ c[n + 1].kind = "prompt" => Follows(c[n + 1].id, c, n + 1)
  <1>1. ASSUME NEW i \in 1..(n + 1), c[i].kind # "meta", Silent(c, i + 1, n + 1)
        PROVE  i = n + 1 \/ (i \in 1..n /\ Silent(c, i + 1, n) /\ c[n + 1].kind = "meta")
    <2>1. CASE i # n + 1
      <3>1. i \in 1..n /\ n + 1 \in i + 1 .. n + 1
        BY <2>1
      <3> QED BY <1>1, <3>1 DEF Silent
    <2> QED BY <2>1
  <1> QED BY <1>1 DEF Follows

\* A file that is cut keeps what is before the cut.
LEMMA PrefixKeeps ==
  ASSUME NEW c \in Seq(LineType), NEW k \in 0..Len(c), NEW t, NEW d, d = SubSeq(c, 1, k)
  PROVE  /\ d \in Seq(LineType) /\ Len(d) = k /\ \A i \in 1..k : d[i] = c[i]
         /\ PromptFirst(c) => PromptFirst(d)
         /\ Paired(c, t) => Paired(d, t)
         /\ \A q : \A n \in 0..k : Follows(q, c, n) => Follows(q, d, n)
  <1>1. d \in Seq(LineType) /\ Len(d) = k /\ \A i \in 1..k : d[i] = c[i]
    BY SubSeqProperties
  <1>2. PromptFirst(c) => PromptFirst(d)
    BY <1>1 DEF PromptFirst
  <1>3. IsPart(d, c, 0)
    BY <1>1 DEF IsPart
  <1>4. Paired(c, t) => Paired(d, t)
    BY <1>1, <1>3, PairedPart
  <1>5. ASSUME NEW q, NEW n \in 0..k, Follows(q, c, n)
        PROVE  Follows(q, d, n)
    <2>1. \A i \in 1..n : d[i] = c[i]
      BY <1>1
    <2>2. \A i \in 1..n : Silent(d, i + 1, n) => Silent(c, i + 1, n)
      BY <2>1 DEF Silent
    <2> QED BY <1>5, <2>1, <2>2 DEF Follows
  <1> QED BY <1>1, <1>2, <1>4, <1>5

\* A line at the end changes nothing before it.
LEMMA AppendFollows ==
  ASSUME NEW c \in Seq(LineType), NEW line \in LineType, NEW q, NEW n \in 0..Len(c), Follows(q, c, n)
  PROVE  Follows(q, Append(c, line), n)
  <1>1. \A i \in 1..n : Append(c, line)[i] = c[i]
    OBVIOUS
  <1>2. \A i \in 1..n : Silent(Append(c, line), i + 1, n) => Silent(c, i + 1, n)
    BY <1>1 DEF Silent
  <1> QED BY <1>1, <1>2 DEF Follows

LEMMA AppendConversation ==
  ASSUME Types, Conversation, NEW f \in Files, FinishLine(f)
  PROVE  Conversation'
  <1>1. PICK line \in LineType :
           /\ line.id = written[f] + 1 /\ line.kind \in Writable(f)
           /\ content' = [content EXCEPT ![f] = Append(@, line)]
           /\ turns' = IF line.kind = "answer" /\ Asked(f) # 0
                       THEN [turns EXCEPT ![f] = @ \cup {<<Asked(f), line.id>>}] ELSE turns
    BY FinishLineFile DEF Types
  <1> DEFINE c == content[f]
             d == content'[f]
             end == Len(c) + 1
  <1>2. /\ c \in Seq(LineType) /\ d \in Seq(LineType) /\ Len(c) \in Nat /\ Len(d) = end
        /\ d[end] = line /\ \A i \in 1..Len(c) : d[i] = c[i]
        /\ \A g \in Files \ {f} : content'[g] = content[g]
    BY <1>1 DEF Types, FileTypes
  <1>3. \A g \in Files : turns[g] \subseteq turns'[g]
    BY <1>1 DEF Types, FileTypes
  <1>4. ASSUME line.kind = "answer"
        PROVE  \E m \in 1..Len(c) :
                 /\ c[m].kind # "meta" /\ \A i \in m + 1 .. Len(c) : c[i].kind = "meta"
                 /\ c[m].kind = "prompt" => <<c[m].id, line.id>> \in turns'[f]
    <2>1. Spoken(f) # {}
      BY <1>1, <1>4 DEF Writable
    <2>2. PICK m \in 1..Len(c) :
           /\ c[m].kind # "meta" /\ \A i \in m + 1 .. Len(c) : c[i].kind = "meta"
           /\ Asked(f) = IF c[m].kind = "prompt" THEN c[m].id ELSE 0
      BY <2>1, AskedType DEF Types
    <2>3. c[m] \in LineType
      BY <1>2
    <2>4. c[m].id # 0
      BY <2>3, ObserverAssumption DEF LineType
    <2>5. c[m].kind = "prompt" => <<c[m].id, line.id>> \in turns'[f]
      BY <1>1, <1>4, <2>2, <2>4 DEF Types, FileTypes
    <2> QED BY <2>2, <2>5
  <1>5. PromptFirst(c) /\ Paired(c, turns[f])
    BY DEF Conversation
  <1>6. PromptFirst(d)
    <2> SUFFICES ASSUME NEW j \in 1..Len(d), d[j].kind = "answer"
                 PROVE  \E i \in 1..(j - 1) : d[i].kind = "prompt"
      BY DEF PromptFirst
    <2>1. CASE j \in 1..Len(c)
      <3>1. PICK i \in 1..(j - 1) : c[i].kind = "prompt"
        <4>1. d[j] = c[j]
          BY <1>2, <2>1
        <4> QED BY <1>5, <2>1, <4>1 DEF PromptFirst
      <3>2. i \in 1..Len(c)
        BY <1>2, <2>1
      <3>3. d[i] = c[i]
        BY <1>2, <3>2
      <3> QED BY <3>1, <3>3
    <2>2. CASE j = end
      <3>1. PICK m \in 1..Len(c) : c[m].kind # "meta"
        BY <1>2, <1>4, <2>2
      <3>2. c[m] \in LineType
        BY <1>2
      <3>3. c[m].kind = "prompt" \/ c[m].kind = "answer"
        BY <3>1, <3>2 DEF LineType, Kinds
      <3>4. PICK i \in 1..Len(c) : c[i].kind = "prompt"
        BY <1>2, <1>5, <3>3 DEF PromptFirst
      <3>5. i \in 1..(j - 1) /\ d[i].kind = "prompt"
        <4>1. d[i] = c[i]
          BY <1>2
        <4> QED BY <1>2, <2>2, <3>4, <4>1
      <3> QED BY <3>5
    <2> QED BY <1>2, <2>1, <2>2
  <1>7. Paired(d, turns'[f])
    <2> SUFFICES ASSUME NEW i \in 1..Len(d), NEW j \in 1..Len(d), i < j, d[i].kind = "prompt",
                        d[j].kind = "answer", Silent(d, i + 1, j - 1)
                 PROVE  <<d[i].id, d[j].id>> \in turns'[f]
      BY DEF Paired
    <2>1. i \in 1..Len(c) /\ d[i] = c[i]
      BY <1>2
    <2>2. CASE j \in 1..Len(c)
      <3>1. d[j] = c[j] /\ Silent(c, i + 1, j - 1)
        <4>1. d[j] = c[j]
          BY <1>2, <2>2
        <4>2. \A k \in i + 1 .. j - 1 : k \in 1..Len(c)
          BY <1>2, <2>1, <2>2
        <4>3. \A k \in i + 1 .. j - 1 : d[k] = c[k]
          BY <1>2, <4>2
        <4> QED BY <4>1, <4>3 DEF Silent
      <3>2. <<c[i].id, c[j].id>> \in turns[f]
        BY <1>5, <2>1, <2>2, <3>1 DEF Paired
      <3> QED BY <1>3, <2>1, <3>1, <3>2
    <2>3. CASE j = end
      <3>1. d[j] = line
        BY <1>2, <2>3
      <3>2. PICK m \in 1..Len(c) :
                 /\ c[m].kind # "meta" /\ \A k \in m + 1 .. Len(c) : c[k].kind = "meta"
                 /\ c[m].kind = "prompt" => <<c[m].id, line.id>> \in turns'[f]
        BY <1>4, <3>1
      <3>3. ~(m > i)
        <4> SUFFICES ASSUME m > i PROVE FALSE
          OBVIOUS
        <4>1. m \in i + 1 .. j - 1 /\ d[m] = c[m]
          BY <1>2, <2>3
        <4> QED BY <3>2, <4>1 DEF Silent
      <3>4. ~(i > m)
        BY <2>1, <3>2
      <3>5. i = m
        BY <3>3, <3>4
      <3> QED BY <2>1, <3>1, <3>2, <3>5
    <2> QED BY <1>2, <2>2, <2>3
  <1>8. ASSUME NEW g \in Files, g # f
        PROVE  PromptFirst(content'[g]) /\ Paired(content'[g], turns'[g])
    BY <1>2, <1>3, <1>8 DEF Conversation, Paired
  <1> QED BY <1>6, <1>7, <1>8 DEF Conversation

-----------------------------------------------------------------------------
(* One observer *)

One == \A o, p \in Observers : o = p

Truth == RowsAreTrue /\ Conversation /\ Remembered /\ Followed

\* What is known of a session stays while its file and its observer's memory do.
LEMMA FollowedSame ==
  ASSUME NEW o \in Observers, NEW g \in Files,
         content'[g] = content[g], turns[g] \subseteq turns'[g], format' = format,
         unseen[g] => unseen'[g], watcher'[g] = watcher[g],
         obs'[o].scan = obs[o].scan, obs'[o].memory[g] = obs[o].memory[g]
  PROVE  (Scanned(o, g) => Scanned(o, g)') /\ (Waiting(o, g) => Waiting(o, g)')
  <1>1. \A c, q : (Paired(c, turns[g]) => Paired(c, turns'[g])) /\ (Fits(q, c, turns[g]) => Fits(q, c, turns'[g]))
    BY DEF Paired, Fits
  <1>2. Scanned(o, g) => Scanned(o, g)'
    BY <1>1 DEF Scanned
  <1>3. Waiting(o, g) => Waiting(o, g)'
    BY DEF Waiting
  <1> QED BY <1>2, <1>3

\* Where a scan that began m lines below its end is.
LEMMA Within ==
  ASSUME NEW a \in Nat, NEW l \in Nat, NEW m \in Nat, l <= a, a <= m
  PROVE  a - l \in 0..m /\ \A i \in 1..l : (a - l) + i \in 1..m
  OBVIOUS

LEMMA OneOn ==
  ASSUME NEW a \in Nat, NEW l \in Nat \ {0}, l <= a
  PROVE  /\ a - l \in Nat /\ 1 \in 1..l /\ a - (l - 1) = (a - l) + 1
         /\ \A i \in 1..(l - 1) : 1 + i \in 1..l /\ (a - l) + (1 + i) = ((a - l) + 1) + i
  OBVIOUS

LEMMA ScanNumbers ==
  ASSUME NEW scan \in ScanType, ScanFits(scan)
  PROVE  /\ scan.lines \in Seq(LineType) /\ Len(scan.lines) \in Nat
         /\ scan.offset \in Nat /\ Len(scan.lines) <= scan.offset
  <1>1. scan.lines \in Seq(LineType) /\ scan.offset \in Nat /\ scan.seq \in Nat
    BY ObserverAssumption DEF ScanType
  <1>2. scan.seq + Len(scan.lines) <= scan.offset /\ Len(scan.lines) \in Nat
    BY <1>1 DEF ScanFits
  <1> QED BY <1>1, <1>2

\* So do the numbers of a scan that begins after the first n lines.
LEMMA Span ==
  ASSUME NEW len \in Nat, NEW n \in 0..len, NEW offset \in n..len, NEW k, k = offset - n
  PROVE  offset - k = n /\ ~(len < offset) /\ n \in Nat /\ n + k <= len
  OBVIOUS

LEMMA TruthInit == Init => Truth
  <1> SUFFICES ASSUME Init PROVE Truth
    OBVIOUS
  <1>1. \A f \in Files : content[f] = <<>> /\ rows[f] = <<>>
    BY DEF Init
  <1>2. Conversation /\ RowsAreTrue
    <2>1. Len(<<>>) = 0 /\ DOMAIN <<>> = {}
      OBVIOUS
    <2> QED BY <1>1, <2>1 DEF Conversation, PromptFirst, Paired, RowsAreTrue, Recorded
  <1>3. \A o \in Observers : /\ obs[o].scan = NoScan /\ obs[o].up
                             /\ \A f \in Files : obs[o].memory[f] = NoPair
    BY DEF Init, Down
  <1>4. Remembered /\ Followed
    BY <1>3 DEF Remembered, Followed, NoPair, NoScan, Waiting
  <1> QED BY <1>2, <1>4 DEF Truth

LEMMA BeginLineTruth ==
  ASSUME Types, Truth, NEW f \in Files, BeginLine(f)
  PROVE  Truth'
  <1>1. \A o \in Observers : /\ obs'[o].scan = obs[o].scan /\ obs'[o].memory = obs[o].memory
                             /\ obs'[o].up = obs[o].up
    BY NotifyType DEF Types, BeginLine
  <1>2. \A o \in Observers, g \in Files :
          (Scanned(o, g) => Scanned(o, g)') /\ (Waiting(o, g) => Waiting(o, g)')
    BY <1>1, FollowedSame DEF BeginLine, store
  <1>3. Followed'
    BY <1>1, <1>2 DEF Truth, Followed
  <1>4. Remembered'
    BY <1>1 DEF Truth, Remembered, BeginLine, NoScan
  <1> QED BY <1>3, <1>4 DEF Truth, BeginLine, Conversation, RowsAreTrue, Recorded, store

\* The writer waits for the scan that sees the cut: a file that grows is not below the
\* offset of a scan that runs.
LEMMA FinishLineTruth ==
  ASSUME Types, Truth, NEW f \in Files, FinishLine(f)
  PROVE  Truth'
  <1>1. PICK line \in LineType :
           /\ line.id = written[f] + 1 /\ line.kind \in Writable(f)
           /\ content' = [content EXCEPT ![f] = Append(@, line)]
           /\ turns' = IF line.kind = "answer" /\ Asked(f) # 0
                       THEN [turns EXCEPT ![f] = @ \cup {<<Asked(f), line.id>>}] ELSE turns
    BY FinishLineFile DEF Types
  <1>2. \A o \in Observers : /\ obs'[o].scan = obs[o].scan /\ obs'[o].memory = obs[o].memory
                             /\ obs'[o].up = obs[o].up
    BY NotifyType DEF Types, FinishLine
  <1>3. \A g \in Files : turns[g] \subseteq turns'[g]
    BY <1>1 DEF Types, FileTypes
  <1>4. \A o \in Observers, g \in Files \ {f} :
          (Scanned(o, g) => Scanned(o, g)') /\ (Waiting(o, g) => Waiting(o, g)')
    BY <1>1, <1>2, <1>3, FollowedSame DEF Types, FileTypes, FinishLine, store
  <1>5. content[f] \in Seq(LineType) /\ content'[f] = Append(content[f], line)
        /\ Len(content'[f]) = Len(content[f]) + 1 /\ Len(content[f]) \in Nat
        /\ \A i \in 1..Len(content[f]) : content'[f][i] = content[f][i]
    BY <1>1 DEF Types, FileTypes
  <1>6. \A q : \A n \in 0..Len(content[f]) : Follows(q, content[f], n) => Follows(q, content'[f], n)
    BY <1>5, AppendFollows
  <1>7. UNCHANGED <<unseen, watcher, format, rows>>
    BY DEF FinishLine, store
  <1>8. \A o \in Observers : obs[o].scan \in ScanType /\ ScanFits(obs[o].scan) /\ watcher[f] \in Position
    BY DEF Types, ObserverTypes, Observer, StoreTypes
  <1>9. ASSUME NEW o \in Observers, f \in obs[o].scan.file, Scanned(o, f)
        PROVE  Scanned(o, f)'
    <2> DEFINE scan == obs[o].scan
               q == obs[o].memory[f].prompt
               at == scan.offset - Len(scan.lines)
    <2>1. obs[o].up
      BY <1>9 DEF Truth, Remembered, NoScan
    <2>2. ~unseen[f]
      BY <2>1 DEF FinishLine, MayWrite
    <2>3. ~(Len(content[f]) < scan.offset)
      BY <1>9, <2>2 DEF Scanned
    <2>4. /\ scan.lines \in Seq(LineType) /\ Len(scan.lines) \in Nat
          /\ scan.offset \in Nat /\ Len(scan.lines) <= scan.offset
      BY <1>8, ScanNumbers
    <2>5. scan.offset <= Len(content[f])
      BY <1>5, <2>3, <2>4
    <2>6. \A i \in 1..Len(scan.lines) : scan.lines[i] = content[f][at + i]
      BY <1>9, <2>3 DEF Scanned
    <2>7. at \in 0..Len(content[f]) /\ \A i \in 1..Len(scan.lines) : at + i \in 1..Len(content[f])
      BY <1>5, <2>4, <2>5, Within
    <2>8. ASSUME NEW i \in 1..Len(scan.lines) PROVE scan.lines[i] = content'[f][at + i]
      <3>1. content'[f][at + i] = content[f][at + i]
        BY <1>5, <2>7
      <3> QED BY <2>6, <3>1
    <2>9. q # 0 => Follows(q, content'[f], at)
      BY <1>6, <1>9, <2>3, <2>7 DEF Scanned
    <2>10. Paired(scan.lines, turns'[f]) /\ (q # 0 => Fits(q, scan.lines, turns'[f]))
      BY <1>3, <1>9 DEF Scanned, Paired, Fits
    <2>11. ~(Len(content'[f]) < scan.offset)
      BY <1>5, <2>3, <2>4
    <2> QED BY <1>2, <2>8, <2>9, <2>10, <2>11 DEF Scanned
  <1>10. ASSUME NEW o \in Observers, Waiting(o, f)
         PROVE  Waiting(o, f)'
    <2>1. CASE obs[o].memory[f].prompt = 0
      BY <1>2, <2>1 DEF Waiting
    <2>2. CASE obs[o].memory[f].prompt # 0 /\ format[f] # "array"
      <3>1. obs[o].up
        BY <2>2 DEF Truth, Remembered
      <3>2. ~unseen[f]
        BY <3>1 DEF FinishLine, MayWrite
      <3>3. Len(content[f]) >= watcher[f].offset
            /\ Follows(obs[o].memory[f].prompt, content[f], watcher[f].offset)
        BY <1>10, <2>2, <3>2 DEF Waiting
      <3>4. watcher[f].offset \in 0..Len(content[f])
        BY <1>5, <1>8, <3>3, ObserverAssumption DEF Position
      <3>5. Follows(obs[o].memory[f].prompt, content'[f], watcher[f].offset)
        BY <1>6, <3>3, <3>4
      <3>6. Len(content'[f]) >= watcher[f].offset
        BY <1>5, <3>4
      <3> QED BY <1>2, <1>7, <3>5, <3>6 DEF Waiting
    <2>3. CASE format[f] = "array"
      BY <1>7, <2>3 DEF Waiting
    <2> QED BY <2>1, <2>2, <2>3
  <1>11. Followed'
    BY <1>2, <1>4, <1>9, <1>10 DEF Truth, Followed
  <1>12. Remembered'
    BY <1>2, <1>7 DEF Truth, Remembered, NoScan
  <1>13. RowsAreTrue'
    BY <1>3, <1>7 DEF Truth, RowsAreTrue, Recorded
  <1> QED BY <1>11, <1>12, <1>13, AppendConversation DEF Truth

LEMMA RewindTruth ==
  ASSUME Types, Truth, NEW f \in Files, Rewind(f)
  PROVE  Truth'
  <1>1. PICK kept \in 0..(Len(content[f]) - 1) : content' = [content EXCEPT ![f] = SubSeq(@, 1, kept)]
    BY DEF Rewind
  <1>2. /\ content[f] \in Seq(LineType) /\ Len(content[f]) \in Nat /\ kept \in 0..Len(content[f])
        /\ content'[f] = SubSeq(content[f], 1, kept)
        /\ \A g \in Files \ {f} : content'[g] = content[g]
    BY <1>1 DEF Types, FileTypes
  <1>3. /\ Len(content'[f]) = kept /\ \A i \in 1..kept : content'[f][i] = content[f][i]
        /\ PromptFirst(content[f]) => PromptFirst(content'[f])
        /\ \A t : Paired(content[f], t) => Paired(content'[f], t)
        /\ \A q : \A n \in 0..kept : Follows(q, content[f], n) => Follows(q, content'[f], n)
    BY <1>2, PrefixKeeps
  <1>4. \A o \in Observers : /\ obs'[o].scan = obs[o].scan /\ obs'[o].memory = obs[o].memory
                             /\ obs'[o].up = obs[o].up
    BY NotifyType DEF Types, Rewind
  <1>5. unseen'[f] /\ UNCHANGED <<watcher, format, rows, turns>>
        /\ \A g \in Files \ {f} : unseen'[g] = unseen[g]
    BY DEF Types, FileTypes, Rewind, store
  <1>6. \A o \in Observers, g \in Files \ {f} :
          (Scanned(o, g) => Scanned(o, g)') /\ (Waiting(o, g) => Waiting(o, g)')
    BY <1>2, <1>4, <1>5, FollowedSame
  <1>7. \A o \in Observers : obs[o].scan \in ScanType /\ ScanFits(obs[o].scan) /\ watcher[f] \in Position
    BY DEF Types, ObserverTypes, Observer, StoreTypes
  <1>8. ASSUME NEW o \in Observers, Scanned(o, f)
        PROVE  Scanned(o, f)'
    <2> DEFINE scan == obs[o].scan
               q == obs[o].memory[f].prompt
               at == scan.offset - Len(scan.lines)
    <2>1. /\ scan.lines \in Seq(LineType) /\ Len(scan.lines) \in Nat
          /\ scan.offset \in Nat /\ Len(scan.lines) <= scan.offset
      BY <1>7, ScanNumbers
    <2>2. Paired(scan.lines, turns[f]) /\ (q # 0 => Fits(q, scan.lines, turns[f]))
      BY <1>8 DEF Scanned
    <2>3. CASE kept < scan.offset
      BY <1>3, <1>4, <1>5, <2>2, <2>3 DEF Scanned
    <2>4. CASE ~(kept < scan.offset)
      <3>1. ~(Len(content[f]) < scan.offset) /\ scan.offset <= kept /\ kept \in Nat
        BY <1>2, <2>1, <2>4
      <3>2. /\ \A i \in 1..Len(scan.lines) : scan.lines[i] = content[f][at + i]
            /\ q # 0 => Follows(q, content[f], at)
        BY <1>8, <3>1 DEF Scanned
      <3>3. at \in 0..kept /\ \A i \in 1..Len(scan.lines) : at + i \in 1..kept
        BY <2>1, <3>1, Within
      <3>4. \A i \in 1..Len(scan.lines) : scan.lines[i] = content'[f][at + i]
        <4> SUFFICES ASSUME NEW i \in 1..Len(scan.lines) PROVE scan.lines[i] = content'[f][at + i]
          OBVIOUS
        <4>1. content'[f][at + i] = content[f][at + i]
          BY <1>3, <3>3
        <4> QED BY <3>2, <4>1
      <3>5. q # 0 => Follows(q, content'[f], at)
        <4> HIDE DEF at, q
        <4> QED BY <1>3, <3>2, <3>3
      <3> QED BY <1>3, <1>4, <1>5, <2>2, <2>4, <3>4, <3>5 DEF Scanned
    <2> QED BY <2>3, <2>4
  <1>9. ASSUME NEW o \in Observers, Waiting(o, f)
        PROVE  Waiting(o, f)'
    <2>1. watcher[f].offset \in Nat
      BY <1>7, ObserverAssumption DEF Position
    <2>2. CASE kept < watcher[f].offset
      BY <1>3, <1>4, <1>5, <2>2 DEF Waiting
    <2>3. CASE ~(kept < watcher[f].offset)
      <3>1. watcher[f].offset \in 0..kept /\ ~(Len(content[f]) < watcher[f].offset) /\ kept >= watcher[f].offset
        BY <1>2, <2>1, <2>3
      <3> QED BY <1>3, <1>4, <1>5, <1>9, <3>1 DEF Waiting
    <2> QED BY <2>2, <2>3
  <1>10. Followed'
    BY <1>4, <1>6, <1>8, <1>9 DEF Truth, Followed
  <1>11. Remembered' /\ RowsAreTrue'
    BY <1>4, <1>5 DEF Truth, Remembered, NoScan, RowsAreTrue, Recorded
  <1>12. Conversation'
    BY <1>2, <1>3, <1>5 DEF Truth, Conversation
  <1> QED BY <1>10, <1>11, <1>12 DEF Truth

\* With one observer, a step of its worker is judged by what it does to it.
LEMMA AloneTruth ==
  ASSUME One, NEW o \in Observers, RowsAreTrue', Conversation',
         ~obs'[o].up => obs'[o].scan = NoScan,
         \A f \in Files : obs'[o].memory[f].prompt # 0 =>
             obs'[o].up /\ (format'[f] = "codex" => obs'[o].memory[f].known),
         \A f \in Files : IF f \in obs'[o].scan.file THEN Scanned(o, f)' ELSE Waiting(o, f)'
  PROVE  Truth'
  <1>1. \A p \in Observers : p = o
    BY DEF One
  <1>2. Remembered'
    <2>1. \A p \in Observers :
            /\ ~obs'[p].up => obs'[p].scan = NoScan
            /\ \A f \in Files : obs'[p].memory[f].prompt # 0 =>
                 obs'[p].up /\ (format'[f] = "codex" => obs'[p].memory[f].known)
      BY <1>1
    <2> QED BY <2>1 DEF Remembered, NoScan
  <1>3. Followed'
    <2>1. \A p \in Observers, f \in Files :
            IF f \in obs'[p].scan.file THEN Scanned(p, f)' ELSE Waiting(p, f)'
      BY <1>1 DEF Scanned, Waiting
    <2> QED BY <2>1 DEF Followed
  <1> QED BY <1>2, <1>3 DEF Truth

LEMMA LoadTruth ==
  ASSUME One, Types, Truth, NEW o \in Observers, NEW f \in Files, Load(o, f)
  PROVE  Truth'
  <1>1. PICK scan \in ScanType : Loaded(o, f, scan)
    BY LoadEffect
  <1>2. obs'[o].scan = scan /\ obs'[o].memory = obs[o].memory /\ obs'[o].up = obs[o].up
        /\ obs[o].up /\ obs[o].scan = NoScan
    BY <1>1 DEF Loaded, Types, ObserverTypes, Observer, Load, Idle
  <1>3. UNCHANGED <<format, content, turns, watcher, rows>> /\ \A g \in Files \ {f} : unseen'[g] = unseen[g]
    BY DEF Load, store, Types, FileTypes
  <1>4. \A g \in Files : Waiting(o, g)
    BY <1>2 DEF Truth, Followed, NoScan
  <1>5. ASSUME NEW g \in Files, g # f PROVE Waiting(o, g)'
    BY <1>2, <1>3, <1>4, <1>5 DEF Waiting
  <1>6. CASE NothingNew(f) /\ scan = NoScan
    <2>1. Waiting(o, f)'
      <3>1. content[f] \in Seq(LineType) /\ watcher[f] \in Position
        BY DEF Types, FileTypes, StoreTypes
      <3>2. format[f] = "array" \/ ~(Len(content[f]) < watcher[f].offset)
        BY <1>6, <3>1, ObserverAssumption DEF NothingNew, Position
      <3>3. Waiting(o, f)
        BY <1>4
      <3>4. obs[o].memory[f].prompt # 0 =>
               \/ format[f] = "array"
               \/ Len(content[f]) >= watcher[f].offset
                    /\ Follows(obs[o].memory[f].prompt, content[f], watcher[f].offset)
        BY <3>2, <3>3 DEF Waiting
      <3>5. /\ obs'[o].memory[f] = obs[o].memory[f] /\ format'[f] = format[f]
            /\ content'[f] = content[f] /\ watcher'[f] = watcher[f]
        BY <1>2, <1>3
      <3> QED BY <3>4, <3>5 DEF Waiting
    <2>2. \A g \in Files : IF g \in obs'[o].scan.file THEN Scanned(o, g)' ELSE Waiting(o, g)'
      <3>1. obs'[o].scan.file = {}
        BY <1>2, <1>6 DEF NoScan
      <3> QED BY <1>5, <2>1, <3>1
    <2>3. RowsAreTrue' /\ Conversation'
      BY <1>3 DEF Truth, Conversation, RowsAreTrue, Recorded
    <2>4. \A g \in Files : obs'[o].memory[g].prompt # 0 =>
             obs'[o].up /\ (format'[g] = "codex" => obs'[o].memory[g].known)
      BY <1>2, <1>3 DEF Truth, Remembered
    <2> QED BY <1>2, <2>2, <2>3, <2>4, AloneTruth
  <1>7. CASE /\ scan.file = {f} /\ scan.lines = Batch(f).lines
             /\ scan.offset = Batch(f).offset /\ scan.seq = Batch(f).seq
    <2> DEFINE q == obs[o].memory[f].prompt
    <2>1. PICK n \in 0..Len(content[f]) : ReadsFrom(f, n)
      BY BatchType DEF Types
    <2>2. /\ content[f] \in Seq(LineType) /\ Len(content[f]) \in Nat /\ watcher[f] \in Position
          /\ scan.lines \in Seq(LineType) /\ scan.offset \in n..Len(content[f])
          /\ Len(scan.lines) = scan.offset - n
          /\ \A i \in 1..Len(scan.lines) : scan.lines[i] = content[f][n + i]
          /\ n = 0 \/ (n = watcher[f].offset /\ format[f] # "array")
      BY <1>7, <2>1 DEF Types, FileTypes, StoreTypes, ReadsFrom
    <2>3. scan.offset - Len(scan.lines) = n /\ ~(Len(content[f]) < scan.offset)
          /\ n \in Nat /\ n + Len(scan.lines) <= Len(content[f])
      BY <2>2, Span
    <2>4. q # 0 => Follows(q, content[f], n)
      <3>1. CASE n = 0
        BY <3>1 DEF Follows
      <3>2. CASE n = watcher[f].offset /\ format[f] # "array"
        <4>1. Waiting(o, f)
          BY <1>4
        <4>2. ~(Len(content[f]) < watcher[f].offset)
          BY <2>1, <2>2, <3>2
        <4> QED BY <3>2, <4>1, <4>2 DEF Waiting
      <3> QED BY <2>2, <3>1, <3>2
    <2>5. PromptFirst(content[f]) /\ Paired(content[f], turns[f])
      BY DEF Truth, Conversation
    <2>6. IsPart(scan.lines, content[f], n)
      BY <2>2, <2>3 DEF IsPart
    <2>7. Paired(scan.lines, turns[f])
      BY <2>2, <2>3, <2>5, <2>6, PairedPart
    <2>8. q # 0 => Fits(q, scan.lines, turns[f])
      BY <2>2, <2>3, <2>4, <2>5, <2>6, FollowsFits
    <2>9. Scanned(o, f)'
      BY <1>2, <1>3, <2>2, <2>3, <2>4, <2>7, <2>8 DEF Scanned
    <2> QED BY <1>2, <1>3, <1>5, <1>7, <2>9, AloneTruth
            DEF Truth, Remembered, Conversation, RowsAreTrue, Recorded
  <1> QED BY <1>1, <1>6, <1>7 DEF Loaded

LEMMA LoadGoneTruth ==
  ASSUME One, Types, Truth, NEW o \in Observers, NEW f \in Files, LoadGone(o, f)
  PROVE  Truth'
  <1>1. /\ obs'[o].scan = obs[o].scan /\ obs'[o].memory = obs[o].memory /\ obs'[o].up = obs[o].up
        /\ obs[o].scan = NoScan
    BY DEF LoadGone, Types, ObserverTypes, Observer, Idle
  <1>2. UNCHANGED <<format, content, turns, rows>> /\ content[f] = <<>> /\ watcher'[f].offset = 0
        /\ \A g \in Files \ {f} : unseen'[g] = unseen[g] /\ watcher'[g] = watcher[g]
    BY DEF LoadGone, Types, FileTypes, StoreTypes
  <1>3. \A g \in Files : Waiting(o, g)
    BY <1>1 DEF Truth, Followed, NoScan
  <1>4. \A g \in Files \ {f} : Waiting(o, g)'
    BY <1>1, <1>2, <1>3 DEF Waiting
  <1>5. Waiting(o, f)'
    BY <1>2 DEF Waiting, Follows
  <1> QED BY <1>1, <1>2, <1>4, <1>5, AloneTruth
          DEF Truth, NoScan, Remembered, Conversation, RowsAreTrue, Recorded

LEMMA CollectTruth ==
  ASSUME One, Types, Truth, NEW o \in Observers, Collect(o)
  PROVE  Truth'
  <1>1. /\ obs'[o].scan = obs[o].scan /\ obs'[o].up = obs[o].up /\ obs[o].scan = NoScan
        /\ \A g \in Files : obs'[o].memory[g] = obs[o].memory[g] \/ obs'[o].memory[g] = NoPair
    BY DEF Collect, Types, ObserverTypes, Observer, Idle
  <1>2. UNCHANGED <<format, content, turns, rows, watcher, unseen>>
    BY DEF Collect, file, store
  <1>3. \A g \in Files : Waiting(o, g)
    BY <1>1 DEF Truth, Followed, NoScan
  <1>4. \A g \in Files : Waiting(o, g)'
    BY <1>1, <1>2, <1>3 DEF Waiting, NoPair
  <1>5. \A g \in Files : obs'[o].memory[g].prompt # 0 =>
             obs'[o].up /\ (format'[g] = "codex" => obs'[o].memory[g].known)
    BY <1>1, <1>2 DEF Truth, Remembered, NoPair
  <1> QED BY <1>1, <1>2, <1>4, <1>5, AloneTruth
          DEF Truth, NoScan, Remembered, Conversation, RowsAreTrue, Recorded

LEMMA SaveTruth ==
  ASSUME One, Types, Truth, NEW o \in Observers, Save(o)
  PROVE  Truth'
  <1>1. /\ obs'[o].scan = NoScan /\ obs'[o].memory = obs[o].memory /\ obs'[o].up = obs[o].up
        /\ obs[o].scan # NoScan /\ obs[o].scan.lines = <<>> /\ obs[o].scan \in ScanType
        /\ ScanFits(obs[o].scan)
    BY DEF Save, Types, ObserverTypes, Observer
  <1>2. PICK f \in Files : obs[o].scan.file = {f}
    BY <1>1 DEF ScanFits
  <1>3. /\ UNCHANGED <<format, content, turns, rows, unseen>>
        /\ watcher'[f].offset = obs[o].scan.offset /\ \A g \in Files \ {f} : watcher'[g] = watcher[g]
    BY <1>2 DEF Save, file, Types, StoreTypes
  <1>4. \A g \in Files \ {f} : Waiting(o, g)'
    BY <1>1, <1>2, <1>3 DEF Truth, Followed, Waiting
  <1>5. Waiting(o, f)'
    <2>1. Scanned(o, f)
      BY <1>2 DEF Truth, Followed
    <2>2. obs[o].scan.offset \in Nat /\ Len(obs[o].scan.lines) = 0 /\ Len(content[f]) \in Nat
      BY <1>1, ScanNumbers DEF Types, FileTypes
    <2>3. obs[o].scan.offset - Len(obs[o].scan.lines) = obs[o].scan.offset
      BY <2>2
    <2>4. CASE Len(content[f]) < obs[o].scan.offset
      BY <1>1, <1>3, <2>1, <2>4 DEF Scanned, Waiting
    <2>5. CASE Len(content[f]) >= obs[o].scan.offset
      <3>1. obs[o].memory[f].prompt # 0 => Follows(obs[o].memory[f].prompt, content[f], obs[o].scan.offset)
        BY <2>1, <2>2, <2>3, <2>5 DEF Scanned
      <3> QED BY <1>1, <1>3, <2>5, <3>1 DEF Waiting
    <2> QED BY <2>2, <2>4, <2>5
  <1> QED BY <1>1, <1>3, <1>4, <1>5, AloneTruth
          DEF Truth, NoScan, Remembered, Conversation, RowsAreTrue, Recorded

LEMMA CrashTruth ==
  ASSUME One, Types, Truth, NEW o \in Observers, Crash(o) \/ Start(o)
  PROVE  Truth'
  <1>1. obs'[o].scan = NoScan /\ \A f \in Files : obs'[o].memory[f] = NoPair
    <2>1. obs' = [obs EXCEPT ![o] = Down] \/ obs' = [obs EXCEPT ![o] = Started]
      BY DEF Crash, Start
    <2>2. obs'[o] = Down \/ obs'[o] = Started
      BY <2>1 DEF Types, ObserverTypes
    <2>3. Down.scan = NoScan /\ Started.scan = NoScan
      BY DownType DEF Types
    <2>4. Down.memory = [f \in Files |-> NoPair] /\ Started.memory = [f \in Files |-> NoPair]
      BY DEF Down, Started
    <2>5. obs'[o].scan = NoScan
      BY <2>2, <2>3
    <2>6. obs'[o].memory = [f \in Files |-> NoPair]
      BY <2>2, <2>4
    <2> QED BY <2>5, <2>6
  <1>2. UNCHANGED <<format, content, turns, rows>>
    BY DEF Crash, Start, file, store
  <1>3. \A f \in Files : Waiting(o, f)'
    BY <1>1 DEF Waiting, NoPair
  <1> QED BY <1>1, <1>2, <1>3, AloneTruth
          DEF Truth, NoScan, NoPair, Conversation, RowsAreTrue, Recorded

\* The heart of it: an answer that is read answers the prompt that waits, or none waits.
LEMMA LineTruth ==
  ASSUME One, Types, Truth, NEW o \in Observers, Line(o)
  PROVE  Truth'
  <1>1. PICK f \in Files, n \in 0..MaxLines, m \in Memory : Heard(o, f, n, m)
    BY LineEffect
  <1> DEFINE scan == obs[o].scan
             line == Head(scan.lines)
             q == obs[o].memory[f].prompt
             known == format[f] # "codex" \/ obs[o].memory[f].known
             c == content[f]
             at == scan.offset - Len(scan.lines)
  <1>2. /\ UNCHANGED <<format, content, turns, unseen, watcher>>
        /\ scan # NoScan /\ scan.lines # <<>> /\ scan.file = {f} /\ obs[o].up
    <2>1. scan # NoScan => obs[o].up
      BY DEF Truth, Remembered
    <2> QED BY <1>1, <2>1 DEF Line, file, Heard
  <1>3. scan \in ScanType /\ ScanFits(scan) /\ obs[o] \in Observer /\ obs \in [Observers -> Observer]
    BY DEF Types, ObserverTypes, Observer
  <1>4. /\ obs'[o].up = obs[o].up /\ obs'[o].scan.file = {f} /\ obs'[o].scan.offset = scan.offset
        /\ obs'[o].scan.lines = Tail(scan.lines) /\ obs'[o].memory[f] = m
        /\ \A g \in Files \ {f} : obs'[o].memory[g] = obs[o].memory[g]
    <2>1. obs'[o] = [obs[o] EXCEPT !.scan = [obs[o].scan EXCEPT !.lines = Tail(obs[o].scan.lines), !.seq = n],
                                   !.memory = [obs[o].memory EXCEPT ![f] = m]]
      BY <1>1, <1>3 DEF Heard
    <2>2. obs[o].memory \in [Files -> Memory]
      BY <1>3 DEF Observer
    <2>3. /\ obs'[o].up = obs[o].up /\ obs'[o].memory = [obs[o].memory EXCEPT ![f] = m]
          /\ obs'[o].scan = [scan EXCEPT !.lines = Tail(scan.lines), !.seq = n]
      BY <1>3, <2>1 DEF Observer
    <2> QED BY <1>2, <1>3, <2>2, <2>3 DEF ScanType
  <1>5. /\ scan.lines \in Seq(LineType) /\ Len(scan.lines) \in Nat \ {0}
        /\ scan.offset \in Nat /\ Len(scan.lines) <= scan.offset
        /\ Tail(scan.lines) \in Seq(LineType) /\ Len(Tail(scan.lines)) = Len(scan.lines) - 1
        /\ \A i \in 1..Len(Tail(scan.lines)) : Tail(scan.lines)[i] = scan.lines[1 + i]
        /\ line = scan.lines[1] /\ line \in LineType /\ c \in Seq(LineType)
    <2>1. /\ scan.lines \in Seq(LineType) /\ Len(scan.lines) \in Nat
          /\ scan.offset \in Nat /\ Len(scan.lines) <= scan.offset
      BY <1>3, ScanNumbers
    <2> QED BY <1>2, <2>1 DEF Types, FileTypes
  <1>6. Scanned(o, f)
    BY <1>2 DEF Truth, Followed
  <1>7. \A p : /\ Paired(scan.lines, turns[f]) => Paired(Tail(scan.lines), turns[f])
               /\ Paired(scan.lines, turns[f]) /\ line.kind = "prompt" => Fits(line.id, Tail(scan.lines), turns[f])
               /\ Fits(p, scan.lines, turns[f]) /\ line.kind = "meta" => Fits(p, Tail(scan.lines), turns[f])
               /\ Fits(p, scan.lines, turns[f]) /\ line.kind = "answer" => <<p, line.id>> \in turns[f]
    BY <1>2, <1>5, TailFits
  <1>8. q # 0 => known
    BY DEF Truth, Remembered
  <1>9. RowsAreTrue'
    <2>1. CASE rows' = rows
      BY <1>2, <2>1 DEF Truth, RowsAreTrue, Recorded
    <2>2. CASE rows' # rows
      <3>1. line.kind = "answer" /\ q # 0 /\ n = scan.seq + 1 /\ rows' = Inserted(f, n, <<q, line.id>>)
        BY <1>1, <2>2 DEF Heard
      <3>2. n \in 1..MaxLines /\ <<q, line.id>> \in Pairs
        <4>1. n \in 0..MaxLines
          BY <1>1
        <4>2. q \in 0..MaxLines /\ scan.seq \in 0..MaxLines
          BY <1>3 DEF Observer, Memory, ScanType
        <4>3. line.id \in 1..MaxLines
          BY <1>5 DEF LineType
        <4>4. n \in 1..MaxLines /\ q \in 1..MaxLines
          <5> HIDE DEF q, scan
          <5> QED BY <3>1, <4>1, <4>2, ObserverAssumption DEF scan
        <4> QED BY <4>3, <4>4 DEF Pairs
      <3>3. <<q, line.id>> \in turns[f]
        BY <1>6, <1>7, <3>1 DEF Scanned
      <3>4. /\ \A g \in Files \ {f} : rows'[g] = rows[g]
            /\ \A k \in DOMAIN rows'[f] : (k \in DOMAIN rows[f] /\ rows'[f][k] = rows[f][k])
                                          \/ rows'[f][k] = <<q, line.id>>
        <4> HIDE DEF q, line
        <4> QED BY <3>1, <3>2, InsertedType, ZenonT(40) DEF Types
      <3>5. \A g \in Files : Recorded(g) \subseteq turns[g]
        BY DEF Truth, RowsAreTrue
      <3>6. \A g \in Files : \A k \in DOMAIN rows'[g] : rows'[g][k] \in turns[g]
        <4>1. \A g \in Files : \A k \in DOMAIN rows[g] : rows[g][k] \in turns[g]
          BY <3>5 DEF Recorded
        <4> QED BY <3>3, <3>4, <4>1
      <3> QED BY <1>2, <3>6 DEF RowsAreTrue, Recorded
    <2> QED BY <2>1, <2>2
  <1>10. \A g \in Files : obs'[o].memory[g].prompt # 0 =>
             obs'[o].up /\ (format'[g] = "codex" => obs'[o].memory[g].known)
    <2>1. m.prompt # 0 => (format[f] = "codex" => m.known)
      BY <1>1, <1>8 DEF Heard
    <2>2. \A g \in Files : obs[o].memory[g].prompt # 0 => (format[g] = "codex" => obs[o].memory[g].known)
      BY DEF Truth, Remembered
    <2> QED BY <1>2, <1>4, <2>1, <2>2
  <1>11. /\ Paired(Tail(scan.lines), turns[f])
         /\ m.prompt # 0 => Fits(m.prompt, Tail(scan.lines), turns[f])
    <2>1. Paired(scan.lines, turns[f]) /\ (q # 0 => Fits(q, scan.lines, turns[f]))
      BY <1>6 DEF Scanned
    <2>2. m.prompt # 0 => (m.prompt = q /\ line.kind = "meta") \/ (m.prompt = line.id /\ line.kind = "prompt")
      BY <1>1, <1>8 DEF Heard
    <2> QED BY <1>7, <2>1, <2>2
  <1>12. ASSUME ~(Len(c) < scan.offset)
         PROVE  /\ \A i \in 1..Len(Tail(scan.lines)) : Tail(scan.lines)[i] = c[(at + 1) + i]
                /\ m.prompt # 0 => Follows(m.prompt, c, at + 1)
                /\ scan.offset - Len(Tail(scan.lines)) = at + 1
    <2>1. /\ \A i \in 1..Len(scan.lines) : scan.lines[i] = c[at + i]
          /\ q # 0 => Follows(q, c, at)
      BY <1>6, <1>12 DEF Scanned
    <2>2. /\ at \in Nat /\ 1 \in 1..Len(scan.lines) /\ scan.offset - Len(Tail(scan.lines)) = at + 1
          /\ \A i \in 1..Len(Tail(scan.lines)) :
               1 + i \in 1..Len(scan.lines) /\ at + (1 + i) = (at + 1) + i
      BY <1>5, OneOn, ZenonT(40)
    <2>3. c[at + 1] = line
      BY <1>5, <2>1, <2>2
    <2>4. m.prompt # 0 => (m.prompt = q /\ line.kind = "meta") \/ (m.prompt = line.id /\ line.kind = "prompt")
      BY <1>1, <1>8 DEF Heard
    <2>5. m.prompt # 0 => Follows(m.prompt, c, at + 1)
      <3> HIDE DEF at, c, line
      <3> QED BY <2>1, <2>2, <2>3, <2>4, FollowsOn
    <2>6. ASSUME NEW i \in 1..Len(Tail(scan.lines))
          PROVE  Tail(scan.lines)[i] = c[(at + 1) + i]
      <3>1. 1 + i \in 1..Len(scan.lines) /\ at + (1 + i) = (at + 1) + i
        BY <2>2
      <3>2. Tail(scan.lines)[i] = scan.lines[1 + i] /\ scan.lines[1 + i] = c[at + (1 + i)]
        BY <1>5, <2>1, <3>1
      <3> QED BY <3>1, <3>2
    <2> QED BY <2>2, <2>5, <2>6
  <1>13. Len(c) < scan.offset => unseen[f]
    BY <1>6 DEF Scanned
  <1>14. Scanned(o, f)'
    <2> HIDE DEF at, c, line, q, known
    <2> QED BY <1>2, <1>4, <1>11, <1>12, <1>13 DEF Scanned, c
  <1>15. ASSUME NEW g \in Files, g # f PROVE Waiting(o, g)'
    <2>1. Waiting(o, g)
      BY <1>2, <1>15 DEF Truth, Followed
    <2>2. obs'[o].memory[g] = obs[o].memory[g]
      BY <1>4, <1>15
    <2> QED BY <1>2, <2>1, <2>2 DEF Waiting
  <1>16. \A g \in Files : IF g \in obs'[o].scan.file THEN Scanned(o, g)' ELSE Waiting(o, g)'
    BY <1>4, <1>14, <1>15
  <1>17. Conversation'
    BY <1>2 DEF Truth, Conversation
  <1> QED BY <1>2, <1>4, <1>9, <1>10, <1>16, <1>17, AloneTruth

LEMMA TruthStep == One /\ Types /\ Truth /\ [Next]_vars => Truth'
  <1> SUFFICES ASSUME One, Types, Truth, [Next]_vars PROVE Truth'
    OBVIOUS
  <1>1. ASSUME NEW f \in Files, BeginLine(f) \/ FinishLine(f) \/ Rewind(f)
        PROVE  Truth'
    BY <1>1, BeginLineTruth, FinishLineTruth, RewindTruth
  <1>2. ASSUME NEW o \in Observers, Work(o)
        PROVE  Truth'
    BY <1>2, LoadTruth, LoadGoneTruth, LineTruth, SaveTruth DEF Work
  <1>3. ASSUME NEW o \in Observers, Collect(o) \/ Crash(o) \/ Start(o)
        PROVE  Truth'
    BY <1>3, CollectTruth, CrashTruth
  <1>4. CASE UNCHANGED vars
    <2>1. \A o \in Observers, g \in Files :
            (Scanned(o, g) => Scanned(o, g)') /\ (Waiting(o, g) => Waiting(o, g)')
      BY <1>4 DEF vars, file, store, Scanned, Waiting
    <2>2. Followed'
      BY <1>4, <2>1 DEF vars, Truth, Followed
    <2> QED BY <1>4, <2>2 DEF vars, file, store, Truth, Conversation, Remembered, NoScan, RowsAreTrue, Recorded
  <1> QED BY <1>1, <1>2, <1>3, <1>4 DEF Next

\* One observer records no pair that was not spoken, however the file is cut, written
\* again and grows under it, and wherever it dies: the prompt it holds is the last thing
\* said before the offset it will go on from.
THEOREM RowsAreTrueAlways == ASSUME One PROVE Spec => []RowsAreTrue
  <1>1. One
    OBVIOUS
  <1>2. Truth => RowsAreTrue
    BY DEF Truth
  <1>3. Types /\ Truth /\ [Next]_vars => Truth'
    BY <1>1, TruthStep
  <1> QED BY <1>2, <1>3, TruthInit, TypesAlways, PTL DEF Spec

-----------------------------------------------------------------------------
(* The numbers of a session *)

\* k numbers the lines in a row c, by their ids: one on at each answer to a prompt.
Numbers(c, k) ==
    \A i \in 2..Len(c) :
        /\ c[i].kind # "meta"
        /\ c[i].kind = "answer" => c[i - 1].kind # "meta"
        /\ k[c[i].id] = IF c[i].kind = "answer" /\ c[i - 1].kind = "prompt"
                        THEN k[c[i - 1].id] + 1 ELSE k[c[i - 1].id]

\* It numbers a whole file, from 0.
Numbered(c, k, w, kind) ==
    /\ Numbers(c, k)
    /\ \A i \in 1..Len(c) : c[i].id <= w
    /\ Len(c) > 0 => /\ c[1].kind # "answer" /\ k[c[1].id] = 0
                     /\ kind = "codex" => c[1].kind = "meta"
    /\ k[0] = 0

\* the id of the n-th line
IdAt(c, n) == IF n = 0 THEN 0 ELSE c[n].id

Knows(m, kind) == kind = "codex" => m.known

\* What is in memory m after the first n lines is what they leave there, and so is s.
Exact(c, k, m, kind, n, s) ==
    /\ s = k[IdAt(c, n)]
    /\ n > 0 => Knows(m, kind)
    /\ n > 0 /\ c[n].kind # "meta" => (m.prompt # 0 <=> c[n].kind = "prompt")

\* A scan goes on where its session stands, unless the file was cut below it.
Reading(c, k, w, m, kind, cutoff, scan) ==
    LET l == scan.lines
    IN  /\ Numbers(l, k)
        /\ \A i \in 1..Len(l) : l[i].id <= w
        /\ l # <<>> => /\ k[l[1].id] = IF l[1].kind = "answer" /\ m.prompt # 0
                                       THEN scan.seq + 1 ELSE scan.seq
                       /\ l[1].kind # "meta" => Knows(m, kind)
        /\ IF Len(c) < scan.offset THEN cutoff ELSE Exact(c, k, m, kind, scan.offset - Len(l), scan.seq)

Between(c, k, m, kind, cutoff, pos) ==
    kind # "array" => IF Len(c) < pos.offset THEN cutoff ELSE Exact(c, k, m, kind, pos.offset, pos.seq)

LEMMA IdType ==
  ASSUME NEW c \in Seq(LineType), NEW w \in Nat, \A i \in 1..Len(c) : c[i].id <= w, NEW n \in 0..Len(c)
  PROVE  IdAt(c, n) \in 0..w
  <1>1. CASE n = 0
    BY <1>1 DEF IdAt
  <1>2. CASE n # 0
    <2>1. n \in 1..Len(c) /\ c[n] \in LineType
      BY <1>2
    <2> QED BY <1>2, <2>1, ObserverAssumption DEF IdAt, LineType
  <1> QED BY <1>1, <1>2

\* The first lines of a file keep its numbers.
LEMMA PrefixNumbered ==
  ASSUME NEW c \in Seq(LineType), NEW k, NEW w, NEW kind, Numbered(c, k, w, kind),
         NEW d \in Seq(LineType), Len(d) <= Len(c), \A i \in 1..Len(d) : d[i] = c[i]
  PROVE  Numbered(d, k, w, kind)
         /\ \A m, s : \A n \in 0..Len(d) : Exact(c, k, m, kind, n, s) => Exact(d, k, m, kind, n, s)
  <1>1. Numbers(d, k)
    <2> SUFFICES ASSUME NEW i \in 2..Len(d)
                 PROVE  /\ d[i].kind # "meta"
                        /\ d[i].kind = "answer" => d[i - 1].kind # "meta"
                        /\ k[d[i].id] = IF d[i].kind = "answer" /\ d[i - 1].kind = "prompt"
                                        THEN k[d[i - 1].id] + 1 ELSE k[d[i - 1].id]
      BY DEF Numbers
    <2>1. i \in 2..Len(c) /\ d[i] = c[i] /\ d[i - 1] = c[i - 1]
      OBVIOUS
    <2> QED BY <2>1 DEF Numbered, Numbers
  <1>2. \A i \in 1..Len(d) : i \in 1..Len(c)
    OBVIOUS
  <1>3. Len(d) > 0 => d[1] = c[1] /\ Len(c) > 0
    OBVIOUS
  <1>4. \A n \in 0..Len(d) : IdAt(d, n) = IdAt(c, n)
    BY DEF IdAt
  <1> QED BY <1>1, <1>2, <1>3, <1>4 DEF Numbered, Exact

LEMMA Appended ==
  ASSUME NEW c \in Seq(LineType), NEW line \in LineType
  PROVE  /\ Append(c, line) \in Seq(LineType) /\ Len(Append(c, line)) = Len(c) + 1
         /\ Append(c, line)[Len(c) + 1] = line /\ Len(c) \in Nat
         /\ \A i \in 1..Len(c) : Append(c, line)[i] = c[i]
  OBVIOUS

LEMMA IdsIn ==
  ASSUME NEW c \in Seq(LineType), NEW w \in Nat, \A i \in 1..Len(c) : c[i].id <= w
  PROVE  \A i \in 1..Len(c) : c[i].id \in Nat /\ c[i].id \in 0..w
  <1> SUFFICES ASSUME NEW i \in 1..Len(c) PROVE c[i].id \in Nat /\ c[i].id \in 0..w
    OBVIOUS
  <1>1. c[i] \in LineType
    OBVIOUS
  <1> QED BY <1>1, ObserverAssumption DEF LineType

\* A line that is written can be numbered: what came before it is written already.
LEMMA AppendNumbered ==
  ASSUME NEW c \in Seq(LineType), NEW w \in Nat, NEW kind, NEW k, \A i \in Nat : k[i] \in Nat,
         Numbered(c, k, w, kind), NEW line \in LineType, line.id = w + 1,
         Len(c) = 0 => line.kind # "answer" /\ (kind = "codex" => line.kind = "meta"),
         Len(c) > 0 => line.kind # "meta" /\ (line.kind = "answer" => c[Len(c)].kind # "meta")
  PROVE  \E h : /\ \A i \in Nat : h[i] \in Nat
                /\ \A i \in 0..w : h[i] = k[i]
                /\ Numbered(Append(c, line), h, w + 1, kind)
  <1> DEFINE e == Len(c)
             d == Append(c, line)
             x == IF e = 0 THEN 0
                  ELSE IF line.kind = "answer" /\ c[e].kind = "prompt" THEN k[c[e].id] + 1 ELSE k[c[e].id]
             h == [i \in Nat |-> IF i = w + 1 THEN x ELSE k[i]]
  <1>1. \A i \in 1..e : c[i].id \in Nat /\ c[i].id \in 0..w
    BY IdsIn DEF Numbered
  <1>2. /\ d \in Seq(LineType) /\ Len(d) = e + 1 /\ d[e + 1] = line /\ e \in Nat
        /\ \A i \in 1..e : d[i] = c[i]
    BY Appended
  <1>3. x \in Nat
    <2>1. CASE e = 0
      BY <2>1
    <2>2. CASE e # 0
      <3>1. k[c[e].id] \in Nat
        BY <1>1, <1>2, <2>2
      <3> QED BY <2>2, <3>1
    <2> QED BY <2>1, <2>2
  <1> HIDE DEF x
  <1>4. (\A i \in Nat : h[i] \in Nat) /\ h[w + 1] = x /\ \A i \in 0..w : h[i] = k[i]
    BY <1>3
  <1> HIDE DEF h, d, e
  <1>5. Numbers(d, h)
    <2> SUFFICES ASSUME NEW i \in 2..Len(d)
                 PROVE  /\ d[i].kind # "meta"
                        /\ d[i].kind = "answer" => d[i - 1].kind # "meta"
                        /\ h[d[i].id] = IF d[i].kind = "answer" /\ d[i - 1].kind = "prompt"
                                        THEN h[d[i - 1].id] + 1 ELSE h[d[i - 1].id]
      BY DEF Numbers
    <2>1. i \in 2..e \/ (i = e + 1 /\ e > 0)
      BY <1>2
    <2>2. CASE i \in 2..e
      <3>1. i \in 1..e /\ i - 1 \in 1..e
        BY <1>2, <2>2
      <3>2. d[i] = c[i] /\ d[i - 1] = c[i - 1] /\ h[c[i].id] = k[c[i].id] /\ h[c[i - 1].id] = k[c[i - 1].id]
        BY <1>1, <1>2, <1>4, <3>1
      <3>3. Numbers(c, k) /\ i \in 2..Len(c)
        BY <2>2 DEF Numbered, e
      <3> QED BY <3>2, <3>3 DEF Numbers
    <2>3. CASE i = e + 1 /\ e > 0
      <3>1. e \in 1..e /\ i - 1 = e
        BY <1>2, <2>3
      <3>2. d[i] = line /\ d[i - 1] = c[e] /\ h[c[e].id] = k[c[e].id] /\ h[line.id] = x
        BY <1>1, <1>2, <1>4, <2>3, <3>1
      <3>3. line.kind # "meta" /\ (line.kind = "answer" => c[e].kind # "meta")
        BY <2>3 DEF e
      <3>4. x = IF line.kind = "answer" /\ c[e].kind = "prompt" THEN k[c[e].id] + 1 ELSE k[c[e].id]
        BY <2>3 DEF x
      <3> QED BY <3>2, <3>3, <3>4
    <2> QED BY <2>1, <2>2, <2>3
  <1>6. \A i \in 1..Len(d) : d[i].id <= w + 1
    <2> SUFFICES ASSUME NEW i \in 1..Len(d) PROVE d[i].id <= w + 1
      OBVIOUS
    <2>1. CASE i \in 1..e
      BY <1>1, <1>2, <2>1
    <2>2. CASE i = e + 1
      BY <1>2, <2>2
    <2> QED BY <1>2, <2>1, <2>2
  <1>7. /\ d[1].kind # "answer" /\ h[d[1].id] = 0
        /\ kind = "codex" => d[1].kind = "meta"
    <2>1. CASE e = 0
      BY <1>2, <1>4, <2>1 DEF x, e
    <2>2. CASE e # 0
      <3>1. 1 \in 1..e
        BY <1>2, <2>2
      <3>2. d[1] = c[1] /\ h[c[1].id] = k[c[1].id]
        BY <1>1, <1>2, <1>4, <3>1
      <3>3. c[1].kind # "answer" /\ k[c[1].id] = 0 /\ (kind = "codex" => c[1].kind = "meta")
        BY <1>2, <2>2 DEF Numbered, e
      <3> QED BY <3>2, <3>3
    <2> QED BY <2>1, <2>2
  <1>8. h[0] = 0
    BY <1>4 DEF Numbered
  <1>9. Numbered(d, h, w + 1, kind)
    BY <1>5, <1>6, <1>7, <1>8 DEF Numbered
  <1> QED BY <1>4, <1>9 DEF d

LEMMA AppendExact ==
  ASSUME NEW c \in Seq(LineType), NEW w \in Nat, NEW k, NEW kind, Numbered(c, k, w, kind),
         NEW h, \A i \in 0..w : h[i] = k[i], NEW line \in LineType,
         NEW n \in 0..Len(c), NEW m, NEW s, Exact(c, k, m, kind, n, s)
  PROVE  Exact(Append(c, line), h, m, kind, n, s)
  <1>1. \A i \in 1..Len(c) : Append(c, line)[i] = c[i]
    BY Appended
  <1>2. IdAt(Append(c, line), n) = IdAt(c, n) /\ IdAt(c, n) \in 0..w
    <2>1. \A i \in 1..Len(c) : c[i].id <= w
      BY DEF Numbered
    <2>2. IdAt(c, n) \in 0..w
      BY <2>1, IdType
    <2>3. n = 0 \/ n \in 1..Len(c)
      OBVIOUS
    <2> QED BY <1>1, <2>2, <2>3 DEF IdAt
  <1>3. n > 0 => Append(c, line)[n] = c[n]
    BY <1>1
  <1> QED BY <1>2, <1>3 DEF Exact

\* A file that grows leaves what is known of it.
LEMMA AppendReading ==
  ASSUME NEW c \in Seq(LineType), NEW w \in Nat, NEW k, NEW kind, Numbered(c, k, w, kind),
         NEW h, \A i \in 0..w : h[i] = k[i], NEW line \in LineType,
         NEW m, NEW scan \in ScanType, ScanFits(scan), Reading(c, k, w, m, kind, FALSE, scan)
  PROVE  Reading(Append(c, line), h, w + 1, m, kind, FALSE, scan)
  <1> DEFINE l == scan.lines
             d == Append(c, line)
  <1>1. l \in Seq(LineType) /\ Len(l) \in Nat /\ scan.offset \in Nat /\ Len(l) <= scan.offset
    BY ScanNumbers
  <1>2. Numbers(l, k) /\ (\A i \in 1..Len(l) : l[i].id <= w)
        /\ ~(Len(c) < scan.offset) /\ Exact(c, k, m, kind, scan.offset - Len(l), scan.seq)
    BY DEF Reading
  <1>3. Len(d) = Len(c) + 1 /\ Len(c) \in Nat
    BY Appended
  <1>4. scan.offset - Len(l) \in 0..Len(c) /\ ~(Len(d) < scan.offset)
    BY <1>1, <1>2, <1>3
  <1>5. \A i \in 1..Len(l) : l[i].id \in Nat /\ l[i].id \in 0..w
    BY <1>1, <1>2, IdsIn
  <1>6. Numbers(l, h)
    <2>1. \A i \in 1..Len(l) : h[l[i].id] = k[l[i].id]
      BY <1>5
    <2>2. \A i \in 2..Len(l) : i \in 1..Len(l) /\ i - 1 \in 1..Len(l)
      BY <1>1
    <2> HIDE DEF l
    <2> QED BY <1>2, <2>1, <2>2 DEF Numbers
  <1>7. l # <<>> => h[l[1].id] = k[l[1].id]
    <2>1. l # <<>> => 1 \in 1..Len(l)
      BY <1>1
    <2> QED BY <1>5, <2>1
  <1>8. Exact(d, h, m, kind, scan.offset - Len(l), scan.seq)
    BY <1>2, <1>4, AppendExact
  <1>9. \A i \in 1..Len(l) : l[i].id <= w + 1
    BY <1>5
  <1> QED BY <1>2, <1>4, <1>6, <1>7, <1>8, <1>9 DEF Reading

LEMMA AppendBetween ==
  ASSUME NEW c \in Seq(LineType), NEW w \in Nat, NEW k, NEW kind, Numbered(c, k, w, kind),
         NEW h, \A i \in 0..w : h[i] = k[i], NEW line \in LineType,
         NEW m, NEW pos \in Position, Between(c, k, m, kind, FALSE, pos)
  PROVE  Between(Append(c, line), h, m, kind, FALSE, pos)
  <1>1. CASE kind = "array"
    BY <1>1 DEF Between
  <1>2. CASE kind # "array"
    <2>1. ~(Len(c) < pos.offset) /\ Exact(c, k, m, kind, pos.offset, pos.seq)
      BY <1>2 DEF Between
    <2>2. Len(Append(c, line)) = Len(c) + 1 /\ Len(c) \in Nat
      BY Appended
    <2>3. pos.offset \in 0..Len(c) /\ ~(Len(Append(c, line)) < pos.offset)
      BY <2>1, <2>2, ObserverAssumption DEF Position
    <2>4. Exact(Append(c, line), h, m, kind, pos.offset, pos.seq)
      BY <2>1, <2>3, AppendExact
    <2> QED BY <2>3, <2>4 DEF Between
  <1> QED BY <1>1, <1>2

\* So does one that is cut, as far as it is kept.
LEMMA CutKeeps ==
  ASSUME NEW c \in Seq(LineType), NEW w \in Nat, NEW k, NEW kind, Numbered(c, k, w, kind),
         NEW d \in Seq(LineType), Len(d) <= Len(c), \A i \in 1..Len(d) : d[i] = c[i],
         NEW m, NEW cutoff
  PROVE  /\ \A scan \in ScanType : ScanFits(scan) /\ Reading(c, k, w, m, kind, cutoff, scan)
                                     => Reading(d, k, w, m, kind, TRUE, scan)
         /\ \A pos \in Position : Between(c, k, m, kind, cutoff, pos) => Between(d, k, m, kind, TRUE, pos)
  <1>1. Len(c) \in Nat /\ Len(d) \in Nat
    OBVIOUS
  <1>2. \A s : \A n \in 0..Len(d) : Exact(c, k, m, kind, n, s) => Exact(d, k, m, kind, n, s)
    BY PrefixNumbered
  <1>3. ASSUME NEW scan \in ScanType, ScanFits(scan), Reading(c, k, w, m, kind, cutoff, scan)
        PROVE  Reading(d, k, w, m, kind, TRUE, scan)
    <2>1. Len(scan.lines) \in Nat /\ scan.offset \in Nat /\ Len(scan.lines) <= scan.offset
      BY <1>3, ScanNumbers
    <2>2. CASE Len(d) < scan.offset
      BY <1>3, <2>2 DEF Reading
    <2>3. CASE ~(Len(d) < scan.offset)
      <3>1. ~(Len(c) < scan.offset) /\ scan.offset - Len(scan.lines) \in 0..Len(d)
        BY <1>1, <2>1, <2>3
      <3>2. Exact(c, k, m, kind, scan.offset - Len(scan.lines), scan.seq)
        BY <1>3, <3>1 DEF Reading
      <3>3. Exact(d, k, m, kind, scan.offset - Len(scan.lines), scan.seq)
        BY <1>2, <3>1, <3>2
      <3> QED BY <1>3, <2>3, <3>3 DEF Reading
    <2> QED BY <2>2, <2>3
  <1>4. ASSUME NEW pos \in Position, Between(c, k, m, kind, cutoff, pos)
        PROVE  Between(d, k, m, kind, TRUE, pos)
    <2>1. pos.offset \in Nat
      BY ObserverAssumption DEF Position
    <2>2. CASE kind = "array" \/ Len(d) < pos.offset
      BY <2>2 DEF Between
    <2>3. CASE kind # "array" /\ ~(Len(d) < pos.offset)
      <3>1. ~(Len(c) < pos.offset) /\ pos.offset \in 0..Len(d)
        BY <1>1, <2>1, <2>3
      <3> QED BY <1>2, <1>4, <2>3, <3>1 DEF Between
    <2> QED BY <2>2, <2>3
  <1> QED BY <1>3, <1>4

\* A scan begins where the session stands, or at the start of the file.
LEMMA BeginReading ==
  ASSUME NEW c \in Seq(LineType), NEW w \in Nat, NEW k, NEW kind, Numbered(c, k, w, kind),
         NEW m, NEW cutoff, NEW scan \in ScanType,
         NEW n \in 0..Len(c), scan.offset \in n..Len(c), Len(scan.lines) = scan.offset - n,
         \A i \in 1..Len(scan.lines) : scan.lines[i] = c[n + i],
         Exact(c, k, m, kind, n, scan.seq)
  PROVE  Reading(c, k, w, m, kind, cutoff, scan)
  <1> DEFINE l == scan.lines
  <1>1. l \in Seq(LineType) /\ Len(l) \in Nat /\ Len(c) \in Nat /\ n \in Nat /\ scan.offset \in Nat
    BY ObserverAssumption DEF ScanType
  <1> HIDE DEF l
  <1>2. n + Len(l) <= Len(c) /\ scan.offset - Len(l) = n /\ ~(Len(c) < scan.offset)
    BY <1>1 DEF l
  <1>3. \A i \in 1..Len(l) : l[i] = c[n + i] /\ n + i \in 1..Len(c)
    BY <1>1, <1>2 DEF l
  <1>4. Numbers(l, k)
    <2> SUFFICES ASSUME NEW i \in 2..Len(l)
                 PROVE  /\ l[i].kind # "meta"
                        /\ l[i].kind = "answer" => l[i - 1].kind # "meta"
                        /\ k[l[i].id] = IF l[i].kind = "answer" /\ l[i - 1].kind = "prompt"
                                        THEN k[l[i - 1].id] + 1 ELSE k[l[i - 1].id]
      BY DEF Numbers
    <2>1. i \in 1..Len(l) /\ i - 1 \in 1..Len(l) /\ n + i \in 2..Len(c) /\ n + (i - 1) = (n + i) - 1
      BY <1>1, <1>2
    <2>2. l[i] = c[n + i] /\ l[i - 1] = c[(n + i) - 1]
      <3>1. l[i] = c[n + i] /\ l[i - 1] = c[n + (i - 1)]
        BY <1>3, <2>1
      <3>2. c[n + (i - 1)] = c[(n + i) - 1]
        BY <2>1
      <3> QED BY <3>1, <3>2
    <2>3. Numbers(c, k)
      BY DEF Numbered
    <2> HIDE DEF Numbers
    <2>4. /\ c[n + i].kind # "meta"
          /\ c[n + i].kind = "answer" => c[(n + i) - 1].kind # "meta"
          /\ k[c[n + i].id] = IF c[n + i].kind = "answer" /\ c[(n + i) - 1].kind = "prompt"
                               THEN k[c[(n + i) - 1].id] + 1 ELSE k[c[(n + i) - 1].id]
      BY <2>1, <2>3 DEF Numbers
    <2> QED BY <2>2, <2>4
  <1>5. \A i \in 1..Len(l) : l[i].id <= w
    BY <1>3 DEF Numbered
  <1>6. ASSUME l # <<>>
        PROVE  /\ k[l[1].id] = IF l[1].kind = "answer" /\ m.prompt # 0 THEN scan.seq + 1 ELSE scan.seq
               /\ l[1].kind # "meta" => Knows(m, kind)
    <2>1. 1 \in 1..Len(l)
      BY <1>1, <1>6
    <2>2. l[1] = c[n + 1] /\ n + 1 \in 1..Len(c)
      BY <1>3, <2>1
    <2>3. CASE n = 0
      <3>1. /\ c[1].kind # "answer" /\ k[c[1].id] = 0 /\ (kind = "codex" => c[1].kind = "meta") /\ k[0] = 0
        BY <1>1, <2>2, <2>3 DEF Numbered
      <3>2. scan.seq = 0
        BY <2>3, <3>1 DEF Exact, IdAt
      <3>3. l[1] = c[1]
        BY <2>2, <2>3
      <3> QED BY <3>1, <3>2, <3>3 DEF Knows
    <2>4. CASE n # 0
      <3>1. n + 1 \in 2..Len(c) /\ (n + 1) - 1 = n
        BY <1>1, <2>2, <2>4
      <3>2. /\ c[n + 1].kind = "answer" => c[n].kind # "meta"
            /\ k[c[n + 1].id] = IF c[n + 1].kind = "answer" /\ c[n].kind = "prompt"
                                 THEN k[c[n].id] + 1 ELSE k[c[n].id]
        BY <3>1 DEF Numbered, Numbers
      <3>3. n > 0 /\ scan.seq = k[c[n].id]
        BY <1>1, <2>4 DEF Exact, IdAt
      <3>4. Knows(m, kind) /\ (c[n].kind # "meta" => (m.prompt # 0 <=> c[n].kind = "prompt"))
        BY <3>3 DEF Exact
      <3> QED BY <2>2, <3>2, <3>3, <3>4
    <2> QED BY <2>3, <2>4
  <1> QED BY <1>2, <1>4, <1>5, <1>6 DEF Reading, l

\* A scan's lines are the file's, where it was not cut.
Lies(c, scan) ==
    ~(Len(c) < scan.offset) =>
        \A i \in 1..Len(scan.lines) : scan.lines[i] = c[(scan.offset - Len(scan.lines)) + i]

\* What a line makes of the memory m and the number s of its session.
Moves(kind, line, m, s, p, t) ==
    \/ line.kind = "meta" /\ t = s /\ p.known /\ p.prompt = m.prompt
    \/ line.kind = "prompt" /\ t = s /\ p.known = m.known /\ p.prompt = line.id
    \/ line.kind = "answer" /\ m.prompt # 0 /\ t = s + 1 /\ p.known = m.known /\ p.prompt = 0
    \/ /\ (kind = "codex" /\ ~m.known /\ line.kind # "meta") \/ (m.prompt = 0 /\ line.kind = "answer")
       /\ t = s /\ p = m

\* A line of a scan leaves the session where it now stands, and a pair that is recorded
\* has the number k gives it.
LEMMA ReadingOn ==
  ASSUME NEW c \in Seq(LineType), NEW w \in Nat, NEW k, NEW kind,
         NEW m \in Memory, NEW cutoff, NEW scan \in ScanType, ScanFits(scan), scan.lines # <<>>,
         Reading(c, k, w, m, kind, cutoff, scan),
         Lies(c, scan), NEW line, line = Head(scan.lines),
         NEW next \in ScanType, next.lines = Tail(scan.lines), next.offset = scan.offset,
         NEW p \in Memory,
         Moves(kind, line, m, scan.seq, p, next.seq)
  PROVE  /\ Reading(c, k, w, p, kind, cutoff, next)
         /\ next.seq = k[line.id] /\ line.id <= w
  <1> DEFINE l == scan.lines
             t == next.lines
             at == scan.offset - Len(l)
  <1>1. /\ l \in Seq(LineType) /\ Len(l) \in Nat \ {0} /\ scan.offset \in Nat /\ Len(l) <= scan.offset
        /\ Len(c) \in Nat
    <2>1. l \in Seq(LineType) /\ Len(l) \in Nat /\ scan.offset \in Nat /\ Len(l) <= scan.offset
      BY ScanNumbers
    <2> QED BY <2>1
  <1>2. /\ t \in Seq(LineType) /\ Len(t) = Len(l) - 1 /\ \A i \in 1..Len(t) : t[i] = l[i + 1]
        /\ line = l[1] /\ line \in LineType
    BY <1>1
  <1>3. /\ Numbers(l, k) /\ \A i \in 1..Len(l) : l[i].id <= w
        /\ k[line.id] = IF line.kind = "answer" /\ m.prompt # 0 THEN scan.seq + 1 ELSE scan.seq
        /\ line.kind # "meta" => Knows(m, kind)
        /\ IF Len(c) < scan.offset THEN cutoff ELSE Exact(c, k, m, kind, at, scan.seq)
    BY <1>2 DEF Reading
  <1>4. /\ next.seq = k[line.id] /\ Knows(p, kind)
        /\ line.kind # "meta" => (p.prompt # 0 <=> line.kind = "prompt")
    <2>1. line.kind \in {"meta", "prompt", "answer"} /\ (line.kind = "prompt" => line.id # 0)
      BY <1>2, ObserverAssumption DEF LineType, Kinds
    <2> QED BY <1>3, <2>1 DEF Knows, Moves
  <1> HIDE DEF l, t, at
  <1>5. Numbers(t, k)
    <2> SUFFICES ASSUME NEW i \in 2..Len(t)
                 PROVE  /\ t[i].kind # "meta"
                        /\ t[i].kind = "answer" => t[i - 1].kind # "meta"
                        /\ k[t[i].id] = IF t[i].kind = "answer" /\ t[i - 1].kind = "prompt"
                                        THEN k[t[i - 1].id] + 1 ELSE k[t[i - 1].id]
      BY DEF Numbers
    <2>1. i + 1 \in 2..Len(l) /\ (i + 1) - 1 = i /\ i \in 1..Len(t) /\ i - 1 \in 1..Len(t) /\ (i - 1) + 1 = i
      BY <1>1, <1>2
    <2>2. t[i] = l[i + 1] /\ t[i - 1] = l[i]
      <3>1. t[i - 1] = l[(i - 1) + 1] /\ t[i] = l[i + 1]
        BY <1>2, <2>1
      <3> QED BY <2>1, <3>1
    <2>3. /\ l[i + 1].kind # "meta"
          /\ l[i + 1].kind = "answer" => l[i].kind # "meta"
          /\ k[l[i + 1].id] = IF l[i + 1].kind = "answer" /\ l[i].kind = "prompt"
                               THEN k[l[i].id] + 1 ELSE k[l[i].id]
      BY <1>3, <2>1 DEF Numbers
    <2> QED BY <2>2, <2>3
  <1>6. \A i \in 1..Len(t) : t[i].id <= w
    <2> SUFFICES ASSUME NEW i \in 1..Len(t) PROVE t[i].id <= w
      OBVIOUS
    <2>1. i + 1 \in 1..Len(l) /\ t[i] = l[i + 1]
      BY <1>1, <1>2
    <2> QED BY <1>3, <2>1
  <1>7. ASSUME t # <<>>
        PROVE  /\ k[t[1].id] = IF t[1].kind = "answer" /\ p.prompt # 0 THEN next.seq + 1 ELSE next.seq
               /\ t[1].kind # "meta" => Knows(p, kind)
    <2>1. 1 \in 1..Len(t) /\ 1 + 1 = 2 /\ 2 \in 2..Len(l) /\ 2 - 1 = 1
      BY <1>1, <1>2, <1>7
    <2>2. t[1] = l[2]
      BY <1>2, <2>1
    <2>3. /\ l[2].kind = "answer" => l[1].kind # "meta"
          /\ k[l[2].id] = IF l[2].kind = "answer" /\ l[1].kind = "prompt"
                          THEN k[l[1].id] + 1 ELSE k[l[1].id]
      BY <1>3, <2>1 DEF Numbers
    <2> QED BY <1>2, <1>4, <2>2, <2>3
  <1>8. Reading(c, k, w, p, kind, cutoff, next)
    <2>1. CASE Len(c) < scan.offset
      BY <1>2, <1>3, <1>4, <1>5, <1>6, <1>7, <2>1 DEF Reading, t, l
    <2>2. CASE ~(Len(c) < scan.offset)
      <3>1. at + 1 \in 1..Len(c) /\ next.offset - Len(t) = at + 1 /\ 1 \in 1..Len(l)
        BY <1>1, <1>2, <2>2 DEF at
      <3>2. c[at + 1] = line
        BY <1>2, <2>2, <3>1 DEF at, l, Lies
      <3>3. Exact(c, k, p, kind, at + 1, next.seq)
        <4>1. at + 1 # 0
          BY <3>1
        <4> QED BY <1>4, <3>2, <4>1 DEF Exact, IdAt
      <3> QED BY <1>5, <1>6, <1>7, <2>2, <3>1, <3>3 DEF Reading, t
    <2> QED BY <2>1, <2>2
  <1>9. line.id <= w
    BY <1>1, <1>2, <1>3
  <1> QED BY <1>4, <1>8, <1>9

-----------------------------------------------------------------------------
(* Nobody dies *)

Settled(o, f, k) ==
    IF f \in obs[o].scan.file
    THEN Reading(content[f], k, written[f], obs[o].memory[f], format[f], unseen[f], obs[o].scan)
    ELSE Between(content[f], k, obs[o].memory[f], format[f], unseen[f], watcher[f])

\* A row has the number of its answer.
Told(f, k) == \A n \in DOMAIN rows[f] : k[rows[f][n][2]] = n /\ rows[f][n][2] <= written[f]

Counted(f, k) ==
    /\ \A i \in Nat : k[i] \in Nat
    /\ Numbered(content[f], k, written[f], format[f])
    /\ Told(f, k)
    /\ \A o \in Observers : Settled(o, f, k)

\* A file of which nothing changed is counted as before.
LEMMA CountedSame ==
  ASSUME NEW f \in Files, NEW k, Counted(f, k),
         content'[f] = content[f], format' = format, written'[f] = written[f], rows'[f] = rows[f],
         unseen'[f] = unseen[f], watcher'[f] = watcher[f],
         \A o \in Observers : obs'[o].memory[f] = obs[o].memory[f] /\
             (obs'[o].scan = obs[o].scan \/ (f \notin obs[o].scan.file /\ f \notin obs'[o].scan.file))
  PROVE  Counted(f, k)'
  <1>1. \A o \in Observers : Settled(o, f, k)'
    <2> SUFFICES ASSUME NEW o \in Observers PROVE Settled(o, f, k)'
      OBVIOUS
    <2>1. Settled(o, f, k)
      BY DEF Counted
    <2> QED BY <2>1 DEF Settled
  <1>2. Told(f, k)'
    BY DEF Counted, Told
  <1> QED BY <1>1, <1>2 DEF Counted

LEMMA CountedInit ==
  ASSUME Init, NEW f \in Files, NEW k, \A i \in Nat : k[i] = 0
  PROVE  Counted(f, k)
  <1>1. \A o \in Observers : obs[o].scan = NoScan /\ obs[o].memory[f] = NoPair
    BY DEF Init, Down
  <1>2. content[f] = <<>> /\ rows[f] = <<>> /\ watcher[f] = [offset |-> 0, seq |-> 0] /\ written[f] = 0
    BY DEF Init
  <1>3. Len(<<>>) = 0 /\ DOMAIN <<>> = {} /\ k[0] = 0 /\ \A i \in Nat : k[i] \in Nat
    OBVIOUS
  <1>4. Numbered(content[f], k, written[f], format[f])
    BY <1>2, <1>3 DEF Numbered, Numbers
  <1>5. \A o \in Observers : Settled(o, f, k)
    BY <1>1, <1>2, <1>3 DEF Settled, NoScan, Between, Exact, IdAt
  <1> QED BY <1>2, <1>3, <1>4, <1>5 DEF Counted, Told

\* The line a command line writes can be numbered.
LEMMA WritableNext ==
  ASSUME Types, NEW f \in Files, NEW k, Numbered(content[f], k, written[f], format[f]),
         NEW line \in LineType, line.kind \in Writable(f)
  PROVE  LET c == content[f]
         IN  /\ Len(c) = 0 => line.kind # "answer" /\ (format[f] = "codex" => line.kind = "meta")
             /\ Len(c) > 0 => line.kind # "meta" /\ (line.kind = "answer" => c[Len(c)].kind # "meta")
  <1> DEFINE c == content[f]
  <1>1. c \in Seq(LineType) /\ Len(c) \in Nat /\ DOMAIN c = 1..Len(c)
    BY DEF Types, FileTypes
  <1>2. ASSUME Len(c) = 0
        PROVE  line.kind # "answer" /\ (format[f] = "codex" => line.kind = "meta")
    <2>1. c = <<>> /\ Spoken(f) = {}
      BY <1>1, <1>2 DEF Spoken
    <2> QED BY <2>1 DEF Writable
  <1>3. ASSUME Len(c) > 0
        PROVE  line.kind # "meta" /\ (line.kind = "answer" => c[Len(c)].kind # "meta")
    <2>1. c # <<>>
      BY <1>1, <1>3
    <2>2. line.kind # "meta" /\ (line.kind = "answer" => Spoken(f) # {})
      BY <2>1 DEF Writable
    <2>3. ASSUME Spoken(f) # {} PROVE c[Len(c)].kind # "meta"
      <3>1. CASE Len(c) = 1
        BY <1>1, <2>3, <3>1 DEF Spoken
      <3>2. CASE Len(c) # 1
        <4>1. Len(c) \in 2..Len(c)
          <5> HIDE DEF c
          <5> QED BY <1>1, <1>3, <3>2
        <4> QED BY <4>1 DEF Numbered, Numbers
      <3> QED BY <3>1, <3>2
    <2> QED BY <2>2, <2>3
  <1> QED BY <1>2, <1>3

LEMMA FinishLineCounted ==
  ASSUME Types, Truth, NEW f \in Files, FinishLine(f), NEW k, Counted(f, k),
         format[f] = "array" \/ \A o \in Observers : obs[o].up
  PROVE  \E h : (\A i \in 0..written[f] : h[i] = k[i]) /\ Counted(f, h)'
  <1>1. PICK line \in LineType :
           /\ line.id = written[f] + 1 /\ line.kind \in Writable(f)
           /\ content' = [content EXCEPT ![f] = Append(@, line)]
    BY FinishLineFile DEF Types
  <1> DEFINE c == content[f]
             w == written[f]
  <1>2. /\ c \in Seq(LineType) /\ w \in Nat /\ content'[f] = Append(c, line) /\ written'[f] = w + 1
    BY <1>1, ObserverAssumption DEF Types, FileTypes, FinishLine
  <1>3. \A o \in Observers : obs'[o].scan = obs[o].scan /\ obs'[o].memory = obs[o].memory
    BY NotifyType DEF Types, FinishLine
  <1>4. UNCHANGED <<unseen, watcher, format, rows>>
    BY DEF FinishLine, store
  <1>5. Numbered(c, k, w, format[f]) /\ (\A i \in Nat : k[i] \in Nat) /\ Told(f, k)
    BY DEF Counted
  <1>6. PICK h : /\ \A i \in Nat : h[i] \in Nat
                 /\ \A i \in 0..w : h[i] = k[i]
                 /\ Numbered(Append(c, line), h, w + 1, format[f])
    <2>1. /\ Len(c) = 0 => line.kind # "answer" /\ (format[f] = "codex" => line.kind = "meta")
          /\ Len(c) > 0 => line.kind # "meta" /\ (line.kind = "answer" => c[Len(c)].kind # "meta")
      BY <1>1, <1>5, WritableNext
    <2> HIDE DEF c, w
    <2> QED BY <1>1, <1>2, <1>5, <2>1, AppendNumbered, SMTT(30) DEF w
  <1>7. Told(f, h)'
    <2> SUFFICES ASSUME NEW n \in DOMAIN rows[f]
                 PROVE  h[rows[f][n][2]] = n /\ rows[f][n][2] <= w + 1
      BY <1>2, <1>4 DEF Told
    <2>1. rows[f][n] \in Pairs
      BY DEF Types, StoreTypes, IsTable
    <2>2. rows[f][n][2] \in Nat /\ k[rows[f][n][2]] = n /\ rows[f][n][2] <= w
      BY <1>5, <2>1, ObserverAssumption DEF Told, Pairs
    <2> QED BY <1>2, <1>6, <2>2
  <1>8. ASSUME NEW o \in Observers
        PROVE  Settled(o, f, h)'
    <2>1. CASE ~obs[o].up
      <3>1. obs[o].scan = NoScan /\ format[f] = "array"
        BY <2>1 DEF Truth, Remembered
      <3> QED BY <1>3, <1>4, <3>1 DEF Settled, Between, NoScan
    <2>2. CASE obs[o].up
      <3>1. Settled(o, f, k) /\ unseen[f] = FALSE
        BY <2>2 DEF Counted, FinishLine, MayWrite, Types, FileTypes
      <3>2. obs[o].scan \in ScanType /\ ScanFits(obs[o].scan) /\ watcher[f] \in Position
        BY DEF Types, ObserverTypes, Observer, StoreTypes
      <3>3. CASE f \in obs[o].scan.file
        <4>1. Reading(c, k, w, obs[o].memory[f], format[f], FALSE, obs[o].scan)
          BY <3>1, <3>3 DEF Settled
        <4>2. Reading(Append(c, line), h, w + 1, obs[o].memory[f], format[f], FALSE, obs[o].scan)
          BY <1>2, <1>5, <1>6, <3>2, <4>1, AppendReading
        <4> QED BY <1>2, <1>3, <1>4, <3>1, <3>3, <4>2 DEF Settled
      <3>4. CASE f \notin obs[o].scan.file
        <4>1. Between(c, k, obs[o].memory[f], format[f], FALSE, watcher[f])
          BY <3>1, <3>4 DEF Settled
        <4>2. Between(Append(c, line), h, obs[o].memory[f], format[f], FALSE, watcher[f])
          BY <1>2, <1>5, <1>6, <3>2, <4>1, AppendBetween
        <4> QED BY <1>2, <1>3, <1>4, <3>1, <3>4, <4>2 DEF Settled
      <3> QED BY <3>3, <3>4
    <2> QED BY <2>1, <2>2
  <1>9. Counted(f, h)'
    BY <1>2, <1>4, <1>6, <1>7, <1>8 DEF Counted
  <1> QED BY <1>6, <1>9

LEMMA RewindCounted ==
  ASSUME Types, NEW f \in Files, Rewind(f), NEW k, Counted(f, k)
  PROVE  Counted(f, k)'
  <1>1. PICK kept \in 0..(Len(content[f]) - 1) : content' = [content EXCEPT ![f] = SubSeq(@, 1, kept)]
    BY DEF Rewind
  <1> DEFINE c == content[f]
             d == SubSeq(c, 1, kept)
  <1>2. /\ c \in Seq(LineType) /\ content'[f] = d /\ written[f] \in Nat
        /\ d \in Seq(LineType) /\ Len(d) <= Len(c) /\ \A i \in 1..Len(d) : d[i] = c[i]
    <2>1. c \in Seq(LineType) /\ content'[f] = d /\ written[f] \in Nat /\ Len(c) \in Nat
      BY <1>1, ObserverAssumption DEF Types, FileTypes
    <2>2. d \in Seq(LineType) /\ Len(d) = kept /\ \A i \in 1..kept : d[i] = c[i]
      BY <2>1, SubSeqProperties
    <2> QED BY <2>1, <2>2
  <1>3. unseen'[f] = TRUE /\ UNCHANGED <<watcher, format, rows, written>>
    BY DEF Types, FileTypes, Rewind, store
  <1>4. \A o \in Observers : obs'[o].scan = obs[o].scan /\ obs'[o].memory = obs[o].memory
    BY NotifyType DEF Types, Rewind
  <1>5. Numbered(c, k, written[f], format[f])
    BY DEF Counted
  <1>6. Numbered(d, k, written[f], format[f])
    BY <1>2, <1>5, PrefixNumbered
  <1>7. ASSUME NEW o \in Observers
        PROVE  Settled(o, f, k)'
    <2>1. Settled(o, f, k)
      BY DEF Counted
    <2>2. obs[o].scan \in ScanType /\ ScanFits(obs[o].scan) /\ watcher[f] \in Position
      BY DEF Types, ObserverTypes, Observer, StoreTypes
    <2>3. /\ Reading(c, k, written[f], obs[o].memory[f], format[f], unseen[f], obs[o].scan)
               => Reading(d, k, written[f], obs[o].memory[f], format[f], TRUE, obs[o].scan)
          /\ Between(c, k, obs[o].memory[f], format[f], unseen[f], watcher[f])
               => Between(d, k, obs[o].memory[f], format[f], TRUE, watcher[f])
      <3> DEFINE m == obs[o].memory[f]
                 u == unseen[f]
                 w == written[f]
                 kind == format[f]
      <3> HIDE DEF d, c, m, u, w, kind
      <3>1. /\ \A scan \in ScanType : ScanFits(scan) /\ Reading(c, k, w, m, kind, u, scan)
                                     => Reading(d, k, w, m, kind, TRUE, scan)
            /\ \A pos \in Position : Between(c, k, m, kind, u, pos) => Between(d, k, m, kind, TRUE, pos)
        BY <1>2, <1>5, CutKeeps DEF w, kind
      <3> QED BY <2>2, <3>1 DEF m, u, w, kind, c
    <2> QED BY <1>2, <1>3, <1>4, <2>1, <2>3 DEF Settled
  <1>8. Told(f, k)'
    BY <1>3 DEF Counted, Told
  <1> QED BY <1>2, <1>3, <1>6, <1>7, <1>8 DEF Counted

\* With one observer, what it knows of a file is all that is known.
LEMMA AloneCounted ==
  ASSUME One, NEW o \in Observers, NEW f \in Files, NEW k, \A i \in Nat : k[i] \in Nat,
         Numbered(content'[f], k, written'[f], format'[f]), Told(f, k)', Settled(o, f, k)'
  PROVE  Counted(f, k)'
  <1>1. \A p \in Observers : p = o
    BY DEF One
  <1>2. \A p \in Observers : Settled(p, f, k)'
    BY <1>1
  <1> QED BY <1>2 DEF Counted

LEMMA LoadCounted ==
  ASSUME One, Types, NEW o \in Observers, NEW f \in Files, Load(o, f),
         NEW g \in Files, NEW k, Counted(g, k)
  PROVE  Counted(g, k)'
  <1>1. PICK scan \in ScanType : Loaded(o, f, scan)
    BY LoadEffect
  <1>2. obs'[o].scan = scan /\ obs'[o].memory = obs[o].memory /\ obs[o].scan = NoScan
    BY <1>1 DEF Loaded, Types, ObserverTypes, Observer, Load, Idle
  <1>3. UNCHANGED <<format, content, written, watcher, rows>> /\ \A x \in Files \ {f} : unseen'[x] = unseen[x]
    BY DEF Load, store, Types, FileTypes
  <1>4. Between(content[g], k, obs[o].memory[g], format[g], unseen[g], watcher[g])
    BY <1>2 DEF Counted, Settled, NoScan
  <1>5. Numbered(content[g], k, written[g], format[g]) /\ Told(g, k) /\ \A i \in Nat : k[i] \in Nat
    BY DEF Counted
  <1>6. CASE NothingNew(f) /\ scan = NoScan
    <2>1. Between(content[g], k, obs[o].memory[g], format[g], unseen'[g], watcher[g])
      <3>1. content[g] \in Seq(LineType) /\ watcher[g] \in Position
        BY DEF Types, FileTypes, StoreTypes
      <3>2. g = f => format[g] = "array" \/ ~(Len(content[g]) < watcher[g].offset)
        BY <1>6, <3>1, ObserverAssumption DEF NothingNew, Position
      <3> QED BY <1>3, <1>4, <3>2 DEF Between
    <2>2. Settled(o, g, k)'
      BY <1>2, <1>3, <1>6, <2>1 DEF Settled, NoScan
    <2> QED BY <1>3, <1>5, <2>2, AloneCounted DEF Told
  <1>7. CASE /\ scan.file = {f} /\ scan.lines = Batch(f).lines
             /\ scan.offset = Batch(f).offset /\ scan.seq = Batch(f).seq
    <2>1. CASE g # f
      <3>1. Settled(o, g, k)'
        BY <1>2, <1>3, <1>4, <1>7, <2>1 DEF Settled
      <3> QED BY <1>3, <1>5, <3>1, AloneCounted DEF Told
    <2>2. CASE g = f
      <3> DEFINE c == content[f]
      <3>1. PICK n \in 0..Len(c) : ReadsFrom(f, n)
        BY BatchType DEF Types
      <3>2. /\ c \in Seq(LineType) /\ written[f] \in Nat /\ watcher[f] \in Position
            /\ scan.offset \in n..Len(c) /\ Len(scan.lines) = scan.offset - n
            /\ \A i \in 1..Len(scan.lines) : scan.lines[i] = c[n + i]
            /\ scan.seq \in Nat /\ scan.seq <= n
            /\ n = 0 \/ (n = watcher[f].offset /\ scan.seq = watcher[f].seq /\ format[f] # "array")
        BY <1>7, <3>1, ObserverAssumption DEF Types, FileTypes, StoreTypes, ReadsFrom
      <3>3. Exact(c, k, obs[o].memory[f], format[f], n, scan.seq)
        <4>1. CASE n = 0
          <5>1. scan.seq = 0
            BY <3>2, <4>1
          <5>2. k[0] = 0
            BY <1>5 DEF Numbered
          <5> QED BY <4>1, <5>1, <5>2, <2>2 DEF Exact, IdAt
        <4>2. CASE n = watcher[f].offset /\ scan.seq = watcher[f].seq /\ format[f] # "array"
          <5>1. ~(Len(c) < watcher[f].offset)
            BY <3>1, <3>2, <4>2
          <5> QED BY <1>4, <2>2, <4>2, <5>1 DEF Between
        <4> QED BY <3>2, <4>1, <4>2
      <3>4. Numbered(c, k, written[f], format[f])
        BY <1>5, <2>2
      <3>5. Reading(c, k, written[f], obs[o].memory[f], format[f], unseen'[f], scan)
        <4> HIDE DEF c
        <4> QED BY <3>2, <3>3, <3>4, BeginReading
      <3>6. Settled(o, f, k)'
        BY <1>2, <1>3, <1>7, <3>5 DEF Settled
      <3> QED BY <1>3, <1>5, <2>2, <3>6, AloneCounted DEF Told
    <2> QED BY <2>1, <2>2
  <1> QED BY <1>1, <1>6, <1>7 DEF Loaded

LEMMA LoadGoneCounted ==
  ASSUME One, Types, NEW o \in Observers, NEW f \in Files, LoadGone(o, f),
         NEW g \in Files, NEW k, Counted(g, k)
  PROVE  Counted(g, k)'
  <1>1. obs'[o].scan = obs[o].scan /\ obs'[o].memory = obs[o].memory /\ obs[o].scan = NoScan
    BY DEF LoadGone, Types, ObserverTypes, Observer, Idle
  <1>2. UNCHANGED <<format, content, written, rows>> /\ content[f] = <<>>
        /\ watcher'[f].offset = 0 /\ watcher'[f].seq = 0
        /\ \A x \in Files \ {f} : unseen'[x] = unseen[x] /\ watcher'[x] = watcher[x]
    BY DEF LoadGone, Types, FileTypes, StoreTypes
  <1>3. Between(content[g], k, obs[o].memory[g], format[g], unseen[g], watcher[g])
    BY <1>1 DEF Counted, Settled, NoScan
  <1>4. Numbered(content[g], k, written[g], format[g]) /\ Told(g, k) /\ \A i \in Nat : k[i] \in Nat
    BY DEF Counted
  <1>5. Between(content[g], k, obs[o].memory[g], format[g], unseen'[g], watcher'[g])
    <2>1. CASE g # f
      BY <1>2, <1>3, <2>1
    <2>2. CASE g = f
      <3>1. Len(content[g]) = 0 /\ k[0] = 0
        BY <1>2, <1>4, <2>2 DEF Numbered
      <3> QED BY <1>2, <2>2, <3>1 DEF Between, Exact, IdAt
    <2> QED BY <2>1, <2>2
  <1>6. Settled(o, g, k)'
    BY <1>1, <1>2, <1>5 DEF Settled, NoScan
  <1> QED BY <1>2, <1>4, <1>6, AloneCounted DEF Told

LEMMA CollectCounted ==
  ASSUME One, Types, NEW o \in Observers, Collect(o), NEW g \in Files, NEW k, Counted(g, k)
  PROVE  Counted(g, k)'
  <1>1. /\ obs'[o].scan = NoScan /\ obs[o].scan = NoScan
        /\ obs'[o].memory[g] = obs[o].memory[g] \/ content[g] = <<>>
    BY DEF Collect, Types, ObserverTypes, Observer, Idle
  <1>2. UNCHANGED <<format, content, written, rows, watcher, unseen>>
    BY DEF Collect, file, store
  <1>3. Between(content[g], k, obs[o].memory[g], format[g], unseen[g], watcher[g])
    BY <1>1 DEF Counted, Settled, NoScan
  <1>4. Numbered(content[g], k, written[g], format[g]) /\ Told(g, k) /\ \A i \in Nat : k[i] \in Nat
    BY DEF Counted
  <1>5. Between(content[g], k, obs'[o].memory[g], format[g], unseen[g], watcher[g])
    <2>1. CASE content[g] = <<>>
      <3>1. Len(content[g]) = 0 /\ watcher[g].offset \in Nat
        BY <2>1, ObserverAssumption DEF Types, StoreTypes, Position
      <3>2. Len(content[g]) < watcher[g].offset \/ watcher[g].offset = 0
        BY <3>1
      <3> QED BY <1>3, <3>1, <3>2 DEF Between, Exact
    <2> QED BY <1>1, <1>3, <2>1
  <1>6. Settled(o, g, k)'
    BY <1>1, <1>2, <1>5 DEF Settled, NoScan
  <1> QED BY <1>2, <1>4, <1>6, AloneCounted DEF Told

LEMMA SaveCounted ==
  ASSUME One, Types, NEW o \in Observers, Save(o), NEW g \in Files, NEW k, Counted(g, k)
  PROVE  Counted(g, k)'
  <1>1. /\ obs'[o].scan = NoScan /\ obs'[o].memory = obs[o].memory
        /\ obs[o].scan # NoScan /\ obs[o].scan.lines = <<>> /\ obs[o].scan \in ScanType
        /\ ScanFits(obs[o].scan)
    BY DEF Save, Types, ObserverTypes, Observer
  <1>2. PICK f \in Files : obs[o].scan.file = {f}
    BY <1>1 DEF ScanFits
  <1>3. /\ UNCHANGED <<format, content, written, rows, unseen>>
        /\ watcher'[f].offset = obs[o].scan.offset /\ watcher'[f].seq = obs[o].scan.seq
        /\ \A x \in Files \ {f} : watcher'[x] = watcher[x]
    BY <1>2 DEF Save, file, Types, StoreTypes
  <1>4. Settled(o, g, k) /\ Numbered(content[g], k, written[g], format[g]) /\ Told(g, k)
        /\ \A i \in Nat : k[i] \in Nat
    BY DEF Counted
  <1>5. Between(content[g], k, obs[o].memory[g], format[g], unseen[g], watcher'[g])
    <2>1. CASE g # f
      BY <1>2, <1>3, <1>4, <2>1 DEF Settled
    <2>2. CASE g = f
      <3>1. Reading(content[f], k, written[f], obs[o].memory[f], format[f], unseen[f], obs[o].scan)
        BY <1>2, <1>4, <2>2 DEF Settled
      <3>2. obs[o].scan.offset - Len(obs[o].scan.lines) = obs[o].scan.offset
        BY <1>1, ScanNumbers
      <3> QED BY <1>3, <2>2, <3>1, <3>2 DEF Reading, Between
    <2> QED BY <2>1, <2>2
  <1>6. Settled(o, g, k)'
    BY <1>1, <1>3, <1>5 DEF Settled, NoScan
  <1> QED BY <1>3, <1>4, <1>6, AloneCounted DEF Told

\* A pair that is recorded gets the number k has for it.
LEMMA LineCounted ==
  ASSUME One, Types, Truth, NEW o \in Observers, Line(o), NEW g \in Files, NEW k, Counted(g, k)
  PROVE  /\ Counted(g, k)'
         /\ g \in obs[o].scan.file => obs'[o].scan.seq = k[Head(obs[o].scan.lines).id]
  <1>1. PICK f \in Files, n \in 0..MaxLines, m \in Memory : Heard(o, f, n, m)
    BY LineEffect
  <1> DEFINE scan == obs[o].scan
             next == obs'[o].scan
             line == Head(scan.lines)
             q == obs[o].memory[f].prompt
             c == content[f]
             w == written[f]
  <1>2. /\ UNCHANGED <<format, content, written, unseen, watcher>>
        /\ scan # NoScan /\ scan.lines # <<>> /\ scan.file = {f}
    BY <1>1 DEF Line, file, Heard
  <1>3. /\ scan \in ScanType /\ ScanFits(scan) /\ obs[o] \in Observer /\ obs \in [Observers -> Observer]
        /\ c \in Seq(LineType) /\ w \in Nat
    BY ObserverAssumption DEF Types, ObserverTypes, Observer, FileTypes
  <1>4. /\ next.file = {f} /\ next.offset = scan.offset /\ next.lines = Tail(scan.lines) /\ next.seq = n
        /\ next \in ScanType /\ obs'[o].memory[f] = m
        /\ \A x \in Files \ {f} : obs'[o].memory[x] = obs[o].memory[x]
    <2>1. obs'[o] = [obs[o] EXCEPT !.scan = [obs[o].scan EXCEPT !.lines = Tail(obs[o].scan.lines), !.seq = n],
                                   !.memory = [obs[o].memory EXCEPT ![f] = m]]
      BY <1>1, <1>3 DEF Heard
    <2>2. obs[o].memory \in [Files -> Memory]
      BY <1>3 DEF Observer
    <2>3. obs'[o].memory = [obs[o].memory EXCEPT ![f] = m]
          /\ next = [scan EXCEPT !.lines = Tail(scan.lines), !.seq = n]
      BY <1>3, <2>1 DEF Observer
    <2>4. Tail(scan.lines) \in Seq(LineType)
      BY <1>2, <1>3 DEF ScanType
    <2> QED BY <1>2, <1>3, <2>2, <2>3, <2>4 DEF ScanType
  <1>5. \A i \in Nat : k[i] \in Nat
    BY DEF Counted
  <1>6. CASE g # f
    <2>1. Settled(o, g, k)'
      BY <1>2, <1>4, <1>6 DEF Counted, Settled
    <2>2. rows'[g] = rows[g]
      <3>1. CASE rows' = rows
        BY <3>1
      <3>2. CASE rows' # rows
        BY <1>1, <1>6, <3>2 DEF Heard, Inserted, Types, StoreTypes
      <3> QED BY <3>1, <3>2
    <2>3. Counted(g, k)'
      BY <1>2, <1>5, <2>1, <2>2, AloneCounted DEF Counted, Told
    <2> QED BY <1>2, <1>6, <2>3
  <1>7. CASE g = f
    <2>1. /\ Reading(c, k, w, obs[o].memory[f], format[f], unseen[f], scan)
          /\ Numbered(c, k, w, format[f]) /\ Told(f, k)
      BY <1>2, <1>7 DEF Counted, Settled
    <2>2. Lies(c, scan)
      BY <1>2 DEF Truth, Followed, Scanned, Lies
    <2>3. obs[o].memory[f] \in Memory
      BY <1>3 DEF Observer
    <2>4. Moves(format[f], line, obs[o].memory[f], scan.seq, m, n)
      BY <1>1 DEF Heard, Moves
    <2>5. /\ Reading(c, k, w, m, format[f], unseen[f], next)
          /\ n = k[line.id] /\ line.id <= w
      <3> DEFINE p == obs[o].memory[f]
                 kind == format[f]
                 u == unseen[f]
      <3>1. /\ c \in Seq(LineType) /\ w \in Nat /\ p \in Memory /\ Numbered(c, k, w, kind)
            /\ scan \in ScanType /\ ScanFits(scan) /\ scan.lines # <<>> /\ line = Head(scan.lines)
            /\ Reading(c, k, w, p, kind, u, scan) /\ Lies(c, scan)
        BY <1>2, <1>3, <2>1, <2>2, <2>3
      <3>2. /\ next \in ScanType /\ next.lines = Tail(scan.lines) /\ next.offset = scan.offset
            /\ Moves(kind, line, p, scan.seq, m, next.seq)
        BY <1>4, <2>4
      <3> HIDE DEF p, kind, u, c, w, line, scan, next
      <3>3. Reading(c, k, w, m, kind, u, next)
        BY <3>1, <3>2, ReadingOn
      <3>4. next.seq = k[line.id] /\ line.id <= w
        BY <3>1, <3>2, <3>3, ReadingOn
      <3> QED BY <1>4, <3>3, <3>4 DEF kind, u
    <2>6. Settled(o, f, k)'
      BY <1>2, <1>4, <2>5 DEF Settled
    <2>7. Told(f, k)'
      <3>1. CASE rows' = rows
        BY <1>2, <2>1, <3>1 DEF Told
      <3>2. CASE rows' # rows
        <4>1. /\ line.kind = "answer" /\ q # 0 /\ n = scan.seq + 1
              /\ rows' = Inserted(f, n, <<q, line.id>>)
          BY <1>1, <3>2 DEF Heard
        <4>2. \A x \in DOMAIN rows'[f] :
                 (x \in DOMAIN rows[f] /\ rows'[f][x] = rows[f][x])
                 \/ (x = n /\ rows'[f][x] = <<q, line.id>>)
          BY <4>1 DEF Inserted, Types, StoreTypes
        <4>3. \A x \in DOMAIN rows'[f] : k[rows'[f][x][2]] = x /\ rows'[f][x][2] <= w
          <5> SUFFICES ASSUME NEW x \in DOMAIN rows'[f]
                       PROVE  k[rows'[f][x][2]] = x /\ rows'[f][x][2] <= w
            OBVIOUS
          <5>1. CASE x \in DOMAIN rows[f] /\ rows'[f][x] = rows[f][x]
            BY <2>1, <5>1 DEF Told
          <5>2. CASE x = n /\ rows'[f][x] = <<q, line.id>>
            <6>1. rows'[f][x][2] = line.id
              BY <5>2
            <6> QED BY <2>5, <4>1, <5>2, <6>1
          <5> QED BY <4>2, <5>1, <5>2
        <4> QED BY <1>2, <4>3 DEF Told
      <3> QED BY <3>1, <3>2
    <2>8. Counted(g, k)'
      BY <1>2, <1>5, <1>7, <2>1, <2>6, <2>7, AloneCounted
    <2> QED BY <1>4, <1>7, <2>5, <2>8
  <1> QED BY <1>6, <1>7

\* A document's observer that dies, or starts, need not know anything.
LEMMA ForgetCounted ==
  ASSUME One, NEW o \in Observers, NEW f \in Files, NEW k, Counted(f, k), format[f] = "array",
         UNCHANGED <<format, content, written, rows>>, obs'[o].scan = NoScan
  PROVE  Counted(f, k)'
  <1>1. Settled(o, f, k)'
    BY DEF Settled, Between, NoScan
  <1> QED BY <1>1, AloneCounted DEF Counted, Told

-----------------------------------------------------------------------------
(* What was said and what has a number *)

Said(f) == Cardinality(turns[f])

\* No line is numbered more than one on.
Slow(c, k) == \A i, j \in 0..Len(c) : i <= j => k[IdAt(c, j)] + i <= k[IdAt(c, i)] + j

\* Who has read to the offset and numbered to s has missed no more pairs than lines were
\* cut away and lines are left to read.
Covers(n, d, offset, s) == n + offset <= s + d
Reached(f, offset, s) == Covers(Said(f), cut[f] + Len(content[f]), offset, s)

Filled(f, s) == 1..s \subseteq DOMAIN rows[f]

\* the number at which a scan will end
Target(k, scan) == IF scan.lines = <<>> THEN scan.seq ELSE k[scan.lines[Len(scan.lines)].id]

Tallied(f, k) ==
    /\ Slow(content[f], k)
    /\ Said(f) <= k[IdAt(content[f], Len(content[f]))] + cut[f]
    /\ Filled(f, watcher[f].seq) /\ Reached(f, watcher[f].offset, watcher[f].seq)
    /\ \A o \in Observers : f \in obs[o].scan.file =>
         Filled(f, obs[o].scan.seq) /\ Reached(f, obs[o].scan.offset, Target(k, obs[o].scan))

LEMMA SaidType ==
  ASSUME Types, NEW f \in Files
  PROVE  IsFiniteSet(turns[f]) /\ Said(f) \in Nat /\ cut[f] \in Nat /\ Len(content[f]) \in Nat
  <1>1. IsFiniteSet(Pairs)
    <2>1. IsFiniteSet(1..MaxLines)
      BY FS_Interval, ObserverAssumption
    <2> QED BY <2>1, FS_Product DEF Pairs
  <1>2. turns[f] \subseteq Pairs /\ cut[f] \in Nat /\ Len(content[f]) \in Nat
    BY DEF Types, FileTypes
  <1>3. IsFiniteSet(turns[f])
    BY <1>1, <1>2, FS_Subset
  <1> QED BY <1>2, <1>3, FS_CardinalityType DEF Said

LEMMA TalliedInit ==
  ASSUME Init, NEW f \in Files, NEW k, \A i \in Nat : k[i] = 0
  PROVE  Tallied(f, k)
  <1>1. /\ content[f] = <<>> /\ rows[f] = <<>> /\ watcher[f] = [offset |-> 0, seq |-> 0]
        /\ turns[f] = {} /\ cut[f] = 0 /\ Len(<<>>) = 0
    BY DEF Init
  <1>2. \A o \in Observers : obs[o].scan = NoScan
    BY DEF Init, Down
  <1>3. Said(f) = 0 /\ k[0] = 0
    BY <1>1, FS_EmptySet DEF Said
  <1>4. Slow(content[f], k)
    BY <1>1 DEF Slow, IdAt
  <1>5. Filled(f, 0) /\ Reached(f, 0, 0)
    BY <1>1, <1>3 DEF Filled, Reached, Covers
  <1> QED BY <1>1, <1>2, <1>3, <1>4, <1>5 DEF Tallied, IdAt, NoScan

\* Rows are added, never taken back.
LEMMA TalliedSame ==
  ASSUME NEW f \in Files, NEW k, Tallied(f, k),
         content'[f] = content[f], turns'[f] = turns[f], cut'[f] = cut[f],
         DOMAIN rows[f] \subseteq DOMAIN rows'[f], watcher'[f] = watcher[f],
         \A o \in Observers : obs'[o].scan = obs[o].scan \/ f \notin obs'[o].scan.file
  PROVE  Tallied(f, k)'
  <1>1. Said(f)' = Said(f)
    BY DEF Said
  <1>2. ASSUME NEW o \in Observers, f \in obs'[o].scan.file
        PROVE  Filled(f, obs[o].scan.seq)' /\ Reached(f, obs[o].scan.offset, Target(k, obs[o].scan))'
    <2>1. obs'[o].scan = obs[o].scan
      BY <1>2
    <2>2. Filled(f, obs[o].scan.seq) /\ Reached(f, obs[o].scan.offset, Target(k, obs[o].scan))
      BY <1>2, <2>1 DEF Tallied
    <2> QED BY <1>1, <2>1, <2>2 DEF Filled, Reached, Target
  <1>3. Filled(f, watcher[f].seq)' /\ Reached(f, watcher[f].offset, watcher[f].seq)'
    BY <1>1 DEF Tallied, Filled, Reached
  <1> QED BY <1>1, <1>2, <1>3 DEF Tallied

\* What is said to be read stays so while no more is said than lines are written or cut.
LEMMA ReachedOn ==
  ASSUME NEW a \in Nat, NEW b \in Nat, NEW n \in Nat, NEW n2 \in Nat, NEW d \in Nat, NEW d2 \in Nat,
         Covers(n, d, a, b), n2 + d <= n + d2
  PROVE  Covers(n2, d2, a, b)
  BY DEF Covers

LEMMA TargetType ==
  ASSUME NEW scan \in ScanType, NEW k, \A i \in Nat : k[i] \in Nat
  PROVE  /\ scan.seq \in Nat /\ scan.offset \in Nat /\ Target(k, scan) \in Nat
         /\ scan.lines # <<>> => scan.lines[Len(scan.lines)].id \in Nat
  <1>1. scan.seq \in Nat /\ scan.offset \in Nat /\ scan.lines \in Seq(LineType)
    BY ObserverAssumption DEF ScanType
  <1>2. ASSUME scan.lines # <<>> PROVE scan.lines[Len(scan.lines)].id \in Nat
    <2>1. Len(scan.lines) \in 1..Len(scan.lines)
      BY <1>1, <1>2
    <2>2. scan.lines[Len(scan.lines)] \in LineType
      BY <1>1, <2>1
    <2> QED BY <2>2, ObserverAssumption DEF LineType
  <1> QED BY <1>1, <1>2 DEF Target

\* A line more makes d of c, and n2 turns of n, and numbers them alike.
OneMore(n, n2, c, d, k, h) ==
    LET e == Len(c)
        y == h[IdAt(d, e + 1)]
        z == k[IdAt(c, e)]
    IN  /\ e \in Nat /\ Len(d) = e + 1 /\ y \in Nat /\ z \in Nat
        /\ z <= y /\ y <= z + 1
        /\ n2 \in Nat /\ n2 <= n + 1
        /\ n2 + z <= n + y
        /\ \A i \in 0..e : IdAt(c, i) \in Nat /\ h[IdAt(d, i)] = k[IdAt(c, i)]

\* A line of the file adds a turn only when it is numbered one on.
LEMMA LineSaid ==
  ASSUME Types, NEW f \in Files, FinishLine(f), NEW k, NEW h, NEW w \in Nat, NEW w2,
         \A i \in Nat : k[i] \in Nat, \A i \in Nat : h[i] \in Nat, w = written[f],
         Numbered(content[f], k, w, format[f]),
         \A i \in 0..w : h[i] = k[i],
         Numbered(content'[f], h, w2, format[f])
  PROVE  OneMore(Said(f), Said(f)', content[f], content'[f], k, h)
  <1> DEFINE c == content[f]
             d == content'[f]
             e == Len(c)
             y == h[IdAt(d, e + 1)]
             z == k[IdAt(c, e)]
  <1>1. PICK line \in LineType :
           /\ line.id = written[f] + 1 /\ line.kind \in Writable(f)
           /\ content' = [content EXCEPT ![f] = Append(@, line)]
           /\ turns' = IF line.kind = "answer" /\ Asked(f) # 0
                       THEN [turns EXCEPT ![f] = @ \cup {<<Asked(f), line.id>>}] ELSE turns
    BY FinishLineFile DEF Types
  <1>2. /\ c \in Seq(LineType) /\ d = Append(c, line) /\ e \in Nat /\ Len(d) = e + 1
        /\ d[e + 1] = line /\ \A i \in 1..e : d[i] = c[i]
    <2>1. c \in Seq(LineType) /\ d = Append(c, line)
      BY <1>1 DEF Types, FileTypes
    <2> HIDE DEF c, d
    <2> QED BY <2>1, Appended
  <1>3. \A i \in 1..e : c[i].id <= w
    BY DEF Numbered
  <1>4. \A i \in 0..e : IdAt(c, i) \in 0..w /\ IdAt(d, i) = IdAt(c, i)
    <2> SUFFICES ASSUME NEW i \in 0..e PROVE IdAt(c, i) \in 0..w /\ IdAt(d, i) = IdAt(c, i)
      OBVIOUS
    <2>1. IdAt(c, i) \in 0..w
      <3> HIDE DEF c
      <3> QED BY <1>2, <1>3, IdType DEF e
    <2>2. i = 0 \/ i \in 1..e
      BY <1>2
    <2> QED BY <1>2, <2>1, <2>2 DEF IdAt
  <1>5. \A i \in 0..e : IdAt(c, i) \in Nat /\ h[IdAt(d, i)] = k[IdAt(c, i)]
    BY <1>4
  <1>6. IdAt(d, e + 1) = line.id /\ line.id \in Nat /\ y \in Nat /\ z \in Nat
    <2>1. IdAt(d, e + 1) = line.id
      BY <1>2 DEF IdAt
    <2>2. e \in 0..e /\ line.id \in Nat
      BY <1>1, <1>2
    <2>3. z \in Nat
      BY <1>5, <2>2
    <2> QED BY <2>1, <2>2, <2>3
  <1>7. ASSUME e = 0 PROVE y = 0 /\ z = 0 /\ line.kind # "answer"
    <2>1. d[1] = line /\ h[d[1].id] = 0 /\ d[1].kind # "answer" /\ k[0] = 0
      BY <1>2, <1>7 DEF Numbered
    <2> QED BY <1>6, <1>7, <2>1 DEF IdAt
  <1>8. ASSUME e > 0
        PROVE  /\ y = IF line.kind = "answer" /\ c[e].kind = "prompt" THEN z + 1 ELSE z
               /\ line.kind = "answer" => c[e].kind # "meta"
    <2>1. e + 1 \in 2..Len(d) /\ (e + 1) - 1 = e /\ e \in 1..e /\ e \in 0..e
      BY <1>2, <1>8
    <2>2. /\ d[e + 1].kind = "answer" => d[e].kind # "meta"
          /\ h[d[e + 1].id] = IF d[e + 1].kind = "answer" /\ d[e].kind = "prompt"
                              THEN h[d[e].id] + 1 ELSE h[d[e].id]
      <3> HIDE DEF d, e
      <3>1. Numbers(d, h)
        BY DEF Numbered, d
      <3>2. /\ d[e + 1].kind = "answer" => d[(e + 1) - 1].kind # "meta"
            /\ h[d[e + 1].id] = IF d[e + 1].kind = "answer" /\ d[(e + 1) - 1].kind = "prompt"
                                THEN h[d[(e + 1) - 1].id] + 1 ELSE h[d[(e + 1) - 1].id]
        BY <2>1, <3>1 DEF Numbers
      <3> QED BY <2>1, <3>2
    <2>3. IdAt(d, e) = d[e].id /\ h[IdAt(d, e)] = z
      <3>1. e # 0
        BY <1>8
      <3>2. h[IdAt(d, e)] = z
        BY <1>5, <2>1
      <3> HIDE DEF d, e, z
      <3> QED BY <3>1, <3>2 DEF IdAt
    <2>4. d[e] = c[e] /\ d[e + 1] = line
      BY <1>2, <2>1
    <2> QED BY <1>6, <2>2, <2>3, <2>4
  <1>9. ASSUME line.kind = "answer", Asked(f) # 0 PROVE y = z + 1
    <2>1. Spoken(f) # {}
      BY <1>1, <1>9 DEF Writable
    <2>2. PICK m \in 1..e : /\ \A i \in m + 1 .. e : c[i].kind = "meta"
                            /\ Asked(f) = IF c[m].kind = "prompt" THEN c[m].id ELSE 0
      BY <2>1, AskedType DEF Types
    <2>3. e > 0 /\ c[e].kind # "meta"
      BY <1>2, <1>7, <1>8, <1>9
    <2>4. m = e
      BY <1>2, <2>2, <2>3
    <2> QED BY <1>8, <1>9, <2>2, <2>3, <2>4
  <1>10. z <= y /\ y <= z + 1
    <2>1. e = 0 \/ e > 0
      BY <1>2
    <2> QED BY <1>6, <1>7, <1>8, <2>1
  <1>11. IsFiniteSet(turns[f]) /\ Said(f) \in Nat
    BY SaidType
  <1>12. Said(f)' \in Nat /\ Said(f)' <= Said(f) + 1 /\ Said(f)' + z <= Said(f) + y
    <2>1. CASE line.kind = "answer" /\ Asked(f) # 0
      <3>1. turns'[f] = turns[f] \cup {<<Asked(f), line.id>>}
        BY <1>1, <2>1 DEF Types, FileTypes
      <3> DEFINE pair == <<Asked(f), line.id>>
      <3>2. Cardinality(turns[f] \cup {pair}) = Cardinality(turns[f])
            \/ Cardinality(turns[f] \cup {pair}) = Cardinality(turns[f]) + 1
        <4> HIDE DEF pair
        <4> QED BY <1>11, FS_AddElement
      <3>3. Said(f)' = Said(f) \/ Said(f)' = Said(f) + 1
        BY <3>1, <3>2 DEF Said
      <3> QED BY <1>6, <1>9, <1>11, <2>1, <3>3
    <2>2. CASE ~(line.kind = "answer" /\ Asked(f) # 0)
      <3>1. Said(f)' = Said(f)
        BY <1>1, <2>2 DEF Said
      <3> QED BY <1>6, <1>10, <1>11, <3>1
    <2> QED BY <2>1, <2>2
  <1> QED BY <1>2, <1>5, <1>6, <1>10, <1>12 DEF OneMore

LEMMA FinishLineTallied ==
  ASSUME Types, NEW f \in Files, FinishLine(f), NEW k, Counted(f, k), Tallied(f, k),
         NEW h, Counted(f, h)', \A i \in 0..written[f] : h[i] = k[i]
  PROVE  Tallied(f, h)'
  <1> DEFINE c == content[f]
             d == content'[f]
             e == Len(c)
             y == h[IdAt(d, e + 1)]
             z == k[IdAt(c, e)]
  <1>1. /\ \A i \in Nat : k[i] \in Nat
        /\ \A i \in Nat : h[i] \in Nat
        /\ Numbered(c, k, written[f], format[f])
        /\ written[f] \in Nat /\ Numbered(d, h, written[f] + 1, format[f])
    BY ObserverAssumption DEF Counted, FinishLine, Types, FileTypes
  <1>2. /\ e \in Nat /\ Len(d) = e + 1 /\ y \in Nat /\ z \in Nat /\ z <= y /\ y <= z + 1
        /\ Said(f)' \in Nat /\ Said(f)' <= Said(f) + 1 /\ Said(f)' + z <= Said(f) + y
        /\ \A i \in 0..e : IdAt(c, i) \in Nat /\ h[IdAt(d, i)] = k[IdAt(c, i)]
    <2>1. OneMore(Said(f), Said(f)', c, d, k, h)
      BY <1>1, LineSaid
    <2> QED BY <2>1 DEF OneMore
  <1>3. Said(f) \in Nat /\ cut[f] \in Nat /\ cut' = cut /\ watcher' = watcher /\ rows' = rows
    BY SaidType DEF FinishLine, store
  <1>4. Slow(c, k) /\ Said(f) <= z + cut[f]
    BY DEF Tallied
  <1>5. \A o \in Observers : obs'[o].scan = obs[o].scan
    BY NotifyType DEF Types, FinishLine
  <1>6. Said(f)' <= y + cut[f]
    <2> DEFINE n == Said(f)
               n2 == Said(f)'
               x == cut[f]
    <2>1. n \in Nat /\ n2 \in Nat /\ x \in Nat /\ y \in Nat /\ z \in Nat /\ n <= z + x /\ n2 + z <= n + y
      BY <1>2, <1>3, <1>4
    <2> HIDE DEF n, n2, x, y, z
    <2>2. n2 <= y + x
      BY <2>1
    <2> QED BY <2>2 DEF n2, x
  <1>7. Slow(d, h)
    <2> SUFFICES ASSUME NEW i \in 0..(e + 1), NEW j \in 0..(e + 1), i <= j
                 PROVE  h[IdAt(d, j)] + i <= h[IdAt(d, i)] + j
      BY <1>2 DEF Slow
    <2>1. CASE j \in 0..e
      <3>1. i \in 0..e
        BY <1>2, <2>1
      <3> QED BY <1>2, <1>4, <2>1, <3>1 DEF Slow
    <2>2. CASE j = e + 1 /\ i \in 0..e
      <3>1. z + i <= k[IdAt(c, i)] + e
        <4>1. i \in 0..Len(c) /\ e \in 0..Len(c) /\ i <= e
          BY <1>2, <2>2
        <4>2. Slow(c, k)
          BY <1>4
        <4> HIDE DEF c, e
        <4> QED BY <4>1, <4>2 DEF Slow
      <3>2. k[IdAt(c, i)] \in Nat /\ h[IdAt(d, i)] = k[IdAt(c, i)]
        BY <1>1, <1>2, <2>2
      <3> DEFINE a == k[IdAt(c, i)]
      <3>3. y + i <= a + (e + 1)
        <4> HIDE DEF a, y, z, e
        <4> QED BY <1>2, <2>2, <3>1, <3>2 DEF a
      <3> QED BY <2>2, <3>2, <3>3
    <2>3. CASE j = e + 1 /\ i = e + 1
      BY <1>2, <2>3
    <2> QED BY <1>2, <2>1, <2>2, <2>3
  <1>8. ASSUME NEW a \in Nat, NEW b \in Nat, Covers(Said(f), cut[f] + e, a, b)
        PROVE  Covers(Said(f)', cut[f] + (e + 1), a, b)
    <2> DEFINE n == Said(f)
               n2 == Said(f)'
               x == cut[f] + e
               x2 == cut[f] + (e + 1)
    <2>4. Covers(n, x, a, b)
      BY <1>8
    <2>1. n \in Nat /\ n2 \in Nat /\ x \in Nat /\ x2 = x + 1 /\ n2 <= n + 1
      <3>1. n \in Nat /\ n2 \in Nat /\ n2 <= n + 1
        BY <1>2, <1>3
      <3>2. e \in Nat /\ cut[f] \in Nat
        BY <1>2, <1>3
      <3> HIDE DEF e
      <3>3. x \in Nat /\ x2 = x + 1
        BY <3>2
      <3> QED BY <3>1, <3>3
    <2> HIDE DEF n, n2, x, x2
    <2>2. x2 \in Nat /\ n2 + x <= n + x2
      BY <2>1
    <2>3. Covers(n2, x2, a, b)
      BY <2>1, <2>2, <2>4, ReachedOn
    <2> QED BY <2>3 DEF n2, x2
  <1>9. watcher[f].offset \in Nat /\ watcher[f].seq \in Nat
    BY ObserverAssumption DEF Types, StoreTypes, Position
  <1>10. ASSUME NEW o \in Observers, f \in obs'[o].scan.file
         PROVE  Filled(f, obs[o].scan.seq)' /\ Reached(f, obs[o].scan.offset, Target(h, obs[o].scan))'
    <2> DEFINE scan == obs[o].scan
    <2>1. Filled(f, scan.seq) /\ Reached(f, scan.offset, Target(k, scan)) /\ obs'[o].scan = scan
      BY <1>5, <1>10 DEF Tallied
    <2>2. scan \in ScanType /\ scan.lines \in Seq(LineType)
      BY DEF Types, ObserverTypes, Observer, ScanType
    <2>3. scan.offset \in Nat /\ Target(k, scan) \in Nat
      BY <1>1, <2>2, TargetType
    <2>4. Target(h, scan) = Target(k, scan)
      <3>1. CASE scan.lines = <<>>
        BY <3>1 DEF Target
      <3>2. CASE scan.lines # <<>>
        <4>1. Len(scan.lines) \in 1..Len(scan.lines)
          BY <2>2, <3>2
        <4>2. scan.lines[Len(scan.lines)].id <= written[f]
          BY <1>10, <2>1, <4>1 DEF Counted, Settled, Reading
        <4>3. scan.lines[Len(scan.lines)].id \in Nat
          BY <1>1, <2>2, <3>2, TargetType
        <4>4. scan.lines[Len(scan.lines)].id \in 0..written[f]
          BY <1>1, <4>2, <4>3
        <4> QED BY <3>2, <4>4 DEF Target
      <3> QED BY <3>1, <3>2
    <2>5. Covers(Said(f)', cut[f] + (e + 1), scan.offset, Target(k, scan))
      BY <1>8, <2>1, <2>3 DEF Reached
    <2>6. Target(h, obs[o].scan)' = Target(k, scan)
      BY <2>1, <2>4 DEF Target
    <2> QED BY <1>2, <1>3, <2>1, <2>5, <2>6 DEF Filled, Reached
  <1>11. Filled(f, watcher[f].seq)' /\ Reached(f, watcher[f].offset, watcher[f].seq)'
    BY <1>2, <1>3, <1>8, <1>9 DEF Tallied, Filled, Reached
  <1> QED BY <1>2, <1>3, <1>6, <1>7, <1>10, <1>11 DEF Tallied

LEMMA RewindTallied ==
  ASSUME Types, NEW f \in Files, Rewind(f), NEW k, Counted(f, k), Tallied(f, k)
  PROVE  Tallied(f, k)'
  <1>1. PICK kept \in 0..(Len(content[f]) - 1) :
          /\ content' = [content EXCEPT ![f] = SubSeq(@, 1, kept)]
          /\ cut' = [cut EXCEPT ![f] = @ + Len(content[f]) - kept]
    BY DEF Rewind
  <1> DEFINE c == content[f]
             d == SubSeq(c, 1, kept)
             e == Len(c)
             n == Said(f)
             x == cut[f]
             z == k[IdAt(c, e)]
             y == k[IdAt(c, kept)]
  <1>2. /\ c \in Seq(LineType) /\ content'[f] = d /\ cut'[f] = x + e - kept
        /\ e \in Nat /\ kept \in Nat /\ kept <= e /\ n \in Nat /\ x \in Nat
    BY <1>1, SaidType DEF Types, FileTypes
  <1>3. Len(d) = kept /\ \A i \in 1..kept : d[i] = c[i]
    BY <1>2, SubSeqProperties
  <1>4. \A i \in 0..kept : IdAt(d, i) = IdAt(c, i) /\ i \in 0..e
    BY <1>2, <1>3 DEF IdAt
  <1>5. Slow(c, k) /\ n <= z + x /\ (\A i \in Nat : k[i] \in Nat) /\ \A i \in 1..e : c[i].id <= written[f]
    BY DEF Counted, Numbered, Tallied
  <1>6. z \in Nat /\ y \in Nat
    <2>1. IdAt(c, e) \in 0..written[f] /\ IdAt(c, kept) \in 0..written[f]
      <3>1. written[f] \in Nat /\ e \in 0..e /\ kept \in 0..e
        BY <1>2, ObserverAssumption DEF Types, FileTypes
      <3> HIDE DEF c
      <3> QED BY <1>2, <1>5, <3>1, IdType DEF e
    <2> QED BY <1>5, <2>1
  <1>7. Slow(d, k)
    BY <1>3, <1>4, <1>5 DEF Slow
  <1>8. Said(f)' = n
    BY DEF Rewind, Said
  <1>9. n <= y + (x + e - kept)
    <2>1. z + kept <= y + e
      <3>1. kept \in 0..e /\ e \in 0..e /\ kept <= e
        BY <1>2
      <3> QED BY <1>5, <3>1 DEF Slow
    <2> HIDE DEF n, x, y, z, e
    <2> QED BY <1>2, <1>5, <1>6, <2>1
  <1>10. cut'[f] + Len(content'[f]) = x + e
    <2>1. Len(content'[f]) = kept
      BY <1>2, <1>3
    <2> HIDE DEF x, e
    <2> QED BY <1>2, <2>1
  <1>11. \A a, s : Reached(f, a, s) => Covers(n, cut'[f] + Len(content'[f]), a, s)
    BY <1>10 DEF Reached
  <1>12. \A o \in Observers : obs'[o].scan = obs[o].scan
    BY NotifyType DEF Types, Rewind
  <1>13. UNCHANGED <<watcher, rows>>
    BY DEF Rewind, store
  <1>14. ASSUME NEW o \in Observers, f \in obs'[o].scan.file
         PROVE  Filled(f, obs[o].scan.seq)' /\ Reached(f, obs[o].scan.offset, Target(k, obs[o].scan))'
    <2>1. Filled(f, obs[o].scan.seq) /\ Reached(f, obs[o].scan.offset, Target(k, obs[o].scan))
      BY <1>12, <1>14 DEF Tallied
    <2> HIDE DEF n
    <2> QED BY <1>8, <1>11, <1>12, <1>13, <2>1 DEF Filled, Reached, Target
  <1>15. Filled(f, watcher[f].seq)' /\ Reached(f, watcher[f].offset, watcher[f].seq)'
    <2> HIDE DEF n
    <2> QED BY <1>8, <1>11, <1>13 DEF Tallied, Filled, Reached
  <1>16. k[IdAt(content'[f], Len(content'[f]))] = y
    BY <1>2, <1>3, <1>4
  <1> QED BY <1>2, <1>7, <1>8, <1>9, <1>14, <1>15, <1>16 DEF Tallied

\* A scan will end at the number of the line it reads to.
LEMMA TargetIs ==
  ASSUME NEW c \in Seq(LineType), NEW k, NEW w, NEW m, NEW kind, NEW u, NEW scan \in ScanType, ScanFits(scan),
         Reading(c, k, w, m, kind, u, scan), Lies(c, scan), ~(Len(c) < scan.offset)
  PROVE  Target(k, scan) = k[IdAt(c, scan.offset)]
  <1> DEFINE l == scan.lines
  <1>1. l \in Seq(LineType) /\ Len(l) \in Nat /\ scan.offset \in Nat /\ Len(l) <= scan.offset
    BY ScanNumbers
  <1>2. CASE l = <<>>
    <2>1. scan.offset - Len(l) = scan.offset
      BY <1>1, <1>2
    <2>2. scan.seq = k[IdAt(c, scan.offset)]
      BY <2>1 DEF Reading, Exact
    <2> QED BY <1>2, <2>2 DEF Target
  <1>3. CASE l # <<>>
    <2>1. Len(l) \in 1..Len(l) /\ scan.offset # 0
      BY <1>1, <1>3
    <2>2. (scan.offset - Len(l)) + Len(l) = scan.offset
      <3> DEFINE a == scan.offset
                 b == Len(l)
      <3>1. a \in Nat /\ b \in Nat /\ b <= a
        BY <1>1
      <3> HIDE DEF a, b
      <3>2. (a - b) + b = a
        BY <3>1
      <3> QED BY <3>2 DEF a, b
    <2>3. l[Len(l)] = c[scan.offset]
      BY <2>1, <2>2 DEF Lies
    <2> QED BY <1>3, <2>1, <2>3 DEF Target, IdAt
  <1> QED BY <1>2, <1>3

LEMMA LoadTallied ==
  ASSUME One, Types, Truth', NEW o \in Observers, NEW f \in Files, Load(o, f),
         NEW g \in Files, NEW k, Counted(g, k), Counted(g, k)', Tallied(g, k)
  PROVE  Tallied(g, k)'
  <1>1. PICK scan \in ScanType : Loaded(o, f, scan)
    BY LoadEffect
  <1>2. obs'[o].scan = scan /\ obs[o].scan = NoScan /\ \A p \in Observers : p = o
    <2>1. obs'[o].scan = scan
      BY <1>1 DEF Loaded, Types, ObserverTypes, Observer
    <2> QED BY <2>1 DEF One, Load, Idle
  <1>3. UNCHANGED <<format, content, written, turns, cut, watcher, rows>>
    BY DEF Load, store
  <1>4. CASE g \notin scan.file
    BY <1>2, <1>3, <1>4, TalliedSame
  <1>5. CASE g \in scan.file
    <2> DEFINE c == content[g]
               e == Len(c)
               x == scan.offset
    <2>1. /\ g = f /\ scan.lines = Batch(f).lines
          /\ scan.offset = Batch(f).offset /\ scan.seq = Batch(f).seq /\ ScanFits(scan)
      BY <1>1, <1>5 DEF Loaded, NoScan
    <2>2. PICK n \in 0..Len(content[f]) : ReadsFrom(f, n)
      BY BatchType DEF Types
    <2>3. /\ c \in Seq(LineType) /\ e \in Nat /\ x \in Nat /\ ~(e < x) /\ x <= e
          /\ scan.seq \in Nat
          /\ scan.seq = 0 \/ scan.seq = watcher[g].seq
      BY <2>1, <2>2, ObserverAssumption DEF Types, FileTypes, ReadsFrom
    <2>4. Reading(c, k, written[g], obs'[o].memory[g], format[g], unseen'[g], scan)
      BY <1>2, <1>3, <1>5 DEF Counted, Settled
    <2>5. Lies(c, scan)
      BY <1>2, <1>3, <1>5 DEF Truth, Followed, Scanned, Lies
    <2>6. Target(k, scan) = k[IdAt(c, x)]
      <3> HIDE DEF c
      <3> QED BY <2>1, <2>3, <2>4, <2>5, TargetIs DEF e
    <2>7. Reached(g, x, Target(k, scan))
      <3> DEFINE y == k[IdAt(c, x)]
                 z == k[IdAt(c, e)]
                 t == Said(g)
                 a == cut[g]
      <3>1. z + x <= y + e /\ t <= z + a
        BY <2>3 DEF Tallied, Slow
      <3>2. t \in Nat /\ a \in Nat
        BY SaidType
      <3>3. y \in Nat /\ z \in Nat
        <4>1. \A i \in 1..e : c[i].id <= written[g]
          BY DEF Counted, Numbered
        <4>2. written[g] \in Nat /\ e \in 0..e /\ x \in 0..e /\ \A i \in Nat : k[i] \in Nat
          BY <2>3, ObserverAssumption DEF Types, FileTypes, Counted
        <4>3. IdAt(c, e) \in 0..written[g] /\ IdAt(c, x) \in 0..written[g]
          <5> HIDE DEF c, x
          <5> QED BY <2>3, <4>1, <4>2, IdType DEF e
        <4> QED BY <4>2, <4>3
      <3>4. t + x <= y + (a + e)
        <4> HIDE DEF t, x, y, z, a, e
        <4> QED BY <2>3, <3>1, <3>2, <3>3
      <3> QED BY <2>6, <3>4 DEF Reached, Covers
    <2>8. Filled(g, scan.seq)
      <3>1. CASE scan.seq = 0
        BY <3>1 DEF Filled
      <3>2. CASE scan.seq = watcher[g].seq
        BY <3>2 DEF Tallied
      <3> QED BY <2>3, <3>1, <3>2
    <2>9. Said(g)' = Said(g)
      BY <1>3 DEF Said
    <2>10. \A p \in Observers : Filled(g, obs[p].scan.seq)' /\ Reached(g, obs[p].scan.offset, Target(k, obs[p].scan))'
      BY <1>2, <1>3, <2>7, <2>8, <2>9 DEF Filled, Reached, Target
    <2>11. Filled(g, watcher[g].seq)' /\ Reached(g, watcher[g].offset, watcher[g].seq)'
      BY <1>3, <2>9 DEF Tallied, Filled, Reached
    <2> QED BY <1>3, <2>9, <2>10, <2>11 DEF Tallied
  <1> QED BY <1>4, <1>5

LEMMA LoadGoneTallied ==
  ASSUME One, Types, NEW o \in Observers, NEW f \in Files, LoadGone(o, f),
         NEW g \in Files, NEW k, Counted(g, k), Tallied(g, k)
  PROVE  Tallied(g, k)'
  <1>1. obs'[o].scan = obs[o].scan /\ obs[o].scan = NoScan /\ \A p \in Observers : p = o
    BY DEF One, LoadGone, Types, ObserverTypes, Observer, Idle
  <1>2. UNCHANGED <<content, turns, cut, rows>> /\ content[f] = <<>>
        /\ watcher' = [watcher EXCEPT ![f] = [offset |-> 0, seq |-> 0]]
    BY DEF LoadGone
  <1>3. CASE g # f
    BY <1>1, <1>2, <1>3, TalliedSame DEF Types, StoreTypes
  <1>4. CASE g = f
    <2>1. Len(content[g]) = 0 /\ k[0] = 0 /\ watcher'[g] = [offset |-> 0, seq |-> 0]
      BY <1>2, <1>4 DEF Counted, Numbered, Types, StoreTypes
    <2>2. Said(g) \in Nat /\ cut[g] \in Nat /\ Said(g) <= 0 + cut[g]
      BY <2>1, SaidType DEF Tallied, IdAt
    <2>3. Said(g)' = Said(g)
      BY <1>2 DEF Said
    <2>4. Covers(Said(g), cut[g] + Len(content[g]), 0, 0)
      BY <2>1, <2>2 DEF Covers
    <2>5. Filled(g, watcher[g].seq)' /\ Reached(g, watcher[g].offset, watcher[g].seq)'
      BY <1>2, <2>1, <2>3, <2>4 DEF Filled, Reached
    <2>6. \A p \in Observers : g \notin obs'[p].scan.file
      BY <1>1 DEF NoScan
    <2> QED BY <1>2, <2>3, <2>5, <2>6 DEF Tallied
  <1> QED BY <1>3, <1>4

LEMMA SaveTallied ==
  ASSUME One, Types, NEW o \in Observers, Save(o), NEW g \in Files, NEW k, Tallied(g, k)
  PROVE  Tallied(g, k)'
  <1>1. /\ obs'[o].scan = NoScan /\ obs[o].scan # NoScan /\ obs[o].scan.lines = <<>>
        /\ ScanFits(obs[o].scan) /\ \A p \in Observers : p = o
    BY DEF One, Save, Types, ObserverTypes, Observer
  <1>2. PICK f \in Files : obs[o].scan.file = {f}
    BY <1>1 DEF ScanFits
  <1>3. /\ UNCHANGED <<content, turns, cut, rows>>
        /\ watcher'[f].offset = obs[o].scan.offset /\ watcher'[f].seq = obs[o].scan.seq
        /\ \A x \in Files \ {f} : watcher'[x] = watcher[x]
    BY <1>2 DEF Save, file, Types, StoreTypes
  <1>4. \A p \in Observers : g \notin obs'[p].scan.file
    BY <1>1 DEF NoScan
  <1>5. CASE g # f
    BY <1>3, <1>4, <1>5, TalliedSame
  <1>6. CASE g = f
    <2>1. Filled(g, obs[o].scan.seq) /\ Reached(g, obs[o].scan.offset, obs[o].scan.seq)
      BY <1>1, <1>2, <1>6 DEF Tallied, Target
    <2>2. Said(g)' = Said(g)
      BY <1>3 DEF Said
    <2>3. Filled(g, watcher[g].seq)' /\ Reached(g, watcher[g].offset, watcher[g].seq)'
      BY <1>3, <1>6, <2>1, <2>2 DEF Filled, Reached
    <2> QED BY <1>3, <1>4, <2>2, <2>3 DEF Tallied
  <1> QED BY <1>5, <1>6

LEMMA LineTallied ==
  ASSUME One, Types, NEW o \in Observers, Line(o), NEW g \in Files, NEW k, Counted(g, k), Tallied(g, k),
         g \in obs[o].scan.file => obs'[o].scan.seq = k[Head(obs[o].scan.lines).id]
  PROVE  Tallied(g, k)'
  <1>1. PICK f \in Files, n \in 0..MaxLines, m \in Memory : Heard(o, f, n, m)
    BY LineEffect
  <1> DEFINE scan == obs[o].scan
             next == obs'[o].scan
             line == Head(scan.lines)
             q == obs[o].memory[f].prompt
  <1>2. /\ UNCHANGED <<content, turns, cut, watcher>>
        /\ scan.lines # <<>> /\ scan.file = {f} /\ \A p \in Observers : p = o
    BY <1>1 DEF One, Line, file, Heard
  <1>3. scan \in ScanType /\ scan.lines \in Seq(LineType) /\ scan.seq \in Nat
        /\ obs[o] \in Observer /\ obs \in [Observers -> Observer]
    BY ObserverAssumption DEF Types, ObserverTypes, Observer, ScanType
  <1>4. next.file = {f} /\ next.offset = scan.offset /\ next.lines = Tail(scan.lines) /\ next.seq = n
    <2>1. next = [scan EXCEPT !.lines = Tail(scan.lines), !.seq = n]
      BY <1>1, <1>3 DEF Heard, Observer
    <2> QED BY <1>2, <1>3, <2>1 DEF ScanType
  <1>5. /\ DOMAIN rows[g] \subseteq DOMAIN rows'[g]
        /\ g = f => n = scan.seq \/ (n = scan.seq + 1 /\ n \in DOMAIN rows'[g])
    <2>1. CASE rows' = rows /\ n = scan.seq
      BY <2>1
    <2>2. CASE n = scan.seq + 1 /\ rows' = Inserted(f, n, <<q, line.id>>)
      <3>1. CASE g = f
        <4>1. DOMAIN rows'[g] = DOMAIN rows[g] \cup {n}
          BY <2>2, <3>1 DEF Inserted, Types, StoreTypes
        <4> QED BY <2>2, <4>1
      <3>2. CASE g # f
        BY <2>2, <3>2 DEF Inserted, Types, StoreTypes
      <3> QED BY <3>1, <3>2
    <2> QED BY <1>1, <2>1, <2>2 DEF Heard
  <1>6. CASE g # f
    <2>1. g \notin next.file
      BY <1>4, <1>6
    <2> QED BY <1>2, <1>5, <2>1, TalliedSame
  <1>7. CASE g = f
    <2>1. Filled(g, scan.seq) /\ Reached(g, scan.offset, Target(k, scan))
      BY <1>2, <1>7 DEF Tallied
    <2>2. Target(k, next) = Target(k, scan)
      <3>1. CASE Tail(scan.lines) = <<>>
        <4>1. Len(scan.lines) = 1 /\ line = scan.lines[1]
          <5> DEFINE s == scan.lines
          <5>1. s \in Seq(LineType) /\ s # <<>> /\ Tail(s) = <<>>
            BY <1>2, <1>3, <3>1
          <5> HIDE DEF s
          <5>2. Len(Tail(s)) = Len(s) - 1 /\ Len(s) \in Nat /\ Head(s) = s[1]
            BY <5>1, HeadTailProperties
          <5>3. Len(Tail(s)) = 0
            <6>1. Len(<<>>) = 0
              OBVIOUS
            <6> QED BY <5>1, <6>1, Zenon
          <5>4. Len(s) = 1
            BY <5>2, <5>3
          <5> QED BY <5>2, <5>4 DEF s
        <4>2. n = k[line.id]
          BY <1>2, <1>4, <1>7
        <4> QED BY <1>2, <1>4, <3>1, <4>1, <4>2 DEF Target
      <3>2. CASE Tail(scan.lines) # <<>>
        <4>1. Len(Tail(scan.lines)) = Len(scan.lines) - 1 /\ Tail(scan.lines) \in Seq(LineType)
          BY <1>2, <1>3
        <4>2. Tail(scan.lines)[Len(Tail(scan.lines))] = scan.lines[Len(scan.lines)]
          <5>1. Len(Tail(scan.lines)) \in 1..Len(Tail(scan.lines))
            BY <3>2, <4>1
          <5>2. Tail(scan.lines)[Len(Tail(scan.lines))] = scan.lines[Len(Tail(scan.lines)) + 1]
            <6> DEFINE s == scan.lines
            <6>1. s \in Seq(LineType) /\ s # <<>>
              BY <1>2, <1>3
            <6> HIDE DEF s
            <6>2. \A i \in 1..Len(Tail(s)) : Tail(s)[i] = s[i + 1]
              BY <6>1
            <6> QED BY <5>1, <6>2 DEF s
          <5>3. Len(Tail(scan.lines)) + 1 = Len(scan.lines)
            BY <1>3, <4>1
          <5> QED BY <5>2, <5>3
        <4> QED BY <1>2, <1>4, <3>2, <4>2 DEF Target
      <3> QED BY <3>1, <3>2
    <2>3. 1..n \subseteq DOMAIN rows'[g]
      <3>1. \A i \in 1..n : i \in 1..scan.seq \/ i = n
        BY <1>3, <1>5, <1>7
      <3> QED BY <1>5, <1>7, <2>1, <3>1 DEF Filled
    <2>4. Said(g)' = Said(g)
      BY <1>2 DEF Said
    <2>5. Filled(g, obs[o].scan.seq)' /\ Reached(g, obs[o].scan.offset, Target(k, obs[o].scan))'
      <3>1. Target(k, obs[o].scan)' = Target(k, scan)
        BY <2>2 DEF Target
      <3> QED BY <1>2, <1>4, <2>1, <2>3, <2>4, <3>1 DEF Filled, Reached
    <2>6. Filled(g, watcher[g].seq)' /\ Reached(g, watcher[g].offset, watcher[g].seq)'
      BY <1>2, <1>5, <2>4 DEF Tallied, Filled, Reached
    <2>7. \A p \in Observers : Filled(g, obs[p].scan.seq)' /\ Reached(g, obs[p].scan.offset, Target(k, obs[p].scan))'
      BY <1>2, <2>5
    <2> QED BY <1>2, <2>4, <2>6, <2>7 DEF Tallied
  <1> QED BY <1>6, <1>7

-----------------------------------------------------------------------------
(* No death can break the count of a document, and none has that of the others *)

Sound(f) == format[f] = "array" \/ faults.crashes = 0

Unbroken ==
    /\ faults.crashes = 0 => \A o \in Observers : obs[o].up
    /\ \A f \in Files : Sound(f) => \E k : Counted(f, k) /\ Tallied(f, k)

LEMMA InitUnbroken == Init => Unbroken
  <1> SUFFICES ASSUME Init PROVE Unbroken
    OBVIOUS
  <1>1. \A o \in Observers : obs[o].up
    BY DEF Init, Down
  <1>2. ASSUME NEW f \in Files PROVE \E k : Counted(f, k) /\ Tallied(f, k)
    <2> DEFINE k == [i \in Nat |-> 0]
    <2>1. \A i \in Nat : k[i] = 0
      OBVIOUS
    <2> HIDE DEF k
    <2>2. Counted(f, k) /\ Tallied(f, k)
      BY <2>1, CountedInit, TalliedInit
    <2> QED BY <2>2
  <1> QED BY <1>1, <1>2 DEF Unbroken

\* A step of the file's command line, of the observer, or of neither counts on.
LEMMA CountedStep ==
  ASSUME One, Types, Truth, Truth', NEW g \in Files, NEW k, Counted(g, k), Tallied(g, k), [Next]_vars,
         format[g] = "array" \/ ((\A o \in Observers : obs[o].up) /\ ~\E o \in Observers : Crash(o))
  PROVE  \E h : Counted(g, h)' /\ Tallied(g, h)'
  <1>1. ASSUME NEW f \in Files, BeginLine(f) \/ FinishLine(f) \/ Rewind(f)
        PROVE  \E h : Counted(g, h)' /\ Tallied(g, h)'
    <2>1. \A o \in Observers : obs'[o].scan = obs[o].scan /\ obs'[o].memory = obs[o].memory
      BY <1>1, NotifyType DEF Types, BeginLine, FinishLine, Rewind
    <2>2. CASE FinishLine(f) /\ g = f
      <3>1. PICK h : (\A i \in 0..written[g] : h[i] = k[i]) /\ Counted(g, h)'
        BY <2>2, FinishLineCounted
      <3>2. Tallied(g, h)'
        BY <2>2, <3>1, FinishLineTallied
      <3> QED BY <3>1, <3>2
    <2>3. CASE Rewind(f) /\ g = f
      BY <2>3, RewindCounted, RewindTallied
    <2>4. CASE BeginLine(f) \/ g # f
      <3>1. /\ content'[g] = content[g] /\ format' = format /\ written'[g] = written[g]
            /\ rows'[g] = rows[g] /\ unseen'[g] = unseen[g] /\ watcher'[g] = watcher[g]
            /\ turns'[g] = turns[g] /\ cut'[g] = cut[g]
        BY <1>1, <2>4 DEF BeginLine, FinishLine, Rewind, store, Types, FileTypes
      <3>2. Counted(g, k)'
        BY <2>1, <3>1, CountedSame
      <3>3. Tallied(g, k)'
        BY <2>1, <3>1, TalliedSame
      <3> QED BY <3>2, <3>3
    <2> QED BY <1>1, <2>2, <2>3, <2>4
  <1>2. ASSUME NEW o \in Observers, Work(o) \/ Collect(o)
        PROVE  \E h : Counted(g, h)' /\ Tallied(g, h)'
    <2>1. CASE Line(o)
      BY <2>1, LineCounted, LineTallied
    <2>2. CASE Save(o)
      BY <2>2, SaveCounted, SaveTallied
    <2>3. CASE Collect(o)
      <3>1. obs'[o].scan = NoScan /\ \A p \in Observers : p = o
        BY <2>3 DEF One, Collect, Idle, Types, ObserverTypes, Observer
      <3>2. Tallied(g, k)'
        BY <2>3, <3>1, TalliedSame DEF Collect, file, store, NoScan
      <3> QED BY <2>3, <3>2, CollectCounted
    <2>4. ASSUME NEW f \in Files, Load(o, f) PROVE \E h : Counted(g, h)' /\ Tallied(g, h)'
      BY <2>4, LoadCounted, LoadTallied
    <2>5. ASSUME NEW f \in Files, LoadGone(o, f) PROVE \E h : Counted(g, h)' /\ Tallied(g, h)'
      BY <2>5, LoadGoneCounted, LoadGoneTallied
    <2> QED BY <1>2, <2>1, <2>2, <2>3, <2>4, <2>5 DEF Work
  <1>3. ASSUME NEW o \in Observers, Crash(o) \/ Start(o)
        PROVE  \E h : Counted(g, h)' /\ Tallied(g, h)'
    <2>1. format[g] = "array"
      BY <1>3 DEF Start
    <2>2. obs'[o].scan = NoScan /\ \A p \in Observers : p = o
      BY <1>3, DownType DEF One, Crash, Start, Types, ObserverTypes
    <2>3. UNCHANGED <<file, store>>
      BY <1>3 DEF Crash, Start
    <2>4. Counted(g, k)'
      BY <2>1, <2>2, <2>3, ForgetCounted DEF file, store
    <2>5. Tallied(g, k)'
      BY <2>2, <2>3, TalliedSame DEF file, store, NoScan
    <2> QED BY <2>4, <2>5
  <1>4. CASE UNCHANGED vars
    <2>1. Counted(g, k)' /\ Tallied(g, k)'
      BY <1>4, CountedSame, TalliedSame DEF vars, file, store
    <2> QED BY <2>1
  <1> QED BY <1>1, <1>2, <1>3, <1>4 DEF Next

LEMMA UnbrokenStep == One /\ Types /\ Truth /\ Truth' /\ Unbroken /\ [Next]_vars => Unbroken'
  <1> SUFFICES ASSUME One, Types, Truth, Truth', Unbroken, [Next]_vars PROVE Unbroken'
    OBVIOUS
  <1>1. ASSUME faults'.crashes = 0
        PROVE  faults.crashes = 0 /\ ~\E o \in Observers : Crash(o)
    <2>1. ~\E o \in Observers : Crash(o)
      BY <1>1, ObserverAssumption DEF Crash, Types, FaultTypes
    <2>2. faults.crashes = 0
      <3>1. CASE \E g \in Files : Rewind(g)
        BY <1>1, <3>1 DEF Rewind, Types, FaultTypes
      <3>2. CASE faults' = faults
        BY <1>1, <3>2
      <3>3. (\E g \in Files : Rewind(g)) \/ faults' = faults
        BY <2>1 DEF Next, BeginLine, FinishLine, Work, Load, LoadGone, Line, Save, Collect, Start, vars
      <3> QED BY <3>1, <3>2, <3>3
    <2> QED BY <2>1, <2>2
  <1>2. ASSUME faults'.crashes = 0 PROVE \A o \in Observers : obs'[o].up
    <2>1. (\A o \in Observers : obs[o].up) /\ ~\E o \in Observers : Crash(o)
      BY <1>1, <1>2 DEF Unbroken
    <2>2. ASSUME NEW f \in Files, Notify(f) PROVE \A o \in Observers : obs'[o].up
      BY <2>1, <2>2, NotifyType DEF Types
    <2>3. ASSUME NEW o \in Observers, Work(o) \/ Collect(o) PROVE obs'[o].up
      <3>1. CASE Line(o)
        <4>1. PICK f \in Files, n \in 0..MaxLines, m \in Memory : Heard(o, f, n, m)
          BY <3>1, LineEffect
        <4> QED BY <2>1, <4>1 DEF Heard, Types, ObserverTypes, Observer
      <3>2. ASSUME NEW f \in Files, Load(o, f) PROVE obs'[o].up
        <4>1. PICK scan \in ScanType : Loaded(o, f, scan)
          BY <3>2, LoadEffect
        <4> QED BY <2>1, <4>1 DEF Loaded, Types, ObserverTypes, Observer
      <3>3. ASSUME NEW f \in Files, LoadGone(o, f) PROVE obs'[o].up
        BY <2>1, <3>3 DEF LoadGone, Types, ObserverTypes, Observer
      <3>4. CASE Save(o) \/ Collect(o)
        BY <2>1, <3>4 DEF Save, Collect, Types, ObserverTypes, Observer
      <3> QED BY <2>3, <3>1, <3>2, <3>3, <3>4 DEF Work
    <2>4. \A o \in Observers : ~Start(o) /\ ~Crash(o)
      BY <2>1 DEF Start
    <2>5. \A o, p \in Observers : o = p
      BY DEF One
    <2>6. CASE UNCHANGED vars
      BY <2>1, <2>6 DEF vars
    <2> QED BY <2>2, <2>3, <2>4, <2>5, <2>6 DEF Next, BeginLine, FinishLine, Rewind
  <1>3. ASSUME NEW f \in Files, Sound(f)' PROVE \E k : Counted(f, k)' /\ Tallied(f, k)'
    <2>1. format' = format
      BY DEF Next, BeginLine, FinishLine, Rewind, Work, Load, LoadGone, Line, Save, Collect, Crash, Start, vars, file
    <2>2. Sound(f)
      BY <1>1, <1>3, <2>1 DEF Sound
    <2>3. PICK k : Counted(f, k) /\ Tallied(f, k)
      BY <2>2 DEF Unbroken
    <2>4. format[f] = "array" \/ ((\A o \in Observers : obs[o].up) /\ ~\E o \in Observers : Crash(o))
      BY <1>1, <1>3, <2>1 DEF Sound, Unbroken
    <2> QED BY <2>3, <2>4, CountedStep
  <1> QED BY <1>2, <1>3 DEF Unbroken

\* Rows that no two numbers share are as many as the numbers.
LEMMA OnceEach ==
  ASSUME Types, NEW f \in Files,
         \A i, j \in DOMAIN rows[f] : rows[f][i] = rows[f][j] => i = j
  PROVE  Cardinality(Recorded(f)) = Cardinality(DOMAIN rows[f])
  <1> DEFINE S == DOMAIN rows[f]
             r == rows[f]
  <1>1. S \subseteq 1..MaxLines /\ r \in [S -> Recorded(f)]
    BY DEF Types, StoreTypes, IsTable, Recorded
  <1>2. IsFiniteSet(S)
    <2>1. IsFiniteSet(1..MaxLines)
      BY FS_Interval, ObserverAssumption
    <2> QED BY <1>1, <2>1, FS_Subset
  <1>3. r \in Bijection(S, Recorded(f))
    BY <1>1 DEF Recorded, Bijection, Injection, Surjection, IsInjective
  <1>4. ExistsBijection(S, Recorded(f))
    BY <1>3 DEF ExistsBijection
  <1> QED BY <1>2, <1>4, FS_Bijection

-----------------------------------------------------------------------------
(* A file that is never cut *)

\* Its ids are its lines' places.
Whole(c, k, kind) ==
    /\ \A i \in Nat : k[i] \in Nat
    /\ Numbered(c, k, Len(c), kind)
    /\ \A i \in 1..Len(c) : c[i].id = i

\* The number that a scan which goes on after n lines with the prompt q waiting takes
\* these lines to have: an answer that comes next has nobody waiting, and gets none.
Base(c, k, n, q) ==
    IF n > 0 /\ n < Len(c) /\ q = 0 /\ c[n].kind = "prompt" /\ c[n + 1].kind = "answer"
    THEN k[n + 1] ELSE k[n]

\* Going on after n lines from number s gives no answer that the t rows of r have a
\* number that is still free.
Behind(r, t, c, k, n, s, q) ==
    /\ s <= t
    /\ \A i \in 1..t : r[i][2] > n => s + k[r[i][2]] <= t + Base(c, k, n, q)

\* A table of t rows, none for the same answer.
Rows(r, t, c) ==
    /\ t \in Nat /\ DOMAIN r = 1..t
    /\ \A i \in 1..t : r[i][2] \in 1..Len(c)
    /\ \A i, j \in 1..t : r[i][2] = r[j][2] => i = j

\* r2 has t2 rows: those of r, and for no other answer than the one after n lines.
Grown(r2, t2, r, t, n) ==
    t2 \in Nat /\ t <= t2 /\ \A i \in 1..t2 : (i \in 1..t /\ r2[i] = r[i]) \/ r2[i][2] = n + 1

Missing(r, t, n) == \A i \in 1..t : r[i][2] # n + 1

\* r2 is r with a row for that answer at the number s, unless it has one.
IsPut(r2, r, s, n) ==
    /\ DOMAIN r2 = DOMAIN r \cup {s}
    /\ \A x \in DOMAIN r : r2[x] = r[x]
    /\ s \notin DOMAIN r => r2[s][2] = n + 1

\* From a line to the next, the number and the prompt that waits become s2 and q2.
Takes(c, k, n, s, q, s2, q2) == s2 + Base(c, k, n, q) <= s + Base(c, k, n + 1, q2)

\* How one line follows another.
LEMMA Climbs ==
  ASSUME NEW c \in Seq(LineType), NEW k, NEW kind, Whole(c, k, kind), NEW n \in 0..(Len(c) - 1)
  PROVE  /\ n \in Nat /\ n + 1 \in 1..Len(c) /\ k[n] \in Nat /\ k[n + 1] \in Nat /\ k[0] = 0
         /\ n = 0 => c[n + 1].kind # "answer" /\ k[n + 1] = 0 /\ (kind = "codex" => c[n + 1].kind = "meta")
         /\ n > 0 => /\ c[n + 1].kind # "meta"
                     /\ c[n + 1].kind = "answer" => c[n].kind # "meta"
                     /\ k[n + 1] = IF c[n + 1].kind = "answer" /\ c[n].kind = "prompt" THEN k[n] + 1 ELSE k[n]
         /\ c[n + 1] \in LineType /\ c[n + 1].kind \in Kinds /\ c[n + 1].id = n + 1
  <1>1. Len(c) \in Nat /\ n \in Nat /\ n + 1 \in 1..Len(c)
    OBVIOUS
  <1>2. Numbered(c, k, Len(c), kind) /\ (\A i \in Nat : k[i] \in Nat) /\ \A i \in 1..Len(c) : c[i].id = i
    BY DEF Whole
  <1>3. k[n] \in Nat /\ k[n + 1] \in Nat /\ k[0] = 0 /\ c[n + 1].id = n + 1
    BY <1>1, <1>2 DEF Numbered
  <1>4. c[n + 1] \in LineType /\ c[n + 1].kind \in Kinds
    <2>1. c[n + 1] \in LineType
      BY <1>1
    <2> QED BY <2>1 DEF LineType
  <1>5. CASE n = 0
    <2>1. c[1].kind # "answer" /\ k[c[1].id] = 0 /\ (kind = "codex" => c[1].kind = "meta") /\ c[1].id = 1
      BY <1>1, <1>2 DEF Numbered
    <2> QED BY <1>1, <1>3, <1>4, <1>5, <2>1
  <1>6. CASE n > 0
    <2>1. n + 1 \in 2..Len(c) /\ (n + 1) - 1 = n /\ n \in 1..Len(c)
      BY <1>1, <1>6
    <2>2. /\ c[n + 1].kind # "meta"
          /\ c[n + 1].kind = "answer" => c[n].kind # "meta"
          /\ k[c[n + 1].id] = IF c[n + 1].kind = "answer" /\ c[n].kind = "prompt"
                              THEN k[c[n].id] + 1 ELSE k[c[n].id]
      BY <1>2, <2>1 DEF Numbered, Numbers
    <2>3. c[n].id = n
      BY <1>2, <2>1
    <2> QED BY <1>1, <1>3, <1>4, <1>6, <2>2, <2>3
  <1> QED BY <1>1, <1>5, <1>6

LEMMA BaseIs ==
  ASSUME NEW c \in Seq(LineType), NEW k, NEW kind, Whole(c, k, kind), NEW n \in 0..Len(c), NEW q
  PROVE  /\ Base(c, k, n, q) \in Nat /\ k[n] \in Nat
         /\ q # 0 => Base(c, k, n, q) = k[n]
         /\ n = 0 => Base(c, k, n, q) = 0
         /\ Base(c, k, n, q) <= Base(c, k, n, 0)
         /\ k[n] <= Base(c, k, n, q)
  <1>1. Len(c) \in Nat /\ n \in Nat /\ k[n] \in Nat /\ k[0] = 0
    BY DEF Whole, Numbered
  <1>2. n < Len(c) => n \in 0..(Len(c) - 1)
    BY <1>1
  <1>3. n > 0 /\ n < Len(c) /\ c[n].kind = "prompt" /\ c[n + 1].kind = "answer" => k[n + 1] = k[n] + 1
    BY <1>2, Climbs
  <1> QED BY <1>1, <1>3 DEF Base

\* A line takes the number and what it stands for on together, where the session is known.
LEMMA BaseOn ==
  ASSUME NEW c \in Seq(LineType), NEW k, NEW kind, Whole(c, k, kind), NEW n \in 0..(Len(c) - 1),
         NEW m \in Memory, NEW p \in Memory, NEW s \in Nat, NEW t,
         Moves(kind, c[n + 1], m, s, p, t),
         m.prompt # 0 => Knows(m, kind) /\ Follows(m.prompt, c, n)
  PROVE  /\ t \in Nat
         /\ Takes(c, k, n, s, m.prompt, t, p.prompt)
         /\ Knows(p, kind) => t + Base(c, k, n, m.prompt) = s + Base(c, k, n + 1, p.prompt)
  <1> USE DEF Takes
  <1> DEFINE line == c[n + 1]
             q == m.prompt
  <1>1. /\ n \in Nat /\ n + 1 \in 1..Len(c) /\ k[n] \in Nat /\ k[n + 1] \in Nat /\ k[0] = 0
        /\ n = 0 => line.kind # "answer" /\ k[n + 1] = 0
        /\ n > 0 => /\ line.kind # "meta"
                    /\ line.kind = "answer" => c[n].kind # "meta"
                    /\ k[n + 1] = IF line.kind = "answer" /\ c[n].kind = "prompt" THEN k[n] + 1 ELSE k[n]
        /\ line.kind \in Kinds /\ line.id = n + 1
    BY Climbs
  <1>2. /\ Base(c, k, n, q) \in Nat /\ Base(c, k, n + 1, p.prompt) \in Nat
        /\ q # 0 => Base(c, k, n, q) = k[n]
        /\ n = 0 => Base(c, k, n, q) = 0
        /\ k[n + 1] <= Base(c, k, n + 1, p.prompt)
        /\ p.prompt # 0 => Base(c, k, n + 1, p.prompt) = k[n + 1]
    <2>1. n \in 0..Len(c) /\ n + 1 \in 0..Len(c)
      BY <1>1
    <2> QED BY <2>1, BaseIs
  <1>3. line.kind # "answer" => Base(c, k, n, q) = k[n]
    BY DEF Base
  <1>4. line.kind # "prompt" => Base(c, k, n + 1, p.prompt) = k[n + 1]
    BY <1>1 DEF Base
  <1>5. n < Len(c) /\ (line.kind = "answer" /\ n > 0 /\ c[n].kind = "prompt" /\ q = 0 => Base(c, k, n, q) = k[n + 1])
        /\ (~(n > 0 /\ c[n].kind = "prompt") => Base(c, k, n, q) = k[n])
    BY <1>1 DEF Base
  <1>6. q # 0 => Knows(m, kind) /\ (n > 0 /\ c[n].kind # "meta" => c[n].kind = "prompt")
    <2>1. n > 0 => n \in 1..n /\ Silent(c, n + 1, n)
      BY <1>1 DEF Silent
    <2> QED BY <2>1 DEF Follows
  <1> HIDE DEF line, q
  <1>7. CASE line.kind = "meta" /\ t = s
    <2>1. n = 0
      BY <1>1, <1>7
    <2> QED BY <1>1, <1>2, <1>4, <1>7, <2>1 DEF q
  <1>8. CASE line.kind = "prompt" /\ t = s /\ p.prompt = line.id
    <2>1. Base(c, k, n, q) = k[n] /\ Base(c, k, n + 1, p.prompt) = k[n + 1] /\ k[n + 1] = k[n]
      BY <1>1, <1>2, <1>3, <1>8
    <2> QED BY <1>1, <1>8, <2>1 DEF q
  <1>9. CASE line.kind = "answer" /\ q # 0 /\ t = s + 1
    <2>1. Base(c, k, n, q) = k[n] /\ Base(c, k, n + 1, p.prompt) = k[n + 1] /\ k[n + 1] = k[n] + 1
      BY <1>1, <1>2, <1>4, <1>6, <1>9
    <2>2. t = s + 1
      BY <1>9
    <2>3. t \in Nat /\ \A x \in Nat : t + x = s + (x + 1) /\ t + x <= s + (x + 1)
      BY <2>2
    <2> QED BY <1>1, <2>1, <2>3 DEF q
  <1>10. CASE line.kind = "answer" /\ q = 0 /\ t = s
    <2>1. Base(c, k, n, q) = k[n + 1] /\ Base(c, k, n + 1, p.prompt) = k[n + 1]
      BY <1>1, <1>4, <1>5, <1>10
    <2> QED BY <1>1, <1>10, <2>1 DEF q
  <1>11. CASE line.kind = "prompt" /\ ~Knows(p, kind) /\ t = s
    <2>1. Base(c, k, n, q) = k[n] /\ k[n + 1] = k[n]
      BY <1>1, <1>3, <1>11
    <2> QED BY <1>1, <1>2, <1>11, <2>1 DEF q
  <1>12. \/ line.kind = "meta" /\ t = s
         \/ line.kind = "prompt" /\ t = s /\ p.prompt = line.id
         \/ line.kind = "answer" /\ q # 0 /\ t = s + 1
         \/ line.kind = "answer" /\ q = 0 /\ t = s
         \/ line.kind = "prompt" /\ ~Knows(p, kind) /\ t = s
    BY <1>1, <1>6 DEF Moves, Knows, Kinds, line, q
  <1> QED BY <1>7, <1>8, <1>9, <1>10, <1>11, <1>12

\* What an answer in a row is numbered.
LEMMA RowNumber ==
  ASSUME NEW c \in Seq(LineType), NEW k, NEW kind, Whole(c, k, kind), NEW r, NEW t, Rows(r, t, c), NEW i \in 1..t
  PROVE  r[i][2] \in Nat /\ r[i][2] \in 1..Len(c) /\ k[r[i][2]] \in Nat
  <1>1. r[i][2] \in 1..Len(c)
    BY DEF Rows
  <1>2. r[i][2] \in Nat
    BY <1>1
  <1> QED BY <1>1, <1>2 DEF Whole

\* To have nobody wait keeps a scan behind.
LEMMA BehindAlone ==
  ASSUME NEW c \in Seq(LineType), NEW k, NEW kind, Whole(c, k, kind), NEW r, NEW t, Rows(r, t, c),
         NEW n \in 0..Len(c), NEW s \in Nat, NEW q, Behind(r, t, c, k, n, s, q)
  PROVE  Behind(r, t, c, k, n, s, 0)
  <1>1. t \in Nat /\ s <= t
    BY DEF Rows, Behind
  <1>2. Base(c, k, n, q) \in Nat /\ Base(c, k, n, 0) \in Nat /\ Base(c, k, n, q) <= Base(c, k, n, 0)
    BY BaseIs
  <1>3. ASSUME NEW i \in 1..t, r[i][2] > n PROVE s + k[r[i][2]] <= t + Base(c, k, n, 0)
    <2>1. k[r[i][2]] \in Nat
      BY RowNumber
    <2>2. s + k[r[i][2]] <= t + Base(c, k, n, q)
      BY <1>3 DEF Behind
    <2> QED BY <1>1, <1>2, <2>1, <2>2
  <1> QED BY <1>1, <1>3 DEF Behind

\* So does a line, whatever it records.
LEMMA BehindOn ==
  ASSUME NEW c \in Seq(LineType), NEW k, NEW kind, Whole(c, k, kind), NEW r, NEW t, Rows(r, t, c),
         NEW n \in 0..(Len(c) - 1), NEW s \in Nat, NEW q, Behind(r, t, c, k, n, s, q),
         NEW r2, NEW t2, Grown(r2, t2, r, t, n), NEW s2 \in Nat, NEW q2, s2 <= t2,
         Takes(c, k, n, s, q, s2, q2)
  PROVE  Behind(r2, t2, c, k, n + 1, s2, q2)
  <1>1. t \in Nat /\ t2 \in Nat /\ t <= t2 /\ Len(c) \in Nat /\ n \in 0..Len(c) /\ n + 1 \in 0..Len(c)
    BY DEF Rows, Grown
  <1>2. Base(c, k, n, q) \in Nat /\ Base(c, k, n + 1, q2) \in Nat
    BY <1>1, BaseIs
  <1>3. ASSUME NEW i \in 1..t2, r2[i][2] > n + 1 PROVE s2 + k[r2[i][2]] <= t2 + Base(c, k, n + 1, q2)
    <2>1. i \in 1..t /\ r2[i] = r[i]
      BY <1>1, <1>3 DEF Grown
    <2>2. k[r[i][2]] \in Nat /\ r[i][2] \in Nat
      BY <2>1, RowNumber
    <2>3. s + k[r[i][2]] <= t + Base(c, k, n, q)
      <3>1. r[i][2] > n
        BY <1>1, <1>3, <2>1, <2>2
      <3> QED BY <2>1, <3>1 DEF Behind
    <2>4. s2 + k[r[i][2]] <= t2 + Base(c, k, n + 1, q2)
      <3> DEFINE a == k[r[i][2]]
                 b == Base(c, k, n, q)
                 b2 == Base(c, k, n + 1, q2)
      <3> HIDE DEF a, b, b2
      <3>1. a \in Nat /\ b \in Nat /\ b2 \in Nat /\ s + a <= t + b /\ s2 + b <= s + b2
        BY <1>2, <2>2, <2>3 DEF a, b, b2, Takes
      <3>2. s2 + a <= t2 + b2
        BY <1>1, <3>1
      <3> QED BY <3>2 DEF a, b2
    <2> QED BY <2>1, <2>4
  <1> QED BY <1>3 DEF Behind

\* A new row for an answer that is further on leaves behind what can afford its number.
LEMMA BehindMore ==
  ASSUME NEW c \in Seq(LineType), NEW k, NEW kind, Whole(c, k, kind), NEW r, NEW t, Rows(r, t, c),
         NEW n \in 0..Len(c), NEW s \in Nat, NEW q, Behind(r, t, c, k, n, s, q),
         NEW a \in 0..(Len(c) - 1), NEW r2, NEW t2, Grown(r2, t2, r, t, a),
         s + k[a + 1] <= t2 + Base(c, k, n, q)
  PROVE  Behind(r2, t2, c, k, n, s, q)
  <1>1. t \in Nat /\ t2 \in Nat /\ t <= t2 /\ s <= t /\ Base(c, k, n, q) \in Nat
    BY BaseIs DEF Rows, Behind, Grown
  <1>2. ASSUME NEW i \in 1..t2, r2[i][2] > n PROVE s + k[r2[i][2]] <= t2 + Base(c, k, n, q)
    <2>1. CASE r2[i][2] = a + 1
      BY <2>1
    <2>2. CASE i \in 1..t /\ r2[i] = r[i]
      <3>1. k[r[i][2]] \in Nat
        BY <2>2, RowNumber
      <3>2. s + k[r[i][2]] <= t + Base(c, k, n, q)
        BY <1>2, <2>2 DEF Behind
      <3> DEFINE x == k[r[i][2]]
                 b == Base(c, k, n, q)
      <3> HIDE DEF x, b
      <3>3. x \in Nat /\ b \in Nat /\ s + x <= t + b
        BY <1>1, <3>1, <3>2 DEF x, b
      <3>4. s + x <= t2 + b
        BY <1>1, <3>3
      <3> QED BY <2>2, <3>4 DEF x, b
    <2>3. r2[i][2] = a + 1 \/ (i \in 1..t /\ r2[i] = r[i])
      BY DEF Grown
    <2> QED BY <2>1, <2>2, <2>3
  <1> QED BY <1>1, <1>2 DEF Behind

\* An answer whose number is free is not recorded.
LEMMA NotYet ==
  ASSUME NEW c \in Seq(LineType), NEW k, NEW kind, Whole(c, k, kind), NEW r, NEW t, Rows(r, t, c),
         NEW n \in 0..(Len(c) - 1), NEW q, q # 0, Behind(r, t, c, k, n, t, q), k[n + 1] = k[n] + 1
  PROVE  Missing(r, t, n)
  <1> SUFFICES ASSUME NEW i \in 1..t, r[i][2] = n + 1 PROVE FALSE
    BY DEF Missing
  <1>1. n \in 0..Len(c) /\ n \in Nat /\ Len(c) \in Nat /\ t \in Nat
    BY DEF Rows
  <1>2. Base(c, k, n, q) = k[n] /\ k[n] \in Nat
    BY <1>1, BaseIs
  <1>3. t + k[n + 1] <= t + k[n]
    <2>1. n + 1 > n
      BY <1>1
    <2> QED BY <1>2, <2>1 DEF Behind
  <1>4. t + (k[n] + 1) <= t + k[n]
    BY <1>3
  <1> QED BY <1>1, <1>2, <1>4

\* emit_row's table, after a row for that answer with the number s.
LEMMA RowPut ==
  ASSUME NEW c \in Seq(LineType), NEW r, NEW t, Rows(r, t, c), NEW n \in 0..(Len(c) - 1),
         NEW s \in Nat, s > 0, s <= t + 1, s > t => Missing(r, t, n), NEW r2, IsPut(r2, r, s, n)
  PROVE  \E t2 : Rows(r2, t2, c) /\ s <= t2 /\ Grown(r2, t2, r, t, n)
  <1>1. t \in Nat /\ DOMAIN r = 1..t /\ n + 1 \in 1..Len(c)
        /\ (\A i \in 1..t : r[i][2] \in 1..Len(c))
        /\ \A i, j \in 1..t : r[i][2] = r[j][2] => i = j
    BY DEF Rows
  <1>2. CASE s = t + 1
    <2>1. DOMAIN r2 = 1..(t + 1) /\ \A i \in 1..t : i \in 1..(t + 1)
      BY <1>1, <1>2 DEF IsPut
    <2>2. \A i \in 1..t : r2[i] = r[i]
      BY <1>1 DEF IsPut
    <2>3. \A i \in 1..(t + 1) : i \in 1..t \/ i = t + 1
      BY <1>1
    <2>4. r2[t + 1][2] = n + 1
      BY <1>1, <1>2 DEF IsPut
    <2>5. \A i \in 1..t : r2[i][2] # n + 1
      <3>1. Missing(r, t, n)
        BY <1>1, <1>2
      <3> QED BY <2>2, <3>1 DEF Missing
    <2>6. \A i, j \in 1..(t + 1) : r2[i][2] = r2[j][2] => i = j
      BY <1>1, <2>2, <2>3, <2>4, <2>5
    <2>7. \A i \in 1..(t + 1) : r2[i][2] \in 1..Len(c)
      BY <1>1, <2>2, <2>3, <2>4
    <2>8. Rows(r2, t + 1, c)
      BY <1>1, <2>1, <2>6, <2>7 DEF Rows
    <2>9. \A i \in 1..(t + 1) : (i \in 1..t /\ r2[i] = r[i]) \/ r2[i][2] = n + 1
      BY <2>2, <2>3, <2>4
    <2>10. t + 1 \in Nat /\ t <= t + 1 /\ s <= t + 1
      BY <1>1, <1>2
    <2>11. Grown(r2, t + 1, r, t, n)
      BY <2>9, <2>10 DEF Grown
    <2> QED BY <2>8, <2>10, <2>11
  <1>3. CASE s # t + 1
    <2>1. s \in 1..t /\ s <= t
      BY <1>1, <1>3
    <2>2. DOMAIN r2 = 1..t /\ \A i \in 1..t : r2[i] = r[i]
      BY <1>1, <2>1 DEF IsPut
    <2>3. Rows(r2, t, c)
      BY <1>1, <2>2 DEF Rows
    <2>4. Grown(r2, t, r, t, n)
      BY <1>1, <2>2 DEF Grown
    <2> QED BY <2>1, <2>3, <2>4
  <1> QED BY <1>2, <1>3

\* A scan that is n lines on with the number s is behind, and so is what is stored; one
\* that knows its session has not fallen back since, and holds the prompt it is at.
Passing(r, t, c, k, m, kind, st, n, s) ==
    /\ st.offset <= n
    /\ Behind(r, t, c, k, n, s, m.prompt)
    /\ Behind(r, t, c, k, st.offset, st.seq, 0)
    /\ Knows(m, kind) => /\ st.seq + Base(c, k, n, m.prompt) <= s + Base(c, k, st.offset, 0)
                         /\ n > st.offset /\ c[n].kind = "prompt" => m.prompt # 0

LEMMA PassingBegins ==
  ASSUME NEW c \in Seq(LineType), NEW k, NEW kind, Whole(c, k, kind), NEW r, NEW t, Rows(r, t, c),
         NEW m, NEW st, st.offset \in 0..Len(c), st.seq \in Nat,
         Behind(r, t, c, k, st.offset, st.seq, m.prompt)
  PROVE  Passing(r, t, c, k, m, kind, st, st.offset, st.seq)
  <1>1. Behind(r, t, c, k, st.offset, st.seq, 0)
    BY BehindAlone
  <1>2. /\ Base(c, k, st.offset, m.prompt) \in Nat /\ Base(c, k, st.offset, 0) \in Nat
        /\ Base(c, k, st.offset, m.prompt) <= Base(c, k, st.offset, 0)
    BY BaseIs
  <1>3. st.offset \in Nat
    OBVIOUS
  <1> QED BY <1>1, <1>2, <1>3 DEF Passing

\* What is known of a session that is known stays so at the next line.
LEMMA KnownOn ==
  ASSUME NEW c \in Seq(LineType), NEW k, NEW kind, Whole(c, k, kind), NEW n \in 0..(Len(c) - 1),
         NEW m \in Memory, NEW p \in Memory, NEW s \in Nat, NEW s2,
         Moves(kind, c[n + 1], m, s, p, s2),
         m.prompt # 0 => Knows(m, kind) /\ Follows(m.prompt, c, n),
         NEW r, NEW t, NEW st \in Position, st.seq <= st.offset, Passing(r, t, c, k, m, kind, st, n, s),
         Knows(p, kind)
  PROVE  /\ st.seq + Base(c, k, n + 1, p.prompt) <= s2 + Base(c, k, st.offset, 0)
         /\ n + 1 > st.offset /\ c[n + 1].kind = "prompt" => p.prompt # 0
  <1>1. /\ n \in Nat /\ n + 1 \in 1..Len(c) /\ n \in 0..Len(c) /\ n + 1 \in 0..Len(c)
        /\ c[n + 1].id = n + 1 /\ (n > 0 => c[n + 1].kind # "meta")
    BY Climbs
  <1>2. st.offset \in Nat /\ st.seq \in Nat /\ st.offset <= n /\ st.offset \in 0..Len(c)
    <2>1. st.offset \in Nat /\ st.seq \in Nat
      BY ObserverAssumption DEF Position
    <2>2. st.offset <= n
      BY DEF Passing
    <2> QED BY <1>1, <2>1, <2>2
  <1>3. s2 \in Nat /\ s2 + Base(c, k, n, m.prompt) = s + Base(c, k, n + 1, p.prompt)
    BY BaseOn
  <1>4. /\ Base(c, k, n, m.prompt) \in Nat /\ Base(c, k, n + 1, p.prompt) \in Nat
        /\ Base(c, k, st.offset, 0) \in Nat /\ (n = 0 => Base(c, k, n, m.prompt) = 0)
    BY <1>1, <1>2, BaseIs
  <1>5. st.seq + Base(c, k, n + 1, p.prompt) <= s2 + Base(c, k, st.offset, 0)
    <2> DEFINE b == Base(c, k, n, m.prompt)
               b2 == Base(c, k, n + 1, p.prompt)
               b0 == Base(c, k, st.offset, 0)
    <2>1. CASE Knows(m, kind)
      <3>1. st.seq + b <= s + b0
        BY <2>1 DEF Passing
      <3> HIDE DEF b, b2, b0
      <3>2. st.seq + b2 <= s2 + b0
        BY <1>2, <1>3, <1>4, <3>1 DEF b, b2, b0
      <3> QED BY <3>2 DEF b2, b0
    <2>2. CASE ~Knows(m, kind)
      <3>1. c[n + 1].kind = "meta" /\ s2 = s
        BY <2>2 DEF Knows, Moves
      <3>2. n = 0 /\ st.seq = 0
        BY <1>1, <1>2, <3>1
      <3>3. b = 0
        BY <1>4, <3>2
      <3> HIDE DEF b, b2, b0
      <3>4. st.seq + b2 <= s2 + b0
        <4>1. s + b = s + b2
          BY <1>3, <3>1 DEF b, b2
        <4>2. b2 = 0
          BY <1>4, <3>3, <4>1 DEF b2
        <4> QED BY <1>3, <1>4, <3>2, <4>2 DEF b0
      <3> QED BY <3>4 DEF b2, b0
    <2> QED BY <2>1, <2>2
  <1>6. c[n + 1].kind = "prompt" => p.prompt # 0
    BY <1>1 DEF Moves, Knows
  <1> QED BY <1>5, <1>6

\* An answer that is recorded leaves a scan behind, and what is stored.
LEMMA BehindPut ==
  ASSUME NEW c \in Seq(LineType), NEW k, NEW kind, Whole(c, k, kind), NEW n \in 0..(Len(c) - 1),
         NEW r, NEW t, Rows(r, t, c), NEW r2, NEW s \in Nat, NEW s2 \in Nat, s < s2, s2 <= s + 1,
         IsPut(r2, r, s2, n),
         NEW q, q # 0, NEW q2, Behind(r, t, c, k, n, s, q), k[n + 1] = k[n] + 1,
         Takes(c, k, n, s, q, s2, q2),
         NEW x \in 0..Len(c), NEW u \in Nat, Behind(r, t, c, k, x, u, 0),
         u + k[n] <= s + Base(c, k, x, 0)
  PROVE  \E t2 : /\ Rows(r2, t2, c)
                 /\ Behind(r2, t2, c, k, n + 1, s2, q2) /\ Behind(r2, t2, c, k, x, u, 0)
  <1>1. t \in Nat /\ s <= t /\ s2 > 0 /\ s2 <= t + 1 /\ (s2 > t => s = t)
    BY DEF Rows, Behind
  <1>2. k[n] \in Nat /\ k[n + 1] \in Nat /\ Base(c, k, x, 0) \in Nat
    BY Climbs, BaseIs
  <1>3. s2 > t => Missing(r, t, n)
    <2>1. s = t => Missing(r, t, n)
      BY NotYet
    <2> QED BY <1>1, <2>1
  <1>4. PICK t2 : Rows(r2, t2, c) /\ s2 <= t2 /\ Grown(r2, t2, r, t, n)
    BY <1>1, <1>3, RowPut
  <1>5. Behind(r2, t2, c, k, n + 1, s2, q2)
    BY <1>4, BehindOn
  <1>6. u + k[n + 1] <= t2 + Base(c, k, x, 0)
    <2> DEFINE a == k[n]
               b == Base(c, k, x, 0)
    <2> HIDE DEF a, b
    <2>1. a \in Nat /\ b \in Nat /\ u + a <= s + b /\ t2 \in Nat
      BY <1>2, <1>4 DEF a, b, Grown
    <2>2. u + (a + 1) <= t2 + b
      BY <1>4, <2>1
    <2> QED BY <2>2 DEF a, b
  <1>7. Behind(r2, t2, c, k, x, u, 0)
    BY <1>4, <1>6, BehindMore
  <1> QED BY <1>4, <1>5, <1>7

\* A line of a scan takes it on, with the row it may put.
LEMMA PassingOn ==
  ASSUME NEW c \in Seq(LineType), NEW k, NEW kind, Whole(c, k, kind), NEW n \in 0..(Len(c) - 1),
         NEW m \in Memory, NEW p \in Memory, NEW s \in Nat, NEW s2,
         Moves(kind, c[n + 1], m, s, p, s2),
         m.prompt # 0 => Knows(m, kind) /\ Follows(m.prompt, c, n),
         NEW r, NEW t, Rows(r, t, c), NEW st \in Position, st.seq <= st.offset,
         Passing(r, t, c, k, m, kind, st, n, s),
         NEW r2,
         IF s2 = s THEN r2 = r ELSE IsPut(r2, r, s2, n)
  PROVE  \E t2 : Rows(r2, t2, c) /\ Passing(r2, t2, c, k, p, kind, st, n + 1, s2)
  <1>1. /\ n \in Nat /\ n + 1 \in 1..Len(c) /\ n \in 0..Len(c) /\ n + 1 \in 0..Len(c)
        /\ (n = 0 => c[n + 1].kind # "answer")
        /\ (n > 0 => /\ c[n + 1].kind = "answer" => c[n].kind # "meta"
                     /\ k[n + 1] = IF c[n + 1].kind = "answer" /\ c[n].kind = "prompt" THEN k[n] + 1 ELSE k[n])
    BY Climbs
  <1>2. st.offset \in Nat /\ st.seq \in Nat /\ st.offset <= n /\ st.offset \in 0..Len(c) /\ st.offset <= n + 1
    <2>1. st.offset \in Nat /\ st.seq \in Nat
      BY ObserverAssumption DEF Position
    <2>2. st.offset <= n
      BY DEF Passing
    <2> QED BY <1>1, <2>1, <2>2
  <1>3. s2 \in Nat /\ Takes(c, k, n, s, m.prompt, s2, p.prompt)
    BY BaseOn
  <1>4. /\ Behind(r, t, c, k, n, s, m.prompt) /\ Behind(r, t, c, k, st.offset, st.seq, 0)
        /\ t \in Nat /\ s <= t
    BY DEF Passing, Behind, Rows
  <1>5. Knows(p, kind) => /\ st.seq + Base(c, k, n + 1, p.prompt) <= s2 + Base(c, k, st.offset, 0)
                          /\ n + 1 > st.offset /\ c[n + 1].kind = "prompt" => p.prompt # 0
    BY KnownOn
  <1>6. CASE s2 = s
    <2>1. r2 = r
      BY <1>6
    <2>2. Behind(r, t, c, k, n + 1, s2, p.prompt)
      <3>1. s2 <= t /\ Grown(r, t, r, t, n)
        BY <1>4, <1>6 DEF Grown
      <3> QED BY <1>3, <1>4, <3>1, BehindOn
    <2>3. Passing(r, t, c, k, p, kind, st, n + 1, s2)
      BY <1>2, <1>4, <1>5, <2>2 DEF Passing
    <2> QED BY <2>1, <2>3
  <1>7. CASE s2 # s
    <2>1. m.prompt # 0 /\ c[n + 1].kind = "answer" /\ s2 = s + 1 /\ Knows(m, kind)
      BY <1>7 DEF Moves
    <2>2. k[n + 1] = k[n] + 1 /\ k[n] \in Nat /\ Base(c, k, n, m.prompt) = k[n]
      <3>1. n > 0 /\ n \in 1..n /\ Silent(c, n + 1, n)
        BY <1>1, <2>1 DEF Silent
      <3>2. c[n].kind = "prompt"
        BY <1>1, <2>1, <3>1 DEF Follows
      <3> QED BY <1>1, <2>1, <3>1, <3>2, BaseIs
    <2>3. IsPut(r2, r, s2, n) /\ s < s2 /\ s2 <= s + 1
      BY <1>7, <2>1
    <2>4. st.seq + k[n] <= s + Base(c, k, st.offset, 0)
      BY <2>1, <2>2 DEF Passing
    <2>5. PICK t2 : /\ Rows(r2, t2, c)
                    /\ Behind(r2, t2, c, k, n + 1, s2, p.prompt)
                    /\ Behind(r2, t2, c, k, st.offset, st.seq, 0)
      BY <1>2, <1>3, <1>4, <2>1, <2>2, <2>3, <2>4, BehindPut, SMTT(30)
    <2>6. Passing(r2, t2, c, k, p, kind, st, n + 1, s2)
      BY <1>2, <1>5, <2>5 DEF Passing
    <2> QED BY <2>5, <2>6
  <1> QED BY <1>6, <1>7

\* d is the file c with one line more, h its numbers.
Extends(d, h, c, k) ==
    /\ Len(d) = Len(c) + 1
    /\ \A i \in 1..Len(c) : d[i] = c[i]
    /\ \A i \in 0..Len(c) : h[i] = k[i]

LEMMA WholeOn ==
  ASSUME NEW c \in Seq(LineType), NEW k, NEW kind, Whole(c, k, kind),
         NEW line \in LineType, line.id = Len(c) + 1,
         Len(c) = 0 => line.kind # "answer" /\ (kind = "codex" => line.kind = "meta"),
         Len(c) > 0 => line.kind # "meta" /\ (line.kind = "answer" => c[Len(c)].kind # "meta")
  PROVE  \E h : Extends(Append(c, line), h, c, k) /\ Whole(Append(c, line), h, kind)
  <1> DEFINE w == Len(c)
             d == Append(c, line)
  <1>1. w \in Nat /\ (\A i \in Nat : k[i] \in Nat) /\ Numbered(c, k, w, kind) /\ \A i \in 1..Len(c) : c[i].id = i
    BY DEF Whole
  <1>2. PICK h : /\ \A i \in Nat : h[i] \in Nat
                 /\ \A i \in 0..w : h[i] = k[i]
                 /\ Numbered(d, h, w + 1, kind)
    <2> HIDE DEF w
    <2> QED BY <1>1, AppendNumbered, SMTT(30) DEF w
  <1>3. Len(d) = w + 1 /\ d[w + 1] = line /\ \A i \in 1..w : d[i] = c[i]
    BY Appended
  <1>4. Extends(d, h, c, k)
    BY <1>2, <1>3 DEF Extends
  <1>5. \A i \in 1..Len(d) : d[i].id = i
    <2> SUFFICES ASSUME NEW i \in 1..Len(d) PROVE d[i].id = i
      OBVIOUS
    <2>1. i \in 1..w \/ i = w + 1
      BY <1>1, <1>3
    <2> QED BY <1>1, <1>3, <2>1
  <1>6. Whole(d, h, kind)
    BY <1>2, <1>3, <1>5 DEF Whole
  <1> QED BY <1>4, <1>6

LEMMA BaseGrows ==
  ASSUME NEW c \in Seq(LineType), NEW k, NEW kind, Whole(c, k, kind),
         NEW d \in Seq(LineType), NEW h, Whole(d, h, kind), Extends(d, h, c, k),
         NEW n \in 0..Len(c), NEW q
  PROVE  /\ Base(c, k, n, q) <= Base(d, h, n, q)
         /\ n < Len(c) \/ q # 0 \/ (n > 0 => c[n].kind # "prompt") => Base(d, h, n, q) = Base(c, k, n, q)
  <1>1. Len(c) \in Nat /\ Len(d) = Len(c) + 1 /\ n \in 0..Len(d) /\ n \in Nat /\ h[n] = k[n]
    BY DEF Extends
  <1>2. n > 0 => d[n] = c[n]
    BY <1>1 DEF Extends
  <1>3. k[n] \in Nat /\ Base(d, h, n, q) \in Nat /\ h[n] <= Base(d, h, n, q)
    BY <1>1, BaseIs
  <1>4. CASE n < Len(c)
    <2>1. n + 1 \in 1..Len(c) /\ n + 1 \in 0..Len(c)
      BY <1>1, <1>4
    <2>2. d[n + 1] = c[n + 1] /\ h[n + 1] = k[n + 1]
      BY <2>1 DEF Extends
    <2>3. Base(d, h, n, q) = Base(c, k, n, q)
      BY <1>1, <1>2, <1>4, <2>2 DEF Base
    <2> QED BY <1>3, <2>3
  <1>5. CASE ~(n < Len(c))
    <2>1. Base(c, k, n, q) = k[n]
      BY <1>5 DEF Base
    <2>2. q # 0 \/ (n > 0 => c[n].kind # "prompt") => Base(d, h, n, q) = k[n]
      BY <1>1, <1>2 DEF Base
    <2> QED BY <1>1, <1>3, <1>5, <2>1, <2>2
  <1> QED BY <1>4, <1>5

\* A file that grows leaves its rows, and a scan, where they are.
LEMMA BehindGrows ==
  ASSUME NEW c \in Seq(LineType), NEW k, NEW kind, Whole(c, k, kind),
         NEW d \in Seq(LineType), NEW h, Whole(d, h, kind), Extends(d, h, c, k),
         NEW r, NEW t, Rows(r, t, c), NEW n \in 0..Len(c), NEW s \in Nat, NEW q,
         Behind(r, t, c, k, n, s, q)
  PROVE  Rows(r, t, d) /\ Behind(r, t, d, h, n, s, q)
  <1>1. t \in Nat /\ s <= t
    BY DEF Rows, Behind
  <1>2. /\ Base(c, k, n, q) \in Nat /\ Base(d, h, n, q) \in Nat /\ Base(c, k, n, q) <= Base(d, h, n, q)
    <2>1. n \in 0..Len(d)
      BY DEF Extends
    <2> QED BY <2>1, BaseIs, BaseGrows
  <1>3. ASSUME NEW i \in 1..t
        PROVE  /\ r[i][2] \in 1..Len(d)
               /\ r[i][2] > n => s + h[r[i][2]] <= t + Base(d, h, n, q)
    <2>1. r[i][2] \in Nat /\ r[i][2] \in 1..Len(c) /\ k[r[i][2]] \in Nat
      BY RowNumber
    <2>2. r[i][2] \in 1..Len(d) /\ h[r[i][2]] = k[r[i][2]]
      BY <2>1 DEF Extends
    <2>3. r[i][2] > n => s + k[r[i][2]] <= t + Base(c, k, n, q)
      BY DEF Behind
    <2>4. r[i][2] > n => s + k[r[i][2]] <= t + Base(d, h, n, q)
      <3> DEFINE a == k[r[i][2]]
                 b == Base(c, k, n, q)
                 e == Base(d, h, n, q)
      <3> HIDE DEF a, b, e
      <3>1. a \in Nat /\ b \in Nat /\ e \in Nat /\ b <= e
        BY <1>2, <2>1 DEF a, b, e
      <3>2. s + a <= t + b => s + a <= t + e
        BY <1>1, <3>1
      <3> QED BY <2>3, <3>2 DEF a, b, e
    <2> QED BY <2>2, <2>4
  <1> QED BY <1>1, <1>3 DEF Rows, Behind

LEMMA PassingGrows ==
  ASSUME NEW c \in Seq(LineType), NEW k, NEW kind, Whole(c, k, kind),
         NEW d \in Seq(LineType), NEW h, Whole(d, h, kind), Extends(d, h, c, k),
         NEW r, NEW t, Rows(r, t, c), NEW n \in 0..Len(c), NEW s \in Nat, NEW m, NEW st \in Position,
         Passing(r, t, c, k, m, kind, st, n, s)
  PROVE  Rows(r, t, d) /\ Passing(r, t, d, h, m, kind, st, n, s)
  <1> DEFINE q == m.prompt
             x == st.offset
  <1>1. /\ st.offset <= n /\ Behind(r, t, c, k, n, s, q) /\ Behind(r, t, c, k, x, st.seq, 0)
        /\ st.seq \in Nat /\ x \in 0..Len(c) /\ n \in Nat /\ x \in Nat
    BY ObserverAssumption DEF Passing, Position
  <1>2. Rows(r, t, d) /\ Behind(r, t, d, h, n, s, q) /\ Behind(r, t, d, h, x, st.seq, 0)
    <2> HIDE DEF q, x
    <2> QED BY <1>1, BehindGrows
  <1>3. ASSUME Knows(m, kind)
        PROVE  /\ st.seq + Base(d, h, n, q) <= s + Base(d, h, x, 0)
               /\ n > x /\ d[n].kind = "prompt" => q # 0
    <2>1. /\ st.seq + Base(c, k, n, q) <= s + Base(c, k, x, 0)
          /\ n > x /\ c[n].kind = "prompt" => q # 0
      BY <1>3 DEF Passing
    <2>2. n > 0 => d[n] = c[n]
      BY <1>1 DEF Extends
    <2>3. /\ Base(c, k, n, q) \in Nat /\ Base(c, k, x, 0) \in Nat
          /\ Base(c, k, x, 0) <= Base(d, h, x, 0)
          /\ n < Len(c) \/ q # 0 \/ (n > 0 => c[n].kind # "prompt") => Base(d, h, n, q) = Base(c, k, n, q)
      <3> HIDE DEF q, x
      <3> QED BY <1>1, BaseIs, BaseGrows
    <2>4. Base(d, h, x, 0) \in Nat /\ Base(d, h, n, q) \in Nat
      <3>1. n \in 0..Len(d) /\ x \in 0..Len(d)
        BY <1>1 DEF Extends
      <3> HIDE DEF q, x
      <3> QED BY <3>1, BaseIs
    <2>5. CASE Base(d, h, n, q) = Base(c, k, n, q)
      <3> DEFINE a == Base(c, k, n, q)
                 b == Base(c, k, x, 0)
                 e == Base(d, h, x, 0)
      <3>1. a \in Nat /\ b \in Nat /\ e \in Nat /\ b <= e /\ st.seq + a <= s + b
        BY <2>1, <2>3, <2>4
      <3> HIDE DEF a, b, e
      <3>2. st.seq + a <= s + e
        BY <1>1, <3>1
      <3> QED BY <1>1, <2>1, <2>2, <2>5, <3>2 DEF a, e
    <2>6. CASE ~(n < Len(c)) /\ q = 0 /\ n > 0 /\ c[n].kind = "prompt"
      <3>1. n = x
        BY <1>1, <2>1, <2>6
      <3>2. st.seq <= s
        <4>1. st.seq + Base(c, k, n, q) <= s + Base(c, k, n, q)
          BY <2>1, <2>6, <3>1
        <4> QED BY <1>1, <2>3, <4>1
      <3> QED BY <1>1, <2>4, <2>6, <3>1, <3>2
    <2> QED BY <2>3, <2>5, <2>6
  <1> QED BY <1>1, <1>2, <1>3 DEF Passing

\* Where a scan of the file begins: a document is read as a whole.
Stored(f) == IF format[f] = "array" THEN [offset |-> 0, seq |-> 0] ELSE watcher[f]

\* what o knows of the file, of which t rows are recorded
Steady(o, f, k, t) ==
    LET m == obs[o].memory[f]
        scan == obs[o].scan
    IN  IF f \in scan.file
        THEN Passing(rows[f], t, content[f], k, m, format[f], Stored(f), scan.offset - Len(scan.lines), scan.seq)
        ELSE Behind(rows[f], t, content[f], k, Stored(f).offset, Stored(f).seq, m.prompt)

Uncut(f) == Len(content[f]) = written[f] /\ ~unseen[f] /\ watcher[f].offset <= Len(content[f])

Kept(f, k, t) ==
    /\ Uncut(f)
    /\ Whole(content[f], k, format[f])
    /\ Rows(rows[f], t, content[f])
    /\ \A o \in Observers : Steady(o, f, k, t)

\* What is stored of a file that was not cut is a place in it.
LEMMA StoredType ==
  ASSUME Types, NEW f \in Files, Uncut(f)
  PROVE  /\ Stored(f) \in Position /\ Stored(f).seq <= Stored(f).offset
         /\ Stored(f).offset \in 0..Len(content[f]) /\ Stored(f).offset \in Nat /\ Stored(f).seq \in Nat
         /\ content[f] \in Seq(LineType) /\ Len(content[f]) \in Nat
  <1>1. /\ watcher[f] \in Position /\ watcher[f].seq <= watcher[f].offset
        /\ content[f] \in Seq(LineType) /\ Len(content[f]) \in Nat
    BY DEF Types, StoreTypes, FileTypes
  <1>2. CASE format[f] = "array"
    BY <1>1, <1>2, ObserverAssumption DEF Stored, Position
  <1>3. CASE format[f] # "array"
    BY <1>1, <1>3, ObserverAssumption DEF Stored, Position, Uncut
  <1> QED BY <1>2, <1>3

\* A scan of such a file is within it.
LEMMA ScanWithin ==
  ASSUME Types, Truth, NEW o \in Observers, NEW f \in Files, Uncut(f), f \in obs[o].scan.file
  PROVE  LET scan == obs[o].scan
             at == scan.offset - Len(scan.lines)
             q == obs[o].memory[f].prompt
         IN  /\ at \in 0..Len(content[f]) /\ scan.seq \in Nat /\ at + Len(scan.lines) <= Len(content[f])
             /\ \A i \in 1..Len(scan.lines) : scan.lines[i] = content[f][at + i]
             /\ q # 0 => Knows(obs[o].memory[f], format[f]) /\ Follows(q, content[f], at)
  <1> DEFINE scan == obs[o].scan
             at == scan.offset - Len(scan.lines)
             q == obs[o].memory[f].prompt
  <1>1. Scanned(o, f)
    BY DEF Truth, Followed
  <1>2. scan \in ScanType /\ ScanFits(scan) /\ Len(content[f]) \in Nat
    BY DEF Types, ObserverTypes, Observer, FileTypes
  <1>3. /\ Len(scan.lines) \in Nat /\ scan.offset \in Nat /\ Len(scan.lines) <= scan.offset /\ scan.seq \in Nat
    BY <1>2, ScanNumbers, ObserverAssumption DEF ScanType
  <1>4. ~(Len(content[f]) < scan.offset)
    BY <1>1 DEF Scanned, Uncut
  <1>5. at \in 0..Len(content[f]) /\ at + Len(scan.lines) <= Len(content[f])
    <2> DEFINE a == scan.offset
               l == Len(scan.lines)
               n == Len(content[f])
    <2>1. a \in Nat /\ l \in Nat /\ n \in Nat /\ l <= a /\ ~(n < a)
      BY <1>2, <1>3, <1>4
    <2> HIDE DEF a, l, n
    <2>2. a - l \in 0..n /\ (a - l) + l <= n
      BY <2>1
    <2> QED BY <2>2 DEF a, l, n
  <1>6. \A i \in 1..Len(scan.lines) : scan.lines[i] = content[f][at + i]
    BY <1>1, <1>4 DEF Scanned
  <1>7. q # 0 => Knows(obs[o].memory[f], format[f]) /\ Follows(q, content[f], at)
    BY <1>1, <1>4 DEF Scanned, Truth, Remembered, Knows
  <1> QED BY <1>3, <1>5, <1>6, <1>7

\* A file of which nothing changed is kept as before.
LEMMA KeptSame ==
  ASSUME NEW f \in Files, NEW k, NEW t, Kept(f, k, t),
         content'[f] = content[f], format' = format, written'[f] = written[f], rows'[f] = rows[f],
         unseen'[f] = unseen[f], watcher'[f] = watcher[f],
         \A o \in Observers : obs'[o].memory[f] = obs[o].memory[f] /\
             (obs'[o].scan = obs[o].scan \/ (f \notin obs[o].scan.file /\ f \notin obs'[o].scan.file))
  PROVE  Kept(f, k, t)'
  <1>1. Stored(f)' = Stored(f)
    BY DEF Stored
  <1>2. \A o \in Observers : Steady(o, f, k, t)'
    <2> SUFFICES ASSUME NEW o \in Observers PROVE Steady(o, f, k, t)'
      OBVIOUS
    <2>1. Steady(o, f, k, t)
      BY DEF Kept
    <2> QED BY <1>1, <2>1 DEF Steady
  <1> QED BY <1>2 DEF Kept, Uncut

\* With one observer, what it knows of a file is all that is known.
LEMMA AloneKept ==
  ASSUME One, NEW o \in Observers, NEW f \in Files, NEW k, NEW t, Uncut(f)',
         Whole(content'[f], k, format'[f]), Rows(rows'[f], t, content'[f]), Steady(o, f, k, t)'
  PROVE  Kept(f, k, t)'
  <1>1. \A p \in Observers : p = o
    BY DEF One
  <1>2. \A p \in Observers : Steady(p, f, k, t)'
    BY <1>1
  <1> QED BY <1>2 DEF Kept

LEMMA KeptInit ==
  ASSUME Init, NEW f \in Files, NEW k, \A i \in Nat : k[i] = 0
  PROVE  Kept(f, k, 0)
  <1>1. \A o \in Observers : obs[o].scan = NoScan
    BY DEF Init, Down
  <1>2. /\ content[f] = <<>> /\ rows[f] = <<>> /\ watcher[f] = [offset |-> 0, seq |-> 0] /\ written[f] = 0
        /\ ~unseen[f]
    BY DEF Init
  <1>3. Len(<<>>) = 0 /\ DOMAIN <<>> = {} /\ 1..0 = {} /\ k[0] = 0 /\ \A i \in Nat : k[i] \in Nat
    OBVIOUS
  <1>4. Whole(content[f], k, format[f])
    BY <1>2, <1>3 DEF Numbered, Numbers, Whole
  <1>5. Rows(rows[f], 0, content[f]) /\ Uncut(f) /\ Stored(f).offset = 0 /\ Stored(f).seq = 0
    BY <1>2, <1>3 DEF Rows, Uncut, Stored
  <1>6. \A o \in Observers : Steady(o, f, k, 0)
    BY <1>1, <1>3, <1>5 DEF Steady, NoScan, Behind
  <1> QED BY <1>4, <1>5, <1>6 DEF Kept

LEMMA FinishLineKept ==
  ASSUME Types, Truth, NEW f \in Files, FinishLine(f), NEW k, NEW t, Kept(f, k, t)
  PROVE  \E h : Extends(content'[f], h, content[f], k) /\ Kept(f, h, t)'
  <1>1. PICK line \in LineType :
           /\ line.id = written[f] + 1 /\ line.kind \in Writable(f)
           /\ content' = [content EXCEPT ![f] = Append(@, line)]
    BY FinishLineFile DEF Types
  <1> DEFINE c == content[f]
             d == Append(c, line)
             kind == format[f]
  <1>2. /\ c \in Seq(LineType) /\ content'[f] = d /\ written'[f] = written[f] + 1 /\ d \in Seq(LineType)
        /\ Len(d) = Len(c) + 1 /\ Len(c) \in Nat
    <2>1. c \in Seq(LineType) /\ content'[f] = d /\ written'[f] = written[f] + 1
      BY <1>1 DEF Types, FileTypes, FinishLine
    <2> QED BY <2>1, Appended
  <1>3. \A o \in Observers : obs'[o].scan = obs[o].scan /\ obs'[o].memory = obs[o].memory
    BY NotifyType DEF Types, FinishLine
  <1>4. UNCHANGED <<unseen, watcher, format, rows>> /\ Stored(f)' = Stored(f)
    BY DEF FinishLine, store, Stored
  <1>5. Uncut(f) /\ Whole(c, k, kind) /\ Rows(rows[f], t, c) /\ written[f] = Len(c)
        /\ \A o \in Observers : Steady(o, f, k, t)
    BY DEF Kept, Uncut
  <1>6. PICK h : Extends(d, h, c, k) /\ Whole(d, h, kind)
    <2>1. Numbered(c, k, written[f], kind)
      BY <1>5 DEF Whole
    <2>2. /\ Len(c) = 0 => line.kind # "answer" /\ (kind = "codex" => line.kind = "meta")
          /\ Len(c) > 0 => line.kind # "meta" /\ (line.kind = "answer" => c[Len(c)].kind # "meta")
      BY <1>1, <2>1, WritableNext
    <2>3. line.id = Len(c) + 1
      BY <1>1, <1>5
    <2> HIDE DEF c, kind
    <2> QED BY <1>2, <1>5, <2>2, <2>3, WholeOn
  <1>7. Uncut(f)'
    BY <1>2, <1>4, <1>5, ObserverAssumption DEF Uncut, Types, StoreTypes, Position
  <1>8. Stored(f) \in Position /\ Stored(f).offset \in 0..Len(c) /\ Stored(f).seq \in Nat
    BY <1>5, StoredType
  <1>9. ASSUME NEW o \in Observers
        PROVE  Rows(rows[f], t, d) /\ Steady(o, f, h, t)'
    <2> DEFINE m == obs[o].memory[f]
               scan == obs[o].scan
               r == rows[f]
               at == scan.offset - Len(scan.lines)
               st == Stored(f)
    <2>1. CASE f \in scan.file
      <3>1. at \in 0..Len(c) /\ scan.seq \in Nat
        BY <1>5, <2>1, ScanWithin
      <3>2. Passing(r, t, c, k, m, kind, st, at, scan.seq)
        BY <1>5, <2>1 DEF Steady
      <3>3. Rows(r, t, d) /\ Passing(r, t, d, h, m, kind, st, at, scan.seq)
        <4> HIDE DEF c, d, kind, m, r, at, st
        <4> QED BY <1>2, <1>5, <1>6, <1>8, <3>1, <3>2, PassingGrows DEF st, r
      <3> QED BY <1>2, <1>3, <1>4, <2>1, <3>3 DEF Steady
    <2>2. CASE f \notin scan.file
      <3>1. Behind(r, t, c, k, st.offset, st.seq, m.prompt)
        BY <1>5, <2>2 DEF Steady
      <3>2. Rows(r, t, d) /\ Behind(r, t, d, h, st.offset, st.seq, m.prompt)
        <4> HIDE DEF c, d, kind, m, r, st
        <4> QED BY <1>2, <1>5, <1>6, <1>8, <3>1, BehindGrows DEF st, r
      <3> QED BY <1>2, <1>3, <1>4, <2>2, <3>2 DEF Steady
    <2> QED BY <2>1, <2>2
  <1>10. Rows(rows[f], t, d)
    BY <1>9, ObserverAssumption
  <1>11. Kept(f, h, t)'
    BY <1>2, <1>4, <1>6, <1>7, <1>9, <1>10 DEF Kept
  <1> QED BY <1>2, <1>6, <1>11

\* An observer that dies, or starts, knows what is stored.
LEMMA ForgetKept ==
  ASSUME One, Types, NEW o \in Observers, NEW f \in Files, NEW k, NEW t, Kept(f, k, t),
         UNCHANGED <<format, content, written, unseen, watcher, rows>>,
         obs'[o].scan = NoScan, obs'[o].memory[f].prompt = 0
  PROVE  Kept(f, k, t)'
  <1> DEFINE c == content[f]
             r == rows[f]
             kind == format[f]
             q == obs[o].memory[f].prompt
             x == Stored(f).offset
             u == Stored(f).seq
  <1>1. Uncut(f) /\ Whole(c, k, kind) /\ Rows(r, t, c) /\ Steady(o, f, k, t)
    BY DEF Kept
  <1>2. c \in Seq(LineType) /\ x \in 0..Len(c) /\ u \in Nat
    BY <1>1, StoredType
  <1>3. Behind(r, t, c, k, x, u, 0)
    <2>1. CASE f \in obs[o].scan.file
      BY <1>1, <2>1 DEF Steady, Passing
    <2>2. CASE f \notin obs[o].scan.file
      <3>1. Behind(r, t, c, k, x, u, q)
        BY <1>1, <2>2 DEF Steady
      <3> HIDE DEF c, r, kind, q, x, u
      <3> QED BY <1>1, <1>2, <3>1, BehindAlone
    <2> QED BY <2>1, <2>2
  <1>4. Stored(f)' = Stored(f)
    BY DEF Stored
  <1>5. Steady(o, f, k, t)'
    BY <1>3, <1>4 DEF Steady, NoScan
  <1> QED BY <1>1, <1>5, AloneKept DEF Uncut

LEMMA LoadKept ==
  ASSUME One, Types, NEW o \in Observers, NEW f \in Files, Load(o, f),
         NEW g \in Files, NEW k, NEW t, Kept(g, k, t)
  PROVE  Kept(g, k, t)'
  <1>1. PICK scan \in ScanType : Loaded(o, f, scan)
    BY LoadEffect
  <1>2. obs'[o].scan = scan /\ obs'[o].memory = obs[o].memory /\ obs[o].scan = NoScan /\ \A p \in Observers : p = o
    <2>1. obs'[o].scan = scan /\ obs'[o].memory = obs[o].memory
      BY <1>1 DEF Loaded, Types, ObserverTypes, Observer
    <2> QED BY <2>1 DEF One, Load, Idle
  <1>3. /\ UNCHANGED <<format, content, written, watcher, rows>>
        /\ unseen'[f] = FALSE /\ \A x \in Files \ {f} : unseen'[x] = unseen[x]
    BY DEF Load, store, Types, FileTypes
  <1>4. Uncut(g) /\ Whole(content[g], k, format[g]) /\ Rows(rows[g], t, content[g]) /\ Steady(o, g, k, t)
        /\ unseen'[g] = unseen[g]
    BY <1>3 DEF Kept, Uncut, Types, FileTypes
  <1>5. CASE g # f \/ scan = NoScan
    <2>1. g \notin obs'[o].scan.file /\ g \notin obs[o].scan.file
      BY <1>1, <1>2, <1>5 DEF Loaded, NoScan
    <2> QED BY <1>2, <1>3, <1>4, <2>1, KeptSame
  <1>6. CASE g = f /\ scan # NoScan
    <2> DEFINE c == content[g]
               r == rows[g]
               kind == format[g]
               m == obs[o].memory[g]
               st == Stored(g)
    <2>1. /\ scan.file = {g} /\ scan.lines = Batch(g).lines
          /\ scan.offset = Batch(g).offset /\ scan.seq = Batch(g).seq
      BY <1>1, <1>6 DEF Loaded
    <2>2. PICK n \in 0..Len(c) : ReadsFrom(g, n)
      BY BatchType DEF Types
    <2>3. c \in Seq(LineType) /\ st.offset \in 0..Len(c) /\ st.seq \in Nat /\ watcher[g].offset \in Nat
          /\ Len(c) \in Nat
      BY <1>4, StoredType, ObserverAssumption DEF Types, StoreTypes, Position
    <2>4. n = st.offset /\ scan.seq = st.seq
      <3>1. ~(Len(c) < watcher[g].offset)
        BY <1>4, <2>3 DEF Uncut
      <3>2. scan.seq \in Nat /\ scan.seq <= n
        BY <2>1, <2>2, ObserverAssumption DEF ReadsFrom
      <3> QED BY <2>1, <2>2, <3>1, <3>2 DEF ReadsFrom, Stored
    <2>5. scan.offset - Len(scan.lines) = n
      <3>1. scan.offset \in n..Len(c) /\ Len(scan.lines) = scan.offset - n
        BY <2>1, <2>2 DEF ReadsFrom
      <3> DEFINE a == scan.offset
                 l == Len(scan.lines)
                 e == Len(c)
      <3>2. a \in n..e /\ l = a - n /\ e \in Nat /\ n \in 0..e
        BY <2>3, <3>1
      <3> HIDE DEF a, l, e
      <3>3. a - l = n
        BY <3>2
      <3> QED BY <3>3 DEF a, l
    <2>6. Behind(r, t, c, k, st.offset, st.seq, m.prompt)
      BY <1>2, <1>4 DEF Steady, NoScan
    <2>7. Passing(r, t, c, k, m, kind, st, st.offset, st.seq)
      <3> HIDE DEF c, r, kind, m, st
      <3> QED BY <1>4, <2>3, <2>6, PassingBegins DEF c, r, kind
    <2>8. Steady(o, g, k, t)'
      <3>1. Stored(g)' = st
        BY <1>3 DEF Stored
      <3> QED BY <1>2, <1>3, <2>1, <2>4, <2>5, <2>7, <3>1 DEF Steady
    <2> QED BY <1>3, <1>4, <2>8, AloneKept DEF Uncut
  <1> QED BY <1>5, <1>6

LEMMA LoadGoneKept ==
  ASSUME One, Types, NEW o \in Observers, NEW f \in Files, LoadGone(o, f),
         NEW g \in Files, NEW k, NEW t, Kept(g, k, t)
  PROVE  Kept(g, k, t)'
  <1>1. obs'[o].scan = obs[o].scan /\ obs'[o].memory = obs[o].memory /\ \A p \in Observers : p = o
    BY DEF One, LoadGone, Types, ObserverTypes, Observer
  <1>2. UNCHANGED <<format, content, written, rows>> /\ content[f] = <<>>
        /\ watcher'[f] = [offset |-> 0, seq |-> 0] /\ unseen'[f] = FALSE
        /\ \A x \in Files \ {f} : unseen'[x] = unseen[x] /\ watcher'[x] = watcher[x]
    BY DEF LoadGone, Types, FileTypes, StoreTypes
  <1>3. unseen'[g] = unseen[g] /\ watcher'[g] = watcher[g]
    <2>1. CASE g # f
      BY <1>2, <2>1
    <2>2. CASE g = f
      <3>1. watcher[g] \in Position /\ watcher[g].seq <= watcher[g].offset /\ Len(<<>>) = 0
        BY DEF Types, StoreTypes
      <3>2. watcher[g].offset <= 0 /\ unseen[g] = FALSE
        BY <1>2, <2>2, <3>1 DEF Kept, Uncut, Types, FileTypes
      <3>3. watcher[g].offset = 0 /\ watcher[g].seq = 0
        BY <3>1, <3>2, ObserverAssumption DEF Position
      <3> QED BY <1>2, <2>2, <3>1, <3>2, <3>3 DEF Position
    <2> QED BY <2>1, <2>2
  <1> QED BY <1>1, <1>2, <1>3, KeptSame

LEMMA CollectKept ==
  ASSUME One, Types, NEW o \in Observers, Collect(o), NEW g \in Files, NEW k, NEW t, Kept(g, k, t)
  PROVE  Kept(g, k, t)'
  <1>1. /\ obs'[o].scan = NoScan /\ obs[o].scan = NoScan /\ \A p \in Observers : p = o
        /\ obs'[o].memory[g] = obs[o].memory[g] \/ obs'[o].memory[g].prompt = 0
    BY DEF One, Collect, Types, ObserverTypes, Observer, Idle, NoPair
  <1>2. UNCHANGED <<format, content, written, rows, watcher, unseen>>
    BY DEF Collect, file, store
  <1> QED BY <1>1, <1>2, KeptSame, ForgetKept

LEMMA SaveKept ==
  ASSUME One, Types, Truth, NEW o \in Observers, Save(o), NEW g \in Files, NEW k, NEW t, Kept(g, k, t)
  PROVE  Kept(g, k, t)'
  <1>1. /\ obs'[o].scan = NoScan /\ obs'[o].memory = obs[o].memory
        /\ obs[o].scan # NoScan /\ obs[o].scan.lines = <<>> /\ obs[o].scan \in ScanType
        /\ ScanFits(obs[o].scan) /\ \A p \in Observers : p = o
    BY DEF One, Save, Types, ObserverTypes, Observer
  <1>2. PICK f \in Files : obs[o].scan.file = {f}
    BY <1>1 DEF ScanFits
  <1>3. /\ UNCHANGED <<format, content, written, rows, unseen>>
        /\ watcher'[f].offset = obs[o].scan.offset /\ watcher'[f].seq = obs[o].scan.seq
        /\ \A x \in Files \ {f} : watcher'[x] = watcher[x]
    BY <1>2 DEF Save, file, Types, StoreTypes
  <1>4. Uncut(g) /\ Whole(content[g], k, format[g]) /\ Rows(rows[g], t, content[g]) /\ Steady(o, g, k, t)
    BY DEF Kept
  <1>5. CASE g # f
    <2>1. g \notin obs[o].scan.file /\ g \notin NoScan.file
      BY <1>2, <1>5 DEF NoScan
    <2> QED BY <1>1, <1>3, <1>5, <2>1, KeptSame
  <1>6. CASE g = f
    <2> DEFINE c == content[g]
               r == rows[g]
               kind == format[g]
               m == obs[o].memory[g]
               scan == obs[o].scan
    <2>1. /\ scan.offset - Len(scan.lines) = scan.offset /\ scan.offset \in 0..Len(c)
      <3>1. Len(scan.lines) = 0 /\ scan.offset \in Nat
        BY <1>1, ScanNumbers
      <3>2. scan.offset - Len(scan.lines) \in 0..Len(c)
        BY <1>2, <1>4, <1>6, ScanWithin
      <3> QED BY <3>1, <3>2
    <2>2. Passing(r, t, c, k, m, kind, Stored(g), scan.offset, scan.seq)
      BY <1>2, <1>4, <1>6, <2>1 DEF Steady
    <2>3. Behind(r, t, c, k, Stored(g)'.offset, Stored(g)'.seq, m.prompt)
      <3>1. CASE kind # "array"
        <4>1. Stored(g)' = watcher'[g]
          BY <1>3, <3>1 DEF Stored
        <4> QED BY <1>3, <1>6, <2>2, <4>1 DEF Passing
      <3>2. CASE kind = "array"
        <4>1. Stored(g).offset = 0 /\ Stored(g).seq = 0 /\ Stored(g)'.offset = 0 /\ Stored(g)'.seq = 0
          BY <1>3, <3>2 DEF Stored
        <4>2. Behind(r, t, c, k, 0, 0, 0)
          BY <2>2, <4>1 DEF Passing
        <4>3. Base(c, k, 0, m.prompt) = Base(c, k, 0, 0)
          BY DEF Base
        <4>4. Behind(r, t, c, k, 0, 0, m.prompt)
          BY <4>2, <4>3 DEF Behind
        <4> QED BY <4>1, <4>4
      <3> QED BY <3>1, <3>2
    <2>4. Steady(o, g, k, t)'
      BY <1>1, <1>3, <2>3 DEF Steady, NoScan
    <2>5. Uncut(g)'
      BY <1>3, <1>4, <1>6, <2>1 DEF Uncut
    <2> QED BY <1>3, <1>4, <2>4, <2>5, AloneKept
  <1> QED BY <1>5, <1>6

LEMMA LineKept ==
  ASSUME One, Types, Truth, NEW o \in Observers, Line(o), NEW g \in Files, NEW k, NEW t, Kept(g, k, t)
  PROVE  \E t2 : Kept(g, k, t2)'
  <1>1. PICK f \in Files, n \in 0..MaxLines, p \in Memory : Heard(o, f, n, p)
    BY LineEffect
  <1> DEFINE scan == obs[o].scan
             next == obs'[o].scan
             line == Head(scan.lines)
             m == obs[o].memory[f]
             c == content[f]
             at == scan.offset - Len(scan.lines)
             st == Stored(f)
             kind == format[f]
  <1>2. /\ UNCHANGED <<format, content, written, unseen, watcher>>
        /\ scan # NoScan /\ scan.lines # <<>> /\ scan.file = {f} /\ \A x \in Observers : x = o
    BY <1>1 DEF One, Line, file, Heard
  <1>3. /\ scan \in ScanType /\ ScanFits(scan) /\ obs[o] \in Observer /\ obs \in [Observers -> Observer]
        /\ c \in Seq(LineType)
    BY DEF Types, ObserverTypes, Observer, FileTypes
  <1>4. /\ next.file = {f} /\ next.offset = scan.offset /\ next.lines = Tail(scan.lines) /\ next.seq = n
        /\ obs'[o].memory[f] = p /\ \A x \in Files \ {f} : obs'[o].memory[x] = obs[o].memory[x]
    <2>1. obs'[o] = [obs[o] EXCEPT !.scan = [obs[o].scan EXCEPT !.lines = Tail(obs[o].scan.lines), !.seq = n],
                                   !.memory = [obs[o].memory EXCEPT ![f] = p]]
      BY <1>1, <1>3 DEF Heard
    <2>2. obs[o].memory \in [Files -> Memory]
      BY <1>3 DEF Observer
    <2>3. obs'[o].memory = [obs[o].memory EXCEPT ![f] = p]
          /\ next = [scan EXCEPT !.lines = Tail(scan.lines), !.seq = n]
      BY <1>3, <2>1 DEF Observer
    <2> QED BY <1>2, <1>3, <2>2, <2>3 DEF ScanType
  <1>5. CASE g # f
    <2>1. rows'[g] = rows[g]
      <3>1. CASE rows' = rows
        BY <3>1
      <3>2. CASE rows' # rows
        BY <1>1, <1>5, <3>2 DEF Heard, Inserted, Types, StoreTypes
      <3> QED BY <3>1, <3>2
    <2>2. Kept(g, k, t)'
      BY <1>2, <1>4, <1>5, <2>1, KeptSame
    <2> QED BY <2>2
  <1>6. CASE g = f
    <2>1. Uncut(f) /\ Whole(c, k, kind) /\ Rows(rows[f], t, c)
          /\ Passing(rows[f], t, c, k, m, kind, st, at, scan.seq)
      BY <1>2, <1>6 DEF Kept, Steady
    <2>2. /\ at \in 0..Len(c) /\ at + Len(scan.lines) <= Len(c) /\ scan.seq \in Nat
          /\ \A i \in 1..Len(scan.lines) : scan.lines[i] = c[at + i]
          /\ m.prompt # 0 => Knows(m, kind) /\ Follows(m.prompt, c, at)
      BY <1>2, <2>1, ScanWithin
    <2>3. at \in 0..(Len(c) - 1) /\ line = c[at + 1] /\ next.offset - Len(next.lines) = at + 1 /\ line.id = at + 1
      <3>1. scan.lines \in Seq(LineType) /\ Len(scan.lines) \in Nat \ {0} /\ scan.offset \in Nat
            /\ Len(scan.lines) <= scan.offset /\ Len(c) \in Nat
        <4>1. scan.lines \in Seq(LineType) /\ scan.offset \in Nat /\ Len(scan.lines) <= scan.offset
          BY <1>3, ScanNumbers
        <4> QED BY <1>2, <1>3, <4>1
      <3>2. line = scan.lines[1] /\ 1 \in 1..Len(scan.lines) /\ Len(Tail(scan.lines)) = Len(scan.lines) - 1
        BY <1>2, <3>1
      <3>3. scan.offset - (Len(scan.lines) - 1) = at + 1
        BY <3>1, OneOn
      <3>4. at \in 0..(Len(c) - 1) /\ at + 1 \in 1..Len(c)
        <4> DEFINE l == Len(scan.lines)
                   e == Len(c)
        <4>1. at \in 0..e /\ l \in Nat \ {0} /\ e \in Nat /\ at + l <= e
          BY <2>2, <3>1
        <4> HIDE DEF at, l, e
        <4>2. at \in 0..(e - 1) /\ at + 1 \in 1..e
          BY <4>1
        <4> QED BY <4>2 DEF e
      <3>5. line = c[at + 1]
        BY <2>2, <3>2
      <3> QED BY <1>4, <2>1, <3>2, <3>3, <3>4, <3>5 DEF Whole
    <2>4. Moves(kind, c[at + 1], m, scan.seq, p, n)
      BY <1>1, <2>3 DEF Heard, Moves
    <2>5. IF n = scan.seq THEN rows'[f] = rows[f] ELSE IsPut(rows'[f], rows[f], n, at)
      <3>1. CASE n = scan.seq
        <4>1. n # scan.seq + 1
          BY <2>2, <3>1
        <4>2. rows' = rows
          BY <1>1, <4>1 DEF Heard
        <4> QED BY <3>1, <4>2
      <3>2. CASE n # scan.seq
        <4>1. rows' = Inserted(f, n, <<m.prompt, line.id>>)
          BY <1>1, <3>2 DEF Heard
        <4>2. rows'[f] = [x \in DOMAIN rows[f] \cup {n} |->
                             IF x \in DOMAIN rows[f] THEN rows[f][x] ELSE <<m.prompt, line.id>>]
          BY <4>1 DEF Inserted, Types, StoreTypes
        <4>3. <<m.prompt, line.id>>[2] = at + 1
          BY <2>3
        <4> HIDE DEF m, line, at
        <4>4. IsPut(rows'[f], rows[f], n, at)
          BY <4>2, <4>3 DEF IsPut
        <4> QED BY <3>2, <4>4
      <3> QED BY <3>1, <3>2
    <2>6. st \in Position /\ st.seq <= st.offset /\ m \in Memory
      BY <1>3, <2>1, StoredType DEF Observer
    <2>7. PICK t2 : Rows(rows'[f], t2, c) /\ Passing(rows'[f], t2, c, k, p, kind, st, at + 1, n)
      <3> DEFINE r == rows[f]
                 r2 == rows'[f]
                 s == scan.seq
      <3>1. /\ c \in Seq(LineType) /\ Whole(c, k, kind) /\ at \in 0..(Len(c) - 1) /\ m \in Memory /\ s \in Nat
            /\ Moves(kind, c[at + 1], m, s, p, n)
            /\ m.prompt # 0 => Knows(m, kind) /\ Follows(m.prompt, c, at)
            /\ Rows(r, t, c) /\ st \in Position /\ st.seq <= st.offset /\ Passing(r, t, c, k, m, kind, st, at, s)
            /\ IF n = s THEN r2 = r ELSE IsPut(r2, r, n, at)
        BY <1>3, <2>1, <2>2, <2>3, <2>4, <2>5, <2>6
      <3> HIDE DEF c, kind, at, m, s, r, r2, st
      <3>2. \E t2 : Rows(r2, t2, c) /\ Passing(r2, t2, c, k, p, kind, st, at + 1, n)
        BY <3>1, PassingOn
      <3> QED BY <3>2 DEF r2
    <2>8. Steady(o, f, k, t2)'
      <3>1. Stored(f)' = st
        BY <1>2 DEF Stored
      <3> QED BY <1>2, <1>4, <2>3, <2>7, <3>1 DEF Steady
    <2>9. Kept(f, k, t2)'
      BY <1>2, <2>1, <2>7, <2>8, AloneKept DEF Uncut
    <2> QED BY <1>6, <2>9
  <1> QED BY <1>5, <1>6

-----------------------------------------------------------------------------
(* What deaths may have cost *)

\* The pairs of the first n lines, with the one that is interrupted when no prompt waits.
Due(c, k, n, q) == IF n > 0 /\ q = 0 /\ c[n].kind = "prompt" THEN k[n] + 1 ELSE k[n]

\* No more than one for each of x deaths has no number up to s.
Owes(c, k, n, q, s, x) == Due(c, k, n, q) <= s + x

\* sessions whose lines tell whose they are, and that are not read as a whole
Plain(f) == format[f] # "codex" /\ format[f] # "array"

Owed(f, k) ==
    /\ cut[f] = 0
    /\ Said(f) <= k[Len(content[f])]
    /\ Plain(f) =>
         /\ k[watcher[f].offset] <= watcher[f].seq + faults.crashes
         /\ \A o \in Observers :
              LET scan == obs[o].scan
                  q == obs[o].memory[f].prompt
              IN  IF f \in scan.file
                  THEN Owes(content[f], k, scan.offset - Len(scan.lines), q, scan.seq, faults.crashes)
                  ELSE Owes(content[f], k, watcher[f].offset, q, watcher[f].seq, faults.crashes)

LEMMA OwedInit ==
  ASSUME Init, NEW f \in Files, NEW k, \A i \in Nat : k[i] = 0
  PROVE  Owed(f, k)
  <1>1. /\ content[f] = <<>> /\ watcher[f] = [offset |-> 0, seq |-> 0]
        /\ turns[f] = {} /\ cut[f] = 0 /\ Len(<<>>) = 0 /\ k[0] = 0 /\ faults.crashes = 0
    BY DEF Init
  <1>2. \A o \in Observers : f \notin obs[o].scan.file
    BY DEF Init, Down, NoScan
  <1>3. Said(f) = 0
    BY <1>1, FS_EmptySet DEF Said
  <1>4. \A q : Owes(content[f], k, 0, q, 0, 0)
    BY <1>1 DEF Owes, Due
  <1> QED BY <1>1, <1>2, <1>3, <1>4 DEF Owed

LEMMA OwedSame ==
  ASSUME NEW f \in Files, NEW k, Owed(f, k),
         content'[f] = content[f], turns'[f] = turns[f], cut'[f] = cut[f], format' = format,
         watcher'[f] = watcher[f], faults'.crashes = faults.crashes,
         \A o \in Observers : obs'[o].memory[f].prompt = obs[o].memory[f].prompt /\
             (obs'[o].scan = obs[o].scan \/ (f \notin obs[o].scan.file /\ f \notin obs'[o].scan.file))
  PROVE  Owed(f, k)'
  <1>1. Said(f)' = Said(f) /\ Plain(f)' = Plain(f)
    BY DEF Said, Plain
  <1>2. ASSUME Plain(f), NEW o \in Observers
        PROVE  LET scan == obs'[o].scan
                   q == obs'[o].memory[f].prompt
                   x == faults'.crashes
               IN  IF f \in scan.file
                   THEN Owes(content'[f], k, scan.offset - Len(scan.lines), q, scan.seq, x)
                   ELSE Owes(content'[f], k, watcher'[f].offset, q, watcher'[f].seq, x)
    BY <1>2 DEF Owed
  <1> QED BY <1>1, <1>2 DEF Owed

\* With one observer, what it owes is all.
LEMMA AloneOwed ==
  ASSUME One, NEW o \in Observers, NEW f \in Files, NEW k, cut'[f] = 0,
         Said(f)' <= k[Len(content'[f])],
         k[watcher'[f].offset] <= watcher'[f].seq + faults'.crashes,
         NEW q, q = obs'[o].memory[f].prompt,
         IF f \in obs'[o].scan.file
         THEN Owes(content'[f], k, obs'[o].scan.offset - Len(obs'[o].scan.lines), q, obs'[o].scan.seq,
                   faults'.crashes)
         ELSE Owes(content'[f], k, watcher'[f].offset, q, watcher'[f].seq, faults'.crashes)
  PROVE  Owed(f, k)'
  <1>1. \A p \in Observers : p = o
    BY DEF One
  <1> QED BY <1>1 DEF Owed

\* A line owes no more than the one before.
LEMMA DueOn ==
  ASSUME NEW c \in Seq(LineType), NEW k, NEW kind, Whole(c, k, kind), NEW n \in 0..(Len(c) - 1),
         NEW m \in Memory, NEW p \in Memory, NEW s \in Nat, NEW t, NEW x \in Nat,
         kind # "codex", Moves(kind, c[n + 1], m, s, p, t),
         Owes(c, k, n, m.prompt, s, x)
  PROVE  Owes(c, k, n + 1, p.prompt, t, x)
  <1> DEFINE line == c[n + 1]
             q == m.prompt
  <1>1. /\ n \in Nat /\ k[n] \in Nat /\ k[n + 1] \in Nat /\ k[0] = 0
        /\ n = 0 => line.kind # "answer" /\ k[n + 1] = 0
        /\ n > 0 => /\ line.kind # "meta"
                    /\ k[n + 1] = IF line.kind = "answer" /\ c[n].kind = "prompt" THEN k[n] + 1 ELSE k[n]
        /\ line.kind \in Kinds /\ line.id = n + 1
    BY Climbs
  <1>2. Due(c, k, n, q) <= s + x
    BY DEF Owes
  <1> HIDE DEF line, q
  <1>3. CASE line.kind = "meta" /\ t = s
    <2>1. Due(c, k, n, q) = 0 /\ Due(c, k, n + 1, p.prompt) = 0
      BY <1>1, <1>3 DEF Due, line
    <2> QED BY <1>2, <1>3, <2>1 DEF Owes
  <1>4. CASE line.kind = "prompt" /\ t = s /\ p.prompt = line.id
    <2>1. Due(c, k, n + 1, p.prompt) = k[n + 1] /\ k[n + 1] <= k[n]
      BY <1>1, <1>4 DEF Due, line
    <2>2. k[n] <= Due(c, k, n, q) /\ Due(c, k, n, q) \in Nat
      BY <1>1 DEF Due
    <2> QED BY <1>1, <1>2, <1>4, <2>1, <2>2 DEF Owes
  <1>5. CASE line.kind = "answer" /\ q # 0 /\ t = s + 1
    <2>1. Due(c, k, n + 1, p.prompt) = k[n + 1] /\ k[n + 1] <= k[n] + 1 /\ Due(c, k, n, q) = k[n]
      BY <1>1, <1>5 DEF Due, line
    <2> QED BY <1>1, <1>2, <1>5, <2>1 DEF Owes
  <1>6. CASE line.kind = "answer" /\ q = 0 /\ t = s
    <2>1. Due(c, k, n + 1, p.prompt) = k[n + 1] /\ Due(c, k, n, q) = k[n + 1]
      BY <1>1, <1>6 DEF Due, line
    <2> QED BY <1>1, <1>2, <1>6, <2>1 DEF Owes
  <1>7. \/ line.kind = "meta" /\ t = s
        \/ line.kind = "prompt" /\ t = s /\ p.prompt = line.id
        \/ line.kind = "answer" /\ q # 0 /\ t = s + 1
        \/ line.kind = "answer" /\ q = 0 /\ t = s
    BY <1>1 DEF Moves, Kinds, line, q
  <1> QED BY <1>3, <1>4, <1>5, <1>6, <1>7

\* What is stored owes no more than what it will be compared with later, at most one more.
LEMMA DueIs ==
  ASSUME NEW c \in Seq(LineType), NEW k, NEW kind, Whole(c, k, kind), NEW n \in 0..Len(c), NEW q
  PROVE  /\ n \in Nat /\ k[n] \in Nat /\ Due(c, k, n, q) \in Nat
         /\ k[n] <= Due(c, k, n, q) /\ Due(c, k, n, q) <= k[n] + 1
         /\ n = 0 => Due(c, k, n, q) = 0
  <1>1. n \in Nat /\ k[n] \in Nat /\ k[0] = 0
    BY DEF Whole, Numbered
  <1> QED BY <1>1 DEF Due

LEMMA FinishLineOwed ==
  ASSUME Types, Truth, NEW f \in Files, FinishLine(f), NEW k, NEW t, Kept(f, k, t), Owed(f, k),
         NEW h, Extends(content'[f], h, content[f], k), Kept(f, h, t)'
  PROVE  Owed(f, h)'
  <1> DEFINE c == content[f]
             d == content'[f]
             e == Len(c)
             x == faults.crashes
  <1>1. /\ Whole(c, k, format[f]) /\ Whole(d, h, format[f]) /\ Uncut(f) /\ written[f] = e /\ e \in Nat
        /\ Len(d) = e + 1 /\ (\A i \in 1..e : d[i] = c[i]) /\ (\A i \in 0..e : h[i] = k[i])
        /\ c \in Seq(LineType) /\ watcher[f].offset \in 0..e
    <2>1. watcher[f].offset \in Nat /\ c \in Seq(LineType) /\ e \in Nat
      BY ObserverAssumption DEF Types, StoreTypes, Position, FileTypes
    <2>2. Uncut(f) /\ Whole(c, k, format[f]) /\ Whole(d, h, format[f])
      BY DEF Kept, FinishLine
    <2>3. written[f] = e /\ watcher[f].offset <= e
      BY <2>2 DEF Uncut
    <2>4. watcher[f].offset \in 0..e
      <3> HIDE DEF e
      <3> QED BY <2>1, <2>3
    <2> QED BY <2>1, <2>2, <2>3, <2>4 DEF Extends
  <1>2. UNCHANGED <<format, cut, watcher, faults>> /\ \A o \in Observers : obs'[o].scan = obs[o].scan /\ obs'[o].memory = obs[o].memory
    BY NotifyType DEF Types, FinishLine, store
  <1>3. Said(f)' <= h[Len(d)]
    <2>1. OneMore(Said(f), Said(f)', c, d, k, h)
      <3> DEFINE w == written[f]
                 w2 == Len(d)
      <3>1. /\ \A i \in Nat : k[i] \in Nat
            /\ \A i \in Nat : h[i] \in Nat
            /\ Numbered(c, k, w, format[f]) /\ Numbered(d, h, w2, format[f]) /\ w \in Nat
            /\ \A i \in 0..w : h[i] = k[i]
        BY <1>1 DEF Whole
      <3> HIDE DEF w2
      <3> QED BY <3>1, LineSaid
    <2>2. IdAt(d, e + 1) = e + 1 /\ IdAt(c, e) = e
      <3>1. e + 1 \in 1..Len(d) /\ e + 1 # 0 /\ (e # 0 => e \in 1..e)
        BY <1>1
      <3> QED BY <1>1, <3>1 DEF IdAt, Whole
    <2>3. /\ Said(f)' \in Nat /\ h[e + 1] \in Nat /\ k[e] \in Nat
          /\ Said(f)' + k[e] <= Said(f) + h[e + 1]
      BY <2>1, <2>2 DEF OneMore
    <2>4. Said(f) <= k[e] /\ Said(f) \in Nat
      BY SaidType DEF Owed
    <2> DEFINE n == Said(f)
               n2 == Said(f)'
               y == h[e + 1]
               z == k[e]
    <2>5. n2 <= y
      <3>1. n \in Nat /\ n2 \in Nat /\ y \in Nat /\ z \in Nat /\ n2 + z <= n + y /\ n <= z
        BY <2>3, <2>4
      <3> HIDE DEF n, n2, y, z
      <3> QED BY <3>1
    <2> QED BY <1>1, <2>5
  <1>4. \A n \in 0..e : \A q, s, u : Owes(c, k, n, q, s, u) => Owes(d, h, n, q, s, u)
    <2>1. \A n \in 0..e : n > 0 => d[n] = c[n]
      BY <1>1
    <2> QED BY <1>1, <2>1 DEF Owes, Due
  <1>5. ASSUME Plain(f), NEW o \in Observers
        PROVE  LET scan == obs'[o].scan
                   q == obs'[o].memory[f].prompt
               IN  IF f \in scan.file
                   THEN Owes(d, h, scan.offset - Len(scan.lines), q, scan.seq, x)
                   ELSE Owes(d, h, watcher[f].offset, q, watcher[f].seq, x)
    <2>1. CASE f \in obs[o].scan.file
      <3>1. obs[o].scan.offset - Len(obs[o].scan.lines) \in 0..e
        BY <1>1, <2>1, ScanWithin
      <3>2. Owes(c, k, obs[o].scan.offset - Len(obs[o].scan.lines), obs[o].memory[f].prompt, obs[o].scan.seq, x)
        BY <1>5, <2>1 DEF Owed
      <3> QED BY <1>2, <1>4, <2>1, <3>1, <3>2
    <2>2. CASE f \notin obs[o].scan.file
      <3>1. Owes(c, k, watcher[f].offset, obs[o].memory[f].prompt, watcher[f].seq, x)
        BY <1>5, <2>2 DEF Owed
      <3> QED BY <1>1, <1>2, <1>4, <2>2, <3>1
    <2> QED BY <2>1, <2>2
  <1>6. Plain(f) => h[watcher[f].offset] <= watcher[f].seq + x
    BY <1>1 DEF Owed
  <1>7. cut'[f] = 0 /\ Plain(f)' = Plain(f)
    BY <1>2 DEF Owed, Plain
  <1> QED BY <1>2, <1>3, <1>5, <1>6, <1>7 DEF Owed

\* What is stored of a plain session.
LEMMA PlainStored ==
  ASSUME Types, NEW f \in Files, NEW k, NEW t, Kept(f, k, t), Owed(f, k), Plain(f)
  PROVE  /\ content[f] \in Seq(LineType) /\ Whole(content[f], k, format[f])
         /\ watcher[f].offset \in 0..Len(content[f]) /\ watcher[f].seq \in Nat
         /\ faults.crashes \in Nat
         /\ k[watcher[f].offset] \in Nat
         /\ k[watcher[f].offset] <= watcher[f].seq + faults.crashes
         /\ cut[f] = 0 /\ Said(f) <= k[Len(content[f])]
  <1>1. Uncut(f) /\ Whole(content[f], k, format[f])
    BY DEF Kept
  <1>2. Stored(f) = watcher[f]
    BY DEF Plain, Stored
  <1>3. watcher[f].offset \in 0..Len(content[f]) /\ watcher[f].seq \in Nat /\ watcher[f].offset \in Nat
        /\ content[f] \in Seq(LineType)
    BY <1>1, <1>2, StoredType
  <1>4. k[watcher[f].offset] \in Nat /\ faults.crashes \in Nat
    BY <1>1, <1>3, ObserverAssumption DEF Whole, Types, FaultTypes
  <1> QED BY <1>1, <1>3, <1>4 DEF Owed

\* An observer that dies owes what it was interrupted in.
LEMMA CrashOwed ==
  ASSUME One, Types, NEW o \in Observers, Crash(o), NEW g \in Files, NEW k, NEW t, Kept(g, k, t), Owed(g, k)
  PROVE  Owed(g, k)'
  <1>1. /\ obs'[o].scan = NoScan /\ obs'[o].memory[g].prompt = 0
        /\ UNCHANGED <<file, store>> /\ faults'.crashes = faults.crashes + 1
    <2>1. obs'[o] = Down
      BY DEF Crash, Types, ObserverTypes
    <2> QED BY <2>1 DEF Crash, Down, NoPair, Types, FaultTypes
  <1>2. Said(g)' = Said(g) /\ Plain(g)' = Plain(g) /\ cut'[g] = 0 /\ Said(g)' <= k[Len(content'[g])]
    BY <1>1 DEF file, Said, Plain, Owed
  <1>3. CASE ~Plain(g)
    BY <1>2, <1>3 DEF Owed
  <1>4. CASE Plain(g)
    <2> DEFINE c == content[g]
               n == watcher[g].offset
               s == watcher[g].seq
               x == faults.crashes
               x2 == faults'.crashes
    <2>1. /\ c \in Seq(LineType) /\ Whole(c, k, format[g]) /\ n \in 0..Len(c) /\ s \in Nat /\ x \in Nat
          /\ k[n] \in Nat /\ k[n] <= s + x /\ x2 = x + 1
      BY <1>1, <1>4, PlainStored
    <2> HIDE DEF c, n, s, x, x2
    <2>2. Due(c, k, n, 0) \in Nat /\ Due(c, k, n, 0) <= k[n] + 1
      BY <2>1, DueIs
    <2>3. Owes(c, k, n, 0, s, x2) /\ k[n] <= s + x2
      BY <2>1, <2>2 DEF Owes
    <2>4. g \notin obs'[o].scan.file
      BY <1>1 DEF NoScan
    <2> QED BY <1>1, <1>2, <2>3, <2>4, AloneOwed DEF file, store, c, n, s, x2
  <1> QED BY <1>3, <1>4

LEMMA CollectOwed ==
  ASSUME One, Types, NEW o \in Observers, Collect(o), NEW g \in Files, NEW k, NEW t, Kept(g, k, t), Owed(g, k)
  PROVE  Owed(g, k)'
  <1>1. /\ obs'[o].scan = NoScan /\ obs[o].scan = NoScan /\ \A p \in Observers : p = o
        /\ obs'[o].memory[g] = obs[o].memory[g] \/ content[g] = <<>>
        /\ UNCHANGED <<file, store, faults>>
    BY DEF One, Collect, Types, ObserverTypes, Observer, Idle
  <1>2. CASE ~Plain(g) \/ obs'[o].memory[g] = obs[o].memory[g]
    <2>1. CASE obs'[o].memory[g] = obs[o].memory[g]
      BY <1>1, <2>1, OwedSame DEF file, store
    <2>2. CASE ~Plain(g)
      BY <1>1, <2>2 DEF Owed, Plain, Said, file
    <2> QED BY <1>2, <2>1, <2>2
  <1>3. CASE Plain(g) /\ content[g] = <<>>
    <2> DEFINE c == content[g]
               n == watcher[g].offset
               s == watcher[g].seq
               x == faults.crashes
               q == obs'[o].memory[g].prompt
    <2>1. /\ c \in Seq(LineType) /\ Whole(c, k, format[g]) /\ n \in 0..Len(c) /\ s \in Nat /\ x \in Nat
          /\ k[n] <= s + x /\ cut[g] = 0 /\ Said(g) <= k[Len(c)]
      BY <1>3, PlainStored
    <2>2. n = 0
      <3>1. Len(c) = 0
        BY <1>3
      <3> HIDE DEF c, n
      <3> QED BY <2>1, <3>1
    <2>3. Due(c, k, n, q) = 0
      <3> HIDE DEF c, n, q
      <3> QED BY <2>1, <2>2, DueIs
    <2>4. Owes(c, k, n, q, s, x)
      BY <2>1, <2>3 DEF Owes
    <2>5. g \notin obs'[o].scan.file /\ Said(g)' = Said(g)
      BY <1>1 DEF NoScan, Said, file
    <2> QED BY <1>1, <2>1, <2>4, <2>5, AloneOwed DEF file, store
  <1> QED BY <1>1, <1>2, <1>3

LEMMA LoadOwed ==
  ASSUME One, Types, NEW o \in Observers, NEW f \in Files, Load(o, f),
         NEW g \in Files, NEW k, NEW t, Kept(g, k, t), Owed(g, k)
  PROVE  Owed(g, k)'
  <1>1. PICK scan \in ScanType : Loaded(o, f, scan)
    BY LoadEffect
  <1>2. obs'[o].scan = scan /\ obs'[o].memory = obs[o].memory /\ obs[o].scan = NoScan /\ \A p \in Observers : p = o
    <2>1. obs'[o].scan = scan /\ obs'[o].memory = obs[o].memory
      BY <1>1 DEF Loaded, Types, ObserverTypes, Observer
    <2> QED BY <2>1 DEF One, Load, Idle
  <1>3. UNCHANGED <<format, content, turns, cut, watcher, faults>>
    BY DEF Load, store
  <1>4. CASE g \notin scan.file
    BY <1>2, <1>3, <1>4, OwedSame DEF NoScan
  <1>5. CASE g \in scan.file /\ ~Plain(g)
    BY <1>3, <1>5 DEF Owed, Plain, Said
  <1>6. CASE g \in scan.file /\ Plain(g)
    <2> DEFINE c == content[g]
               w == watcher[g].offset
    <2>1. /\ g = f /\ scan.lines = Batch(f).lines
          /\ scan.offset = Batch(f).offset /\ scan.seq = Batch(f).seq
      BY <1>1, <1>6 DEF Loaded, NoScan
    <2>2. PICK n \in 0..Len(c) : ReadsFrom(g, n)
      BY <2>1, BatchType DEF Types
    <2>3. c \in Seq(LineType) /\ w \in 0..Len(c) /\ Len(c) \in Nat /\ format[g] # "array"
      BY <1>6, PlainStored DEF Plain
    <2>4. n = w /\ scan.seq = watcher[g].seq
      <3>1. ~(Len(c) < w)
        <4> HIDE DEF c, w
        <4> QED BY <2>3
      <3> QED BY <2>1, <2>2, <2>3, <3>1 DEF ReadsFrom
    <2>5. scan.offset - Len(scan.lines) = n
      <3>1. scan.offset \in n..Len(c) /\ Len(scan.lines) = scan.offset - n
        BY <2>1, <2>2 DEF ReadsFrom
      <3> DEFINE a == scan.offset
                 l == Len(scan.lines)
                 e == Len(c)
      <3>2. a \in n..e /\ l = a - n /\ e \in Nat /\ n \in 0..e
        BY <2>3, <3>1
      <3> HIDE DEF a, l, e
      <3>3. a - l = n
        BY <3>2
      <3> QED BY <3>3 DEF a, l
    <2>6. Owes(c, k, w, obs[o].memory[g].prompt, watcher[g].seq, faults.crashes)
      BY <1>2, <1>6 DEF Owed, NoScan
    <2>7. Said(g)' = Said(g) /\ cut[g] = 0 /\ Said(g) <= k[Len(c)] /\ k[w] <= watcher[g].seq + faults.crashes
      BY <1>3, <1>6, PlainStored DEF Said
    <2> QED BY <1>2, <1>3, <1>6, <2>4, <2>5, <2>6, <2>7, AloneOwed
  <1> QED BY <1>4, <1>5, <1>6

LEMMA LoadGoneOwed ==
  ASSUME One, Types, NEW o \in Observers, NEW f \in Files, LoadGone(o, f),
         NEW g \in Files, NEW k, NEW t, Kept(g, k, t), Owed(g, k)
  PROVE  Owed(g, k)'
  <1>1. obs'[o].scan = obs[o].scan /\ obs'[o].memory = obs[o].memory /\ \A p \in Observers : p = o
    BY DEF One, LoadGone, Types, ObserverTypes, Observer
  <1>2. UNCHANGED <<format, content, turns, cut, faults>> /\ content[f] = <<>>
        /\ watcher' = [watcher EXCEPT ![f] = [offset |-> 0, seq |-> 0]]
    BY DEF LoadGone
  <1>3. watcher'[g] = watcher[g]
    <2>1. CASE g # f
      BY <1>2, <2>1 DEF Types, StoreTypes
    <2>2. CASE g = f
      <3>1. watcher[g] \in Position /\ watcher[g].seq <= watcher[g].offset /\ Len(<<>>) = 0
            /\ watcher'[g] = [offset |-> 0, seq |-> 0]
        BY <1>2, <2>2 DEF Types, StoreTypes
      <3>2. watcher[g].offset <= 0
        BY <1>2, <2>2, <3>1 DEF Kept, Uncut
      <3>3. watcher[g].offset = 0 /\ watcher[g].seq = 0
        BY <3>1, <3>2, ObserverAssumption DEF Position
      <3> QED BY <3>1, <3>3 DEF Position
    <2> QED BY <2>1, <2>2
  <1> QED BY <1>1, <1>2, <1>3, OwedSame

LEMMA SaveOwed ==
  ASSUME One, Types, NEW o \in Observers, Save(o), NEW g \in Files, NEW k, NEW t, Kept(g, k, t)', Owed(g, k)
  PROVE  Owed(g, k)'
  <1>1. /\ obs'[o].scan = NoScan /\ obs'[o].memory = obs[o].memory
        /\ obs[o].scan # NoScan /\ obs[o].scan.lines = <<>> /\ obs[o].scan \in ScanType
        /\ ScanFits(obs[o].scan) /\ \A p \in Observers : p = o
    BY DEF One, Save, Types, ObserverTypes, Observer
  <1>2. PICK f \in Files : obs[o].scan.file = {f}
    BY <1>1 DEF ScanFits
  <1>3. /\ UNCHANGED <<format, content, turns, cut, faults>>
        /\ watcher'[f].offset = obs[o].scan.offset /\ watcher'[f].seq = obs[o].scan.seq
        /\ \A x \in Files \ {f} : watcher'[x] = watcher[x]
    BY <1>2 DEF Save, file, Types, StoreTypes
  <1>4. CASE g # f
    <2>1. g \notin obs[o].scan.file /\ g \notin NoScan.file
      BY <1>2, <1>4 DEF NoScan
    <2> QED BY <1>1, <1>3, <1>4, <2>1, OwedSame
  <1>5. CASE g = f /\ ~Plain(g)
    BY <1>3, <1>5 DEF Owed, Plain, Said
  <1>6. CASE g = f /\ Plain(g)
    <2> DEFINE c == content[g]
               n == obs[o].scan.offset
               s == obs[o].scan.seq
               x == faults.crashes
               q == obs[o].memory[g].prompt
    <2>1. n - Len(obs[o].scan.lines) = n /\ n \in Nat /\ s \in Nat /\ x \in Nat
      <3>1. Len(obs[o].scan.lines) = 0 /\ n \in Nat /\ s \in Nat /\ x \in Nat
        BY <1>1, ScanNumbers, ObserverAssumption DEF ScanType, Types, FaultTypes
      <3> QED BY <3>1
    <2>2. Owes(c, k, n, q, s, x)
      BY <1>2, <1>6, <2>1 DEF Owed
    <2>3. /\ c \in Seq(LineType) /\ Whole(c, k, format[g]) /\ n \in 0..Len(c)
      <3>1. Uncut(g)' /\ Whole(content'[g], k, format'[g]) /\ c \in Seq(LineType) /\ Len(c) \in Nat
        BY DEF Kept, Types, FileTypes
      <3>2. n <= Len(c)
        BY <1>3, <1>6, <3>1 DEF Uncut
      <3> HIDE DEF n
      <3> QED BY <1>3, <2>1, <3>1, <3>2
    <2>4. k[n] <= s + x
      <3> HIDE DEF c, n, s, x, q
      <3>1. Due(c, k, n, q) \in Nat /\ k[n] \in Nat /\ k[n] <= Due(c, k, n, q)
        BY <2>3, DueIs
      <3>2. Due(c, k, n, q) <= s + x
        BY <2>2 DEF Owes
      <3> QED BY <2>1, <3>1, <3>2
    <2>5. g \notin obs'[o].scan.file /\ Said(g)' = Said(g) /\ cut'[g] = 0 /\ Said(g) <= k[Len(c)]
      BY <1>1, <1>3 DEF NoScan, Said, Owed
    <2> QED BY <1>1, <1>3, <1>6, <2>2, <2>4, <2>5, AloneOwed
  <1> QED BY <1>4, <1>5, <1>6

LEMMA LineOwed ==
  ASSUME One, Types, Truth, NEW o \in Observers, Line(o), NEW g \in Files, NEW k, NEW t, Kept(g, k, t), Owed(g, k)
  PROVE  Owed(g, k)'
  <1>1. PICK f \in Files, n \in 0..MaxLines, p \in Memory : Heard(o, f, n, p)
    BY LineEffect
  <1> DEFINE scan == obs[o].scan
             next == obs'[o].scan
             line == Head(scan.lines)
             m == obs[o].memory[f]
             c == content[f]
             at == scan.offset - Len(scan.lines)
             kind == format[f]
             x == faults.crashes
  <1>2. /\ UNCHANGED <<format, content, turns, cut, watcher, faults>>
        /\ scan # NoScan /\ scan.lines # <<>> /\ scan.file = {f} /\ \A y \in Observers : y = o
    BY <1>1 DEF One, Line, file, Heard
  <1>3. /\ scan \in ScanType /\ ScanFits(scan) /\ obs[o] \in Observer /\ obs \in [Observers -> Observer]
        /\ c \in Seq(LineType)
    BY DEF Types, ObserverTypes, Observer, FileTypes
  <1>4. /\ next.file = {f} /\ next.offset = scan.offset /\ next.lines = Tail(scan.lines) /\ next.seq = n
        /\ obs'[o].memory[f] = p /\ \A y \in Files \ {f} : obs'[o].memory[y] = obs[o].memory[y]
    <2>1. obs'[o] = [obs[o] EXCEPT !.scan = [obs[o].scan EXCEPT !.lines = Tail(obs[o].scan.lines), !.seq = n],
                                   !.memory = [obs[o].memory EXCEPT ![f] = p]]
      BY <1>1, <1>3 DEF Heard
    <2>2. obs[o].memory \in [Files -> Memory]
      BY <1>3 DEF Observer
    <2>3. obs'[o].memory = [obs[o].memory EXCEPT ![f] = p]
          /\ next = [scan EXCEPT !.lines = Tail(scan.lines), !.seq = n]
      BY <1>3, <2>1 DEF Observer
    <2> QED BY <1>2, <1>3, <2>2, <2>3 DEF ScanType
  <1>5. CASE g # f
    <2>1. g \notin scan.file /\ g \notin next.file
      BY <1>2, <1>4, <1>5
    <2> QED BY <1>2, <1>4, <1>5, <2>1, OwedSame
  <1>6. CASE g = f /\ ~Plain(g)
    BY <1>2, <1>6 DEF Owed, Plain, Said
  <1>7. CASE g = f /\ Plain(g)
    <2>1. /\ Uncut(f) /\ Whole(c, k, kind) /\ kind # "codex"
          /\ k[watcher[f].offset] <= watcher[f].seq + x /\ x \in Nat
          /\ cut[f] = 0 /\ Said(f) <= k[Len(c)]
      BY <1>7, PlainStored DEF Kept, Plain
    <2>2. /\ at \in 0..Len(c) /\ at + Len(scan.lines) <= Len(c) /\ scan.seq \in Nat
          /\ \A i \in 1..Len(scan.lines) : scan.lines[i] = c[at + i]
      BY <1>2, <2>1, ScanWithin
    <2>3. at \in 0..(Len(c) - 1) /\ line = c[at + 1] /\ next.offset - Len(next.lines) = at + 1
      <3>1. scan.lines \in Seq(LineType) /\ Len(scan.lines) \in Nat \ {0} /\ scan.offset \in Nat
            /\ Len(scan.lines) <= scan.offset /\ Len(c) \in Nat
        <4>1. scan.lines \in Seq(LineType) /\ scan.offset \in Nat /\ Len(scan.lines) <= scan.offset
          BY <1>3, ScanNumbers
        <4> QED BY <1>2, <1>3, <4>1
      <3>2. line = scan.lines[1] /\ 1 \in 1..Len(scan.lines) /\ Len(Tail(scan.lines)) = Len(scan.lines) - 1
        BY <1>2, <3>1
      <3>3. scan.offset - (Len(scan.lines) - 1) = at + 1
        BY <3>1, OneOn
      <3>4. at \in 0..(Len(c) - 1)
        <4> DEFINE l == Len(scan.lines)
                   e == Len(c)
        <4>1. at \in 0..e /\ l \in Nat \ {0} /\ e \in Nat /\ at + l <= e
          BY <2>2, <3>1
        <4> HIDE DEF at, l, e
        <4>2. at \in 0..(e - 1)
          BY <4>1
        <4> QED BY <4>2 DEF e
      <3>5. line = c[at + 1]
        BY <2>2, <3>2
      <3> QED BY <1>4, <3>2, <3>3, <3>4, <3>5
    <2>4. Moves(kind, c[at + 1], m, scan.seq, p, n)
      BY <1>1, <2>3 DEF Heard, Moves
    <2>5. Owes(c, k, at, m.prompt, scan.seq, x)
      BY <1>2, <1>7 DEF Owed
    <2>6. Owes(c, k, at + 1, p.prompt, n, x)
      <3>1. m \in Memory
        BY <1>3 DEF Observer
      <3> DEFINE s == scan.seq
      <3>2. /\ c \in Seq(LineType) /\ Whole(c, k, kind) /\ at \in 0..(Len(c) - 1) /\ m \in Memory /\ s \in Nat
            /\ x \in Nat /\ kind # "codex" /\ Moves(kind, c[at + 1], m, s, p, n)
            /\ Owes(c, k, at, m.prompt, s, x)
        BY <1>3, <2>1, <2>2, <2>3, <2>4, <2>5, <3>1
      <3> HIDE DEF c, kind, at, m, s, x
      <3> QED BY <3>2, DueOn
    <2>7. Said(f)' = Said(f)
      BY <1>2 DEF Said
    <2> QED BY <1>2, <1>4, <1>7, <2>1, <2>3, <2>6, <2>7, AloneOwed
  <1> QED BY <1>5, <1>6, <1>7

Unrewound == faults.rewinds = 0 => \A f \in Files : \E k, t : Kept(f, k, t) /\ Owed(f, k)

LEMMA InitUnrewound == Init => Unrewound
  <1> SUFFICES ASSUME Init, NEW f \in Files PROVE \E k, t : Kept(f, k, t) /\ Owed(f, k)
    BY DEF Unrewound
  <1> DEFINE k == [i \in Nat |-> 0]
  <1>1. \A i \in Nat : k[i] = 0
    OBVIOUS
  <1> HIDE DEF k
  <1>2. Kept(f, k, 0) /\ Owed(f, k)
    BY <1>1, KeptInit, OwedInit
  <1> QED BY <1>2

LEMMA UnrewoundStep == One /\ Types /\ Truth /\ Unrewound /\ [Next]_vars => Unrewound'
  <1> SUFFICES ASSUME One, Types, Truth, Unrewound, [Next]_vars, faults'.rewinds = 0, NEW g \in Files
               PROVE  \E k, t : Kept(g, k, t)' /\ Owed(g, k)'
    BY DEF Unrewound
  <1>1. faults \in [rewinds : 0..MaxRewinds, crashes : 0..MaxCrashes]
    BY DEF Types, FaultTypes
  <1>2. ASSUME NEW f \in Files, Rewind(f) PROVE FALSE
    <2>1. faults'.rewinds = faults.rewinds + 1 /\ faults.rewinds \in Nat
      BY <1>1, <1>2, ObserverAssumption DEF Rewind
    <2> QED BY <2>1
  <1>3. faults.rewinds = 0
    <2>1. CASE \E o \in Observers : Crash(o)
      BY <1>1, <2>1 DEF Crash
    <2>2. CASE faults' = faults
      BY <2>2
    <2>3. (\E o \in Observers : Crash(o)) \/ faults' = faults
      BY <1>2 DEF Next, BeginLine, FinishLine, Work, Load, LoadGone, Line, Save, Collect, Start, vars
    <2> QED BY <2>1, <2>2, <2>3
  <1>4. PICK k, t : Kept(g, k, t) /\ Owed(g, k)
    BY <1>3 DEF Unrewound
  <1>5. ASSUME NEW f \in Files, BeginLine(f) \/ FinishLine(f) PROVE \E h, u : Kept(g, h, u)' /\ Owed(g, h)'
    <2>1. CASE FinishLine(f) /\ g = f
      <3>1. PICK h : Extends(content'[g], h, content[g], k) /\ Kept(g, h, t)'
        BY <1>4, <2>1, FinishLineKept
      <3>2. Owed(g, h)'
        BY <1>4, <2>1, <3>1, FinishLineOwed
      <3> QED BY <3>1, <3>2
    <2>2. CASE BeginLine(f) \/ g # f
      <3>1. Notify(f)
        BY <1>5 DEF BeginLine, FinishLine
      <3>2. \A o \in Observers : obs'[o].scan = obs[o].scan /\ obs'[o].memory = obs[o].memory
        BY <3>1, NotifyType DEF Types
      <3>3. /\ content'[g] = content[g] /\ format' = format /\ written'[g] = written[g]
            /\ rows'[g] = rows[g] /\ unseen'[g] = unseen[g] /\ watcher'[g] = watcher[g]
            /\ turns'[g] = turns[g] /\ cut'[g] = cut[g] /\ faults'.crashes = faults.crashes
        <4>1. CASE BeginLine(f)
          BY <4>1 DEF BeginLine, store
        <4>2. CASE FinishLine(f) /\ g # f
          BY <4>2 DEF FinishLine, store, Types, FileTypes
        <4> QED BY <1>5, <2>2, <4>1, <4>2
      <3>4. Kept(g, k, t)'
        BY <1>4, <3>2, <3>3, KeptSame
      <3>5. Owed(g, k)'
        BY <1>4, <3>2, <3>3, OwedSame
      <3> QED BY <3>4, <3>5
    <2> QED BY <1>5, <2>1, <2>2
  <1>6. ASSUME NEW o \in Observers, Work(o) \/ Collect(o) PROVE \E h, u : Kept(g, h, u)' /\ Owed(g, h)'
    <2>1. CASE Line(o)
      <3>1. PICK u : Kept(g, k, u)'
        BY <1>4, <2>1, LineKept
      <3>2. Owed(g, k)'
        BY <1>4, <2>1, LineOwed
      <3> QED BY <3>1, <3>2
    <2>2. CASE Save(o)
      <3>1. Kept(g, k, t)'
        BY <1>4, <2>2, SaveKept
      <3>2. Owed(g, k)'
        BY <1>4, <2>2, <3>1, SaveOwed
      <3> QED BY <3>1, <3>2
    <2>3. CASE Collect(o)
      <3>1. Kept(g, k, t)' /\ Owed(g, k)'
        BY <1>4, <2>3, CollectKept, CollectOwed
      <3> QED BY <3>1
    <2>4. ASSUME NEW f \in Files, Load(o, f) PROVE \E h, u : Kept(g, h, u)' /\ Owed(g, h)'
      <3>1. Kept(g, k, t)' /\ Owed(g, k)'
        BY <1>4, <2>4, LoadKept, LoadOwed
      <3> QED BY <3>1
    <2>5. ASSUME NEW f \in Files, LoadGone(o, f) PROVE \E h, u : Kept(g, h, u)' /\ Owed(g, h)'
      <3>1. Kept(g, k, t)' /\ Owed(g, k)'
        BY <1>4, <2>5, LoadGoneKept, LoadGoneOwed
      <3> QED BY <3>1
    <2> QED BY <1>6, <2>1, <2>2, <2>3, <2>4, <2>5 DEF Work
  <1>7. ASSUME NEW o \in Observers, Crash(o) \/ Start(o) PROVE \E h, u : Kept(g, h, u)' /\ Owed(g, h)'
    <2>1. obs'[o].scan = NoScan /\ obs'[o].memory[g].prompt = 0
      <3>1. obs'[o] = Down \/ obs'[o] = Started
        BY <1>7 DEF Crash, Start, Types, ObserverTypes
      <3>2. Down.memory[g].prompt = 0 /\ Started.memory[g].prompt = 0
        BY DEF Started, Down, NoPair
      <3> QED BY <3>1, <3>2, DownType DEF Types
    <2>2. UNCHANGED <<format, content, written, unseen, watcher, rows>>
      BY <1>7 DEF Crash, Start, file, store
    <2>3. Kept(g, k, t)'
      BY <1>4, <2>1, <2>2, ForgetKept
    <2>4. CASE Crash(o)
      <3>1. Owed(g, k)'
        BY <1>4, <2>4, CrashOwed
      <3> QED BY <2>3, <3>1
    <2>5. CASE Start(o)
      <3>1. obs[o].scan = NoScan /\ obs[o].memory[g].prompt = 0 /\ \A p \in Observers : p = o
        BY <2>5 DEF One, Start, Truth, Remembered
      <3>2. UNCHANGED <<format, content, turns, cut, watcher, faults>>
        BY <2>5 DEF Start, file, store
      <3>3. Owed(g, k)'
        BY <1>4, <2>1, <3>1, <3>2, OwedSame
      <3> QED BY <2>3, <3>3
    <2> QED BY <1>7, <2>4, <2>5
  <1>8. CASE UNCHANGED vars
    <2>1. Kept(g, k, t)' /\ Owed(g, k)'
      BY <1>4, <1>8, KeptSame, OwedSame DEF vars, file, store
    <2> QED BY <2>1
  <1> QED BY <1>2, <1>5, <1>6, <1>7, <1>8 DEF Next

LEMMA UnbrokenOnce ==
  ASSUME Types, Unbroken, NEW f \in Files, Sound(f)
  PROVE  \A i, j \in DOMAIN rows[f] : rows[f][i] = rows[f][j] => i = j
  <1>1. PICK k : Counted(f, k)
    BY DEF Unbroken
  <1> QED BY <1>1 DEF Counted, Told

LEMMA UnrewoundOnce ==
  ASSUME Types, Unrewound, faults.rewinds = 0, NEW f \in Files
  PROVE  \A i, j \in DOMAIN rows[f] : rows[f][i] = rows[f][j] => i = j
  <1>1. PICK k, t : Kept(f, k, t)
    BY DEF Unrewound
  <1> QED BY <1>1 DEF Kept, Rows

LEMMA OnceRecorded == Types /\ Unbroken /\ Unrewound => RecordedOnce
  BY OnceEach, UnbrokenOnce, UnrewoundOnce DEF RecordedOnce, Sound

\* What is missing is what was said and has no number.
LEMMA LostIs ==
  ASSUME Types, Truth, NEW f \in Files,
         \A i, j \in DOMAIN rows[f] : rows[f][i] = rows[f][j] => i = j
  PROVE  /\ IsFiniteSet(DOMAIN rows[f]) /\ Cardinality(DOMAIN rows[f]) \in Nat
         /\ Lost(f) = Said(f) - Cardinality(DOMAIN rows[f])
  <1>1. IsFiniteSet(turns[f]) /\ Recorded(f) \subseteq turns[f]
    BY SaidType DEF Truth, RowsAreTrue
  <1>2. IsFiniteSet(DOMAIN rows[f])
    <2>1. IsFiniteSet(1..MaxLines)
      BY FS_Interval, ObserverAssumption
    <2>2. DOMAIN rows[f] \subseteq 1..MaxLines
      BY DEF Types, StoreTypes, IsTable
    <2> QED BY <2>1, <2>2, FS_Subset
  <1>3. turns[f] \cap Recorded(f) = Recorded(f)
    BY <1>1
  <1>4. Cardinality(turns[f] \ Recorded(f)) = Cardinality(turns[f]) - Cardinality(turns[f] \cap Recorded(f))
    BY <1>1, FS_Difference
  <1>5. Cardinality(Recorded(f)) = Cardinality(DOMAIN rows[f])
    BY OnceEach
  <1> QED BY <1>2, <1>3, <1>4, <1>5, FS_CardinalityType DEF Lost, Said

\* Whose offset is at the file's end has missed no more pairs than lines were cut away.
LEMMA UnbrokenLoss ==
  ASSUME Types, Truth, Unbroken, NEW f \in Files, Sound(f),
         content[f] # <<>> => watcher[f].offset = Len(content[f])
  PROVE  Lost(f) <= cut[f]
  <1> DEFINE S == DOMAIN rows[f]
             s == watcher[f].seq
             n == Said(f)
             a == cut[f]
             e == Len(content[f])
  <1>1. PICK k : Counted(f, k) /\ Tallied(f, k)
    BY DEF Unbroken
  <1>2. IsFiniteSet(S) /\ Cardinality(S) \in Nat /\ Lost(f) = n - Cardinality(S)
    BY LostIs, UnbrokenOnce
  <1>3. n \in Nat /\ a \in Nat /\ e \in Nat
    BY SaidType
  <1>4. n <= Cardinality(S) + a
    <2>1. CASE content[f] = <<>>
      <3>1. Len(<<>>) = 0 /\ k[0] = 0
        BY <1>1 DEF Counted, Numbered
      <3>2. n <= 0 + a
        BY <1>1, <2>1, <3>1 DEF Tallied, IdAt
      <3> HIDE DEF n, a, S
      <3> QED BY <1>2, <1>3, <3>2
    <2>2. CASE content[f] # <<>>
      <3>1. 1..s \subseteq S /\ n + e <= s + (a + e)
        BY <1>1, <2>2 DEF Tallied, Filled, Reached, Covers
      <3>2. s \in Nat
        BY ObserverAssumption DEF Types, StoreTypes, Position
      <3>3. s <= Cardinality(S)
        <4> HIDE DEF S, s
        <4>1. Cardinality(1..s) = s
          BY <3>2, FS_Interval
        <4>2. Cardinality(1..s) <= Cardinality(S)
          BY <1>2, <3>1, FS_Subset
        <4> QED BY <4>1, <4>2
      <3> HIDE DEF n, a, S, s, e
      <3> QED BY <1>2, <1>3, <3>1, <3>2, <3>3
    <2> QED BY <2>1, <2>2
  <1> HIDE DEF n, a, S
  <1> QED BY <1>2, <1>3, <1>4 DEF a

\* An observer that is done has missed no more pairs of a session that is not Codex's,
\* and was not cut, than it died times.
LEMMA UnrewoundLoss ==
  ASSUME Types, Truth, Unrewound, faults.rewinds = 0, NEW f \in Files, format[f] # "codex",
         format[f] = "array" => Lost(f) <= cut[f],
         NEW o \in Observers, obs[o].scan = NoScan,
         content[f] # <<>> => watcher[f].offset = Len(content[f])
  PROVE  Lost(f) <= faults.crashes
  <1> DEFINE S == DOMAIN rows[f]
             n == Said(f)
             x == faults.crashes
             s == watcher[f].seq
             e == Len(content[f])
  <1>1. PICK k, t : Kept(f, k, t) /\ Owed(f, k)
    BY DEF Unrewound
  <1>2. IsFiniteSet(S) /\ Cardinality(S) \in Nat /\ Lost(f) = n - Cardinality(S) /\ n \in Nat /\ x \in Nat
    BY LostIs, UnrewoundOnce, SaidType, ObserverAssumption DEF Types, FaultTypes
  <1>3. CASE format[f] = "array"
    <2>1. cut[f] = 0
      BY <1>1 DEF Owed
    <2> HIDE DEF n, x, S
    <2>2. n - Cardinality(S) <= 0
      BY <1>2, <1>3, <2>1
    <2>3. n - Cardinality(S) <= x
      BY <1>2, <2>2
    <2> QED BY <1>2, <2>3 DEF x
  <1>4. CASE format[f] # "array"
    <2>1. Plain(f) /\ Stored(f) = watcher[f]
      BY <1>4 DEF Plain, Stored
    <2>2. s <= t /\ t \in Nat /\ Cardinality(S) = t
      <3>1. Steady(o, f, k, t)
        BY <1>1 DEF Kept
      <3>2. s <= t
        BY <2>1, <3>1 DEF Steady, NoScan, Behind
      <3>3. t \in Nat /\ S = 1..t
        BY <1>1 DEF Kept, Rows
      <3>4. Cardinality(1..t) = t
        BY <3>3, FS_Interval
      <3> QED BY <3>2, <3>3, <3>4
    <2>3. n <= k[e] /\ k[watcher[f].offset] <= s + x /\ k[watcher[f].offset] \in Nat /\ s \in Nat /\ k[e] \in Nat
      <3>1. Whole(content[f], k, format[f]) /\ e \in Nat
        BY <1>1, SaidType DEF Kept
      <3>2. k[e] \in Nat
        BY <3>1 DEF Whole
      <3> QED BY <1>1, <2>1, <3>2, PlainStored
    <2>4. n <= s + x
      <3>1. CASE content[f] = <<>>
        <4>1. Len(<<>>) = 0 /\ k[0] = 0
          BY <1>1 DEF Kept, Whole, Numbered
        <4>2. n <= 0
          BY <2>3, <3>1, <4>1
        <4> HIDE DEF n, s, x
        <4> QED BY <1>2, <2>3, <4>2
      <3>2. CASE content[f] # <<>>
        <4>1. k[watcher[f].offset] = k[e]
          BY <3>2
        <4> DEFINE y == k[e]
        <4>2. n <= y /\ y <= s + x /\ y \in Nat
          BY <2>3, <4>1
        <4> HIDE DEF n, s, x, y
        <4> QED BY <1>2, <2>3, <4>2
      <3> QED BY <3>1, <3>2
    <2> HIDE DEF n, s, x, S
    <2>5. n - Cardinality(S) <= x
      BY <1>2, <2>2, <2>3, <2>4
    <2> QED BY <1>2, <2>5 DEF x
  <1> QED BY <1>3, <1>4

LEMMA BoundedLoss == Types /\ Truth /\ Unbroken /\ Unrewound => LossIsBounded
  <1> SUFFICES ASSUME Types, Truth, Unbroken, Unrewound, Quiet, NEW f \in Files
               PROVE  /\ Sound(f) => Lost(f) <= cut[f]
                      /\ format[f] # "codex" /\ faults.rewinds = 0 => Lost(f) <= faults.crashes
    BY DEF LossIsBounded, Sound
  <1>1. content[f] # <<>> => watcher[f].offset = Len(content[f])
    BY DEF Quiet
  <1>2. PICK o \in Observers : obs[o].scan = NoScan
    BY ObserverAssumption DEF Quiet, Idle
  <1>3. Sound(f) => Lost(f) <= cut[f]
    BY <1>1, UnbrokenLoss
  <1>4. ASSUME format[f] # "codex", faults.rewinds = 0 PROVE Lost(f) <= faults.crashes
    BY <1>1, <1>2, <1>3, <1>4, UnrewoundLoss DEF Sound
  <1> QED BY <1>3, <1>4

\* What is known of the files' numbers: always true of the one observer.
LEMMA CountAlways == ASSUME One PROVE Spec => [](Truth /\ Unbroken /\ Unrewound)
  <1>1. Init => Truth /\ Unbroken /\ Unrewound
    BY TruthInit, InitUnbroken, InitUnrewound
  <1>2. Types /\ Truth /\ Unbroken /\ Unrewound /\ [Next]_vars => Truth' /\ Unbroken' /\ Unrewound'
    BY TruthStep, UnbrokenStep, UnrewoundStep
  <1> QED BY <1>1, <1>2, TypesAlways, PTL DEF Spec

\* One observer, whatever number of files, records no pair twice, be it that it dies, at
\* any of its steps and however often, or that the files are cut and removed, however
\* often: emit_row's numbers are the same when a file is read again.  A document it reads
\* as a whole has each pair once whatever of both happens.
THEOREM RecordedOnceAlways == ASSUME One PROVE Spec => []RecordedOnce
  BY CountAlways, TypesAlways, OnceRecorded, PTL

\* When one observer has read all there is, what it has not recorded is accounted for: no
\* more pairs than scan_file's files lost lines, where nobody died or the file is read as
\* a whole, and no more than it died times, where a file was never cut and its lines say
\* whose they are (offset and number are stored together, and after the rows).
THEOREM LossIsBoundedAlways == ASSUME One PROVE Spec => []LossIsBounded
  BY CountAlways, TypesAlways, BoundedLoss, PTL
=============================================================================
