------------------------- MODULE RecipesEngine_proofs -------------------------
(***************************************************************************)
(* Proofs about RecipesEngine, for any events, recipes, limits and number   *)
(* of faults: types, the rate limit, that a decision is final, that what is *)
(* skipped was handled, and, while the numbers claimed fit into the cache,  *)
(* that no recipe fires twice for one event.                                *)
(***************************************************************************)
EXTENDS RecipesEngine, Extrema_proofs, FiniteSetTheorems, SequenceTheorems

Stages == {"new", "reserved", "persisted", "numbered", "inserted", "sent", "lost"}
Occurrence == Events \X Nat

\* the stages in which the number of an event is fixed
Out == {"persisted", "inserted", "sent", "lost"}

-----------------------------------------------------------------------------
(* The inductive invariant, part by part *)

PublisherTypes ==
    /\ up \in BOOLEAN /\ counter \in Nat \ {0}
    /\ stage \in [Events -> Stages]
    /\ \A e \in DesktopEvents : stage[e] \in {"new", "reserved", "persisted", "sent", "lost"}
    /\ \A e \in CliEvents : stage[e] \in {"new", "numbered", "inserted", "sent"}
    /\ number \in [Events -> Nat] /\ tries \in [Events -> 0..3]
    /\ \A e \in Events : stage[e] # "new" => number[e] # 0

\* The table has a last number; a row has its event's number, which no longer changes,
\* and says so unless a command line has not come to rewrite it.
LedgerTypes ==
    /\ ledger = [s \in DOMAIN ledger |-> ledger[s]]
    /\ \E n \in Nat : DOMAIN ledger \subseteq 1..n
    /\ \A s \in DOMAIN ledger :
         /\ ledger[s] \in [event : Events, says : Nat]
         /\ stage[ledger[s].event] \in Out /\ number[ledger[s].event] = s
         /\ ledger[s].says \in {0, s}
         /\ ledger[s].event \in DesktopEvents => ledger[s].says = s

BusTypes ==
    /\ bus \in Seq(DesktopEvents) /\ Len(bus) <= Capacity
    /\ \A i \in DOMAIN bus : stage[bus[i]] \in Out

TaskTypes ==
    /\ watermark \in Int /\ watermark >= -1
    /\ listening \in SUBSET Tasks
    /\ heard \in [Tasks -> Seq(Occurrence)]
    /\ left \in [Tasks -> SUBSET Recipes]
    /\ firing \in [Tasks -> Nat]
    /\ seen \in [Recipes -> SUBSET Nat]
    /\ \A r \in Recipes : IsFiniteSet(seen[r]) /\ Cardinality(seen[r]) <= SeenCap
    /\ holds \in [Tasks -> SUBSET Recipes] /\ room \in [Tasks -> BOOLEAN]

AuditTypes ==
    /\ rows \in Seq(RowType) /\ aged \in 0..Len(rows)
    /\ skipped \in SUBSET (Recipes \X Events \X Nat) /\ missed \in SUBSET Events
    /\ faults \in 0..MaxFaults

Types == PublisherTypes /\ LedgerTypes /\ BusTypes /\ TaskTypes /\ AuditTypes

\* What a task has in hand is an event that is out, with its number or none; only the
\* desktop's come by the bus, and they have their numbers.
InHand ==
    \A t \in Tasks :
        /\ heard[t] # <<>> => t \in listening
        /\ \A i \in DOMAIN heard[t] :
             /\ stage[heard[t][i][1]] \in Out /\ heard[t][i][2] \in {0, number[heard[t][i][1]]}
             /\ heard[t][i][1] \in DesktopEvents => heard[t][i][2] = number[heard[t][i][1]]
             /\ t = "bus" => heard[t][i][1] \in DesktopEvents

\* A row is that of an event that is out.  One that is parked was asked about, one to be
\* turned away was not, and what was decided has a verdict.
RowsInOrder ==
    \A i \in DOMAIN rows :
        /\ stage[rows[i].event] \in Out
        /\ rows[i].status = "awaiting_approval" => rows[i].asked
        /\ rows[i].status \in {"approved", "denied"} => rows[i].verdict # "none"
        /\ rows[i].status = "turning" => ~rows[i].asked

\* A task is at the row it wrote for the event in its hand, and no other task is.
Executing ==
    /\ \A t \in Tasks : firing[t] # 0 =>
         /\ firing[t] \in DOMAIN rows /\ heard[t] # <<>>
         /\ rows[firing[t]].event = Current(t)
         /\ rows[firing[t]].asked \/ rows[firing[t]].status \in {"running", "turning"}
    /\ \A t, u \in Tasks : firing[t] # 0 /\ firing[t] = firing[u] => t = u
    /\ RowsInOrder

\* A task holds one lock at most, which no other task holds, for the event in its hand: it
\* has not written the row yet, or will turn it away.
Holding ==
    /\ \A t \in Tasks : \A r \in holds[t] :
         /\ heard[t] # <<>> /\ holds[t] = {r}
         /\ firing[t] # 0 => rows[firing[t]].status = "turning"
    /\ \A t, u \in Tasks : \A r \in holds[t] : r \in holds[u] => t = u

\* An event has been claimed for a recipe and has no row yet.
Entering(r, e) == \E t \in Tasks : r \in holds[t] /\ firing[t] = 0 /\ e = Current(t)

\* A number was claimed for an event that has a row or is about to; what was skipped has.
ClaimedWasHandled ==
    /\ \A r \in Recipes : \A s \in seen[r] :
         s = 0 \/ \E f \in Events : number[f] = s /\ (Handled(r, f) \/ Entering(r, f))
    /\ \A k \in skipped :
         Handled(k[1], k[2]) \/ k[3] = 0 \/ \E f \in Events \ {k[2]} : number[f] = k[3] /\ Handled(k[1], f)

Safe == Types /\ InHand /\ Executing /\ Holding /\ ClaimedWasHandled

\* An event of the desktop may still come to a recipe.
Pending(e) ==
    \/ \E i \in DOMAIN bus : bus[i] = e
    \/ \E t \in Tasks : \E i \in DOMAIN heard[t] : heard[t][i][1] = e
    \/ stage[e] = "persisted"
    \/ "poll" \in listening /\ \E s \in DOMAIN ledger : ledger[s].event = e /\ s > watermark

\* The poll has an event once, and has passed it in the table.
PolledOnce ==
    /\ \A i, j \in DOMAIN heard["poll"] : heard["poll"][i][1] = heard["poll"][j][1] => i = j
    /\ \A i \in DOMAIN heard["poll"] : \A s \in DOMAIN ledger :
         ledger[s].event = heard["poll"][i][1] => s <= watermark

\* The poll does not come to a command line's event again, or is at it, done with the recipe.
CliDone(r, e) ==
    /\ "poll" \in listening => \A s \in DOMAIN ledger : ledger[s].event = e => s <= watermark
    /\ \A i \in DOMAIN heard["poll"] : heard["poll"][i][1] = e =>
         /\ i = 1
         /\ \/ r \notin left["poll"]
            \/ firing["poll"] # 0 /\ rows[firing["poll"]].recipe = r

\* A recipe that had an event of the desktop that may come again has its number, and
\* one that had a command line's is done with it.
Once ==
    \A r \in Recipes, e \in Events : Handled(r, e) =>
        /\ e \in DesktopEvents /\ Pending(e) => number[e] \in seen[r]
        /\ e \in CliEvents => CliDone(r, e)

\* A task that has entered comes to the recipe with an event that it has not had, and whose
\* number has been claimed.
Fresh ==
    \A t \in Tasks : \A r \in holds[t] : firing[t] = 0 =>
        /\ ~Handled(r, Current(t))
        /\ Current(t) \in DesktopEvents => number[Current(t)] \in seen[r]

\* Few enough events for the cache: SEEN_CAP numbers, and the 0 of a payload that is
\* not rewritten.
Few == IsFiniteSet(Events) /\ Cardinality(Events) < SeenCap

-----------------------------------------------------------------------------
(* Numbers *)

\* The maximum of a bounded set of numbers.
LEMMA MaxOf ==
  ASSUME NEW n \in Nat, NEW S, S \subseteq 0..n, S # {}
  PROVE  Max(S) \in S /\ \A x \in S : x <= Max(S)
  <1>1. \E m \in S : \A x \in S : m >= x
    <2>1. PICK m \in S : \A x \in S : x <= m
      BY MaxExists
    <2>2. \A x \in S : x \in Nat
      OBVIOUS
    <2> QED BY <2>1, <2>2
  <1>2. Max(S) \in S /\ \A x \in S : Max(S) >= x
    BY <1>1 DEF Max
  <1>3. \A x \in S : x \in Nat
    OBVIOUS
  <1> QED BY <1>2, <1>3

\* The table's last number.
LEMMA MaxSeqType ==
  ASSUME LedgerTypes
  PROVE  MaxSeq \in Nat /\ \A s \in DOMAIN ledger : s \in Nat \ {0} /\ s <= MaxSeq
  <1>1. PICK n \in Nat : DOMAIN ledger \subseteq 1..n
    BY DEF LedgerTypes
  <1>2. DOMAIN ledger \cup {0} \subseteq 0..n
    BY <1>1
  <1>3. MaxSeq \in DOMAIN ledger \cup {0} /\ \A s \in DOMAIN ledger \cup {0} : s <= MaxSeq
    BY <1>2, MaxOf DEF MaxSeq
  <1> QED BY <1>1, <1>2, <1>3

\* The numbers below one of a set, and with it.
LEMMA RankStep ==
  ASSUME NEW S, S \subseteq Nat, IsFiniteSet(S), NEW q \in S
  PROVE  /\ Cardinality({p \in S : p < q}) \in Nat
         /\ Cardinality({p \in S : p <= q}) = Cardinality({p \in S : p < q}) + 1
         /\ Cardinality({p \in S : p <= q}) <= Cardinality(S)
  <1>1. IsFiniteSet({p \in S : p < q}) /\ IsFiniteSet({p \in S : p <= q})
        /\ Cardinality({p \in S : p <= q}) <= Cardinality(S)
    BY FS_Subset
  <1>2. {p \in S : p <= q} = {p \in S : p < q} \cup {q}
    <2>1. \A p \in S : p <= q <=> (p < q \/ p = q)
      OBVIOUS
    <2> QED BY <2>1
  <1>3. q \notin {p \in S : p < q}
    OBVIOUS
  <1> QED BY <1>1, <1>2, <1>3, FS_AddElement, FS_CardinalityType

\* A finite set of numbers is counted off by the numbers below each.
LEMMA Ranks ==
  ASSUME NEW S, S \subseteq Nat, IsFiniteSet(S)
  PROVE  /\ \A i \in 1..Cardinality(S) : \E q \in S : Cardinality({p \in S : p < q}) = i - 1
         /\ \A q, r \in S : Cardinality({p \in S : p < q}) = Cardinality({p \in S : p < r}) => q = r
  <1> DEFINE rank(q) == Cardinality({p \in S : p < q})
             skipping == {i \in 1..Cardinality(S) : \A q \in S : rank(q) # i - 1}
  <1>1. Cardinality(S) \in Nat /\ \A q \in S : rank(q) \in Nat
    BY FS_CardinalityType, RankStep
  <1>2. skipping = {}
    <2> SUFFICES ASSUME skipping # {} PROVE FALSE
      OBVIOUS
    <2>1. PICK i \in skipping : \A j \in skipping : i <= j
      <3>1. skipping \subseteq Nat
        BY <1>1
      <3> HIDE DEF skipping
      <3> QED BY <3>1, MinExists
    <2>2. i \in 1..Cardinality(S) /\ \A q \in S : rank(q) # i - 1
      OBVIOUS
    <2>3. CASE i = 1
      <3>1. S # {}
        BY <1>1, <2>2, FS_EmptySet
      <3>2. PICK m \in S : \A x \in S : m <= x
        BY <3>1, MinExists
      <3>3. {p \in S : p < m} = {}
        <4>1. \A p \in S : ~(p < m)
          BY <3>2
        <4> QED BY <4>1
      <3>4. rank(m) = 0
        BY <3>3, FS_EmptySet
      <3> QED BY <2>2, <2>3, <3>4
    <2>4. CASE i # 1
      <3>1. i - 1 \in 1..Cardinality(S) /\ i - 1 \notin skipping
        BY <1>1, <2>1, <2>2, <2>4
      <3>2. PICK q \in S : rank(q) = (i - 1) - 1
        BY <3>1
      <3> DEFINE above == {p \in S : p > q}
      <3>3. above # {}
        <4> SUFFICES ASSUME above = {} PROVE FALSE
          OBVIOUS
        <4>1. {p \in S : p <= q} = S
          <5>1. \A p \in S : ~(p > q) => p <= q
            OBVIOUS
          <5>2. \A p \in S : ~(p > q)
            OBVIOUS
          <5> QED BY <5>1, <5>2
        <4>2. Cardinality(S) = rank(q) + 1
          BY <4>1, RankStep
        <4> QED BY <1>1, <2>2, <3>2, <4>2
      <3>4. PICK m \in above : \A x \in above : m <= x
        <4>1. above \subseteq Nat
          OBVIOUS
        <4> HIDE DEF above
        <4> QED BY <3>3, <4>1, MinExists
      <3>5. {p \in S : p < m} = {p \in S : p <= q}
        <4>1. m \in S /\ m > q /\ \A x \in S : x > q => m <= x
          BY <3>4
        <4>2. \A p \in S : p < m <=> p <= q
          <5>1. \A p \in S : p \in Nat
            OBVIOUS
          <5> QED BY <4>1, <5>1
        <4> QED BY <4>2
      <3>6. rank(m) = rank(q) + 1
        BY <3>5, RankStep
      <3>7. rank(m) = i - 1 /\ m \in S
        BY <2>2, <3>2, <3>4, <3>6
      <3> QED BY <2>2, <3>7
    <2> QED BY <2>3, <2>4
  <1>3. ASSUME NEW q \in S, NEW r \in S, q < r
        PROVE  rank(q) < rank(r)
    <2>1. {p \in S : p <= q} \subseteq {p \in S : p < r} /\ IsFiniteSet({p \in S : p < r})
      <3>1. \A p \in S : p <= q => p < r
        BY <1>3
      <3>2. {p \in S : p < r} \in SUBSET S
        OBVIOUS
      <3> QED BY <3>1, <3>2, FS_Subset
    <2>2. Cardinality({p \in S : p <= q}) <= rank(r)
      BY <2>1, FS_Subset
    <2>3. Cardinality({p \in S : p <= q}) = rank(q) + 1 /\ rank(q) \in Nat /\ rank(r) \in Nat
      BY <1>1, RankStep
    <2> HIDE DEF rank
    <2> QED BY <2>2, <2>3
  <1>4. ASSUME NEW q \in S, NEW r \in S, rank(q) = rank(r)
        PROVE  q = r
    <2>1. q \in Nat /\ r \in Nat
      OBVIOUS
    <2>2. ~(q < r) /\ ~(r < q)
      BY <1>1, <1>3, <1>4
    <2> QED BY <2>1, <2>2
  <1>5. \A i \in 1..Cardinality(S) : \E q \in S : rank(q) = i - 1
    BY <1>2
  <1> QED BY <1>4, <1>5

-----------------------------------------------------------------------------
(* What a poll reads and what a claim keeps *)

\* A page lists rows above the watermark, each of them once.
LEMMA OccurrencesType ==
  ASSUME LedgerTypes, TaskTypes
  PROVE  /\ Page \subseteq DOMAIN ledger /\ \A s \in Page : s > watermark
         /\ Occurrences \in Seq(Occurrence)
         /\ \E at \in [DOMAIN Occurrences -> Page] :
              /\ \A i \in DOMAIN Occurrences : Occurrences[i] = <<ledger[at[i]].event, ledger[at[i]].says>>
              /\ \A i, j \in DOMAIN Occurrences : at[i] = at[j] => i = j
  <1> DEFINE rank(q) == Cardinality({p \in Readable : p < q})
             at == [i \in 1..Cardinality(Readable) |-> CHOOSE q \in Readable : rank(q) = i - 1]
  <1>1. Page \subseteq DOMAIN ledger /\ \A s \in Page : s > watermark
    BY DEF Page
  <1>2. Readable \subseteq Page
    BY DEF Readable
  <1>3. Readable \subseteq Nat /\ IsFiniteSet(Readable)
    <2>1. PICK n \in Nat : DOMAIN ledger \subseteq 1..n
      BY DEF LedgerTypes
    <2>2. IsFiniteSet(1..n)
      BY <2>1, FS_Interval
    <2> QED BY <1>1, <1>2, <2>1, <2>2, FS_Subset
  <1>4. Cardinality(Readable) \in Nat
    BY <1>3, FS_CardinalityType
  <1>5. ASSUME NEW i \in 1..Cardinality(Readable)
        PROVE  at[i] \in Readable /\ rank(at[i]) = i - 1
    <2>1. \E q \in Readable : rank(q) = i - 1
      BY <1>3, Ranks
    <2>2. (CHOOSE q \in Readable : rank(q) = i - 1) \in Readable
          /\ rank(CHOOSE q \in Readable : rank(q) = i - 1) = i - 1
      <3> HIDE DEF rank
      <3> QED BY <2>1
    <2> QED BY <2>2
  <1>6. Occurrences = [i \in 1..Cardinality(Readable) |-> <<ledger[at[i]].event, ledger[at[i]].says>>]
    BY DEF Occurrences
  <1> HIDE DEF at, rank
  <1>7. ASSUME NEW i \in 1..Cardinality(Readable)
        PROVE  <<ledger[at[i]].event, ledger[at[i]].says>> \in Occurrence
    BY <1>1, <1>2, <1>5 DEF LedgerTypes, Occurrence
  <1>8. Occurrences \in Seq(Occurrence) /\ DOMAIN Occurrences = 1..Cardinality(Readable)
    <2>1. Occurrences \in [1..Cardinality(Readable) -> Occurrence]
      BY <1>6, <1>7
    <2>2. DOMAIN Occurrences = 1..Cardinality(Readable)
      BY <1>6
    <2>3. Occurrences \in Seq(Occurrence)
      BY <1>4, <2>1
    <2> QED BY <2>2, <2>3
  <1>9. at \in [DOMAIN Occurrences -> Page]
    BY <1>2, <1>5, <1>8 DEF at
  <1>10. \A i, j \in DOMAIN Occurrences : at[i] = at[j] => i = j
    BY <1>4, <1>5, <1>8
  <1>11. \A i \in DOMAIN Occurrences : Occurrences[i] = <<ledger[at[i]].event, ledger[at[i]].says>>
    BY <1>6, <1>8
  <1> QED BY <1>1, <1>8, <1>9, <1>10, <1>11

\* A claim adds its number and drops at most one, none while there is room.
LEMMA ClaimedType ==
  ASSUME TaskTypes, NEW r \in Recipes, NEW s \in Nat
  PROVE  /\ Claimed(r, s) \subseteq seen[r] \cup {s} /\ IsFiniteSet(Claimed(r, s))
         /\ Cardinality(Claimed(r, s)) <= SeenCap
         /\ Cardinality(seen[r] \cup {s}) <= SeenCap => Claimed(r, s) = seen[r] \cup {s}
  <1> DEFINE all == seen[r] \cup {s}
             least == CHOOSE m \in all : \A q \in all : m <= q
  <1>1. SeenCap \in Nat \ {0} /\ seen[r] \subseteq Nat /\ IsFiniteSet(seen[r]) /\ Cardinality(seen[r]) <= SeenCap
    BY RecipesAssumption DEF TaskTypes
  <1>2. IsFiniteSet(all) /\ Cardinality(all) \in Nat /\ Cardinality(all) <= SeenCap + 1
    BY <1>1, FS_AddElement, FS_CardinalityType, SMTT(30)
  <1>3. least \in all
    <2>1. all \subseteq Nat /\ all # {}
      BY <1>1
    <2>2. \E m \in all : \A q \in all : m <= q
      <3> HIDE DEF all
      <3> QED BY <2>1, MinExists
    <2> QED BY <2>2
  <1>4. IsFiniteSet(all \ {least}) /\ Cardinality(all \ {least}) = Cardinality(all) - 1
    BY <1>2, <1>3, FS_RemoveElement, ZenonT(40)
  <1>5. Claimed(r, s) = IF Cardinality(all) > SeenCap THEN all \ {least} ELSE all
    BY DEF Claimed
  <1> HIDE DEF all, least
  <1>6. CASE Cardinality(all) > SeenCap
    <2>1. Cardinality(all) - 1 <= SeenCap /\ ~(Cardinality(all) <= SeenCap)
      BY <1>1, <1>2, <1>6
    <2>2. Claimed(r, s) = all \ {least}
      BY <1>5, <1>6
    <2>3. all \ {least} \subseteq all
      OBVIOUS
    <2> QED BY <1>4, <2>1, <2>2, <2>3 DEF all
  <1>7. CASE ~(Cardinality(all) > SeenCap)
    <2>1. Cardinality(all) <= SeenCap
      BY <1>1, <1>2, <1>7
    <2>2. Claimed(r, s) = all
      BY <1>5, <1>7
    <2> QED BY <1>2, <2>1, <2>2 DEF all
  <1> QED BY <1>6, <1>7

-----------------------------------------------------------------------------
(* What stays *)

\* An event that is out stays out, under its number.
FinalStays == \A e \in Events : stage[e] \in Out => stage'[e] \in Out /\ number'[e] = number[e]

\* A row keeps its recipe and its event.
RowsStay ==
    \A i \in DOMAIN rows : /\ i \in DOMAIN rows'
                           /\ rows'[i].recipe = rows[i].recipe /\ rows'[i].event = rows[i].event

\* Who holds a lock waits, or gives it up with the row it has turned away.
HoldersWait ==
    \A t \in Tasks :
        \/ holds'[t] = {} /\ (holds[t] = {} \/ firing[t] # 0)
        \/ /\ holds'[t] = holds[t] /\ room'[t] = room[t]
           /\ heard'[t] = heard[t] /\ firing'[t] = firing[t]

LEMMA NumbersStay ==
  ASSUME PublisherTypes, [Next]_vars
  PROVE  FinalStays
  <1>1. ASSUME NEW e \in Events, Reserve(e) \/ Persist(e) \/ Send(e) \/ ReadMax(e) \/ Insert(e) \/ Rewrite(e)
        PROVE  FinalStays
    BY <1>1 DEF PublisherTypes, FinalStays, Out, Moves, Reserve, Persist, Send, ReadMax, Insert, Rewrite
  <1>2. CASE Crash
    BY <1>2 DEF PublisherTypes, FinalStays, Out, Crash
  <1>3. ASSUME UNCHANGED <<stage, number>>
        PROVE  FinalStays
    BY <1>3 DEF FinalStays, Out
  <1>4. CASE Subscribe \/ Bootstrap \/ Receive \/ Poll \/ Age \/ Boot
    BY <1>3, <1>4 DEF Subscribe, Bootstrap, Receive, Poll, Age, Boot, publishers
  <1>5. ASSUME NEW t \in Tasks, Engine(t) \/ Miss(t)
        PROVE  FinalStays
    BY <1>3, <1>5 DEF Engine, TurnAway, Finish, Park, Unpark, Skip, Enter, Fire, Miss, publishers
  <1>6. ASSUME NEW i \in DOMAIN rows, Resume(i) \/ \E verdict \in {"approved", "denied"} : Decide(i, verdict)
        PROVE  FinalStays
    BY <1>3, <1>6 DEF Resume, Decide, publishers
  <1>7. CASE UNCHANGED vars
    BY <1>3, <1>7 DEF vars, publishers
  <1> QED BY <1>1, <1>2, <1>4, <1>5, <1>6, <1>7 DEF Next

LEMMA RowIn ==
  ASSUME AuditTypes, NEW i \in DOMAIN rows
  PROVE  /\ rows[i] \in RowType /\ rows[i].recipe \in Recipes /\ rows[i].event \in Events
         /\ i \in 1..Len(rows) /\ Len(rows) \in Nat
  <1>1. rows[i] \in RowType /\ i \in 1..Len(rows) /\ Len(rows) \in Nat
    BY DEF AuditTypes
  <1> QED BY <1>1 DEF RowType

LEMMA HandledStays ==
  ASSUME RowsStay, NEW r, NEW e, Handled(r, e)
  PROVE  Handled(r, e)'
  BY DEF RowsStay, Handled

\* The parts of the invariant that a step leaves alone.
LEMMA LedgerStays ==
  ASSUME LedgerTypes, FinalStays, UNCHANGED ledger
  PROVE  LedgerTypes'
  <1>1. \A s \in DOMAIN ledger : stage'[ledger[s].event] \in Out /\ number'[ledger[s].event] = s
    BY DEF LedgerTypes, FinalStays
  <1> QED BY <1>1 DEF LedgerTypes

LEMMA BusStays ==
  ASSUME BusTypes, FinalStays, UNCHANGED bus
  PROVE  BusTypes'
  <1>1. \A i \in DOMAIN bus : bus[i] \in Events
    BY DEF BusTypes, Events
  <1> QED BY <1>1 DEF BusTypes, FinalStays

LEMMA InHandStays ==
  ASSUME InHand, TaskTypes, FinalStays, UNCHANGED <<heard, listening>>
  PROVE  InHand'
  <1>1. \A t \in Tasks : \A i \in DOMAIN heard[t] : heard[t][i][1] \in Events
    BY DEF TaskTypes, Occurrence
  <1> QED BY <1>1 DEF InHand, FinalStays

LEMMA ExecutingStays ==
  ASSUME Executing, AuditTypes, FinalStays, UNCHANGED <<heard, firing, rows>>
  PROVE  Executing'
  <1>1. \A i \in DOMAIN rows : rows[i].event \in Events
    BY RowIn
  <1>2. \A i \in DOMAIN rows : stage'[rows[i].event] \in Out
    BY <1>1 DEF Executing, RowsInOrder, FinalStays
  <1> QED BY <1>2 DEF Executing, RowsInOrder, Current

LEMMA HandledKeeps ==
  ASSUME Executing, FinalStays, RowsStay, NEW r, NEW f \in Events, Handled(r, f)
  PROVE  Handled(r, f)' /\ number'[f] = number[f]
  <1>1. stage[f] \in Out
    BY DEF Executing, RowsInOrder, Handled
  <1> QED BY <1>1, HandledStays DEF FinalStays

\* Locks that are kept, and rows of their holders that stay to be turned away.
LEMMA HoldingStays ==
  ASSUME Holding, HoldersWait,
         \A t \in Tasks : holds'[t] # {} /\ firing'[t] # 0 => rows'[firing'[t]].status = "turning"
  PROVE  Holding'
  <1>1. ASSUME NEW t \in Tasks, NEW r \in holds'[t]
        PROVE  r \in holds[t] /\ holds'[t] = {r} /\ heard'[t] # <<>>
    BY <1>1 DEF Holding, HoldersWait
  <1>2. ASSUME NEW t \in Tasks, NEW r \in holds'[t], firing'[t] # 0
        PROVE  rows'[firing'[t]].status = "turning"
    BY <1>2
  <1>3. ASSUME NEW t \in Tasks, NEW u \in Tasks, NEW r \in holds'[t], r \in holds'[u]
        PROVE  t = u
    BY <1>1, <1>3 DEF Holding
  <1> QED BY <1>1, <1>2, <1>3 DEF Holding

LEMMA HolderTurns ==
  ASSUME Holding, NEW t \in Tasks, firing[t] # 0
  PROVE  holds[t] # {} => rows[firing[t]].status = "turning"
  BY DEF Holding

LEMMA EnteringStays ==
  ASSUME HoldersWait, NEW r, NEW e, Entering(r, e)
  PROVE  Entering(r, e)'
  BY DEF HoldersWait, Entering, Current

LEMMA EnteringOut ==
  ASSUME InHand, Holding, TaskTypes, NEW r, NEW e, Entering(r, e)
  PROVE  e \in Events /\ stage[e] \in Out
  <1>1. PICK t \in Tasks : r \in holds[t] /\ e = heard[t][1][1]
    BY DEF Entering, Current
  <1>2. heard[t] # <<>> /\ heard[t] \in Seq(Occurrence)
    BY <1>1 DEF Holding, TaskTypes
  <1>3. 1 \in DOMAIN heard[t] /\ heard[t][1] \in Occurrence
    BY <1>2
  <1> QED BY <1>1, <1>3 DEF InHand, Occurrence

\* The claims of a step that handles, or is about to, what it claims.
LEMMA ClaimedGrows ==
  ASSUME ClaimedWasHandled, Executing, AuditTypes, FinalStays, RowsStay,
         \A r \in Recipes : \A s \in seen'[r] :
            s = 0 \/ \E f \in Events : number'[f] = s /\ (Handled(r, f)' \/ Entering(r, f)'),
         \A k \in skipped' :
            \/ k \in skipped \/ Handled(k[1], k[2])' \/ k[3] = 0
            \/ \E f \in Events \ {k[2]} : number'[f] = k[3] /\ Handled(k[1], f)'
  PROVE  ClaimedWasHandled'
  <1>1. ASSUME NEW k \in skipped
        PROVE  \/ Handled(k[1], k[2])' \/ k[3] = 0
               \/ \E f \in Events \ {k[2]} : number'[f] = k[3] /\ Handled(k[1], f)'
    <2>1. k[2] \in Events
      BY DEF AuditTypes
    <2> QED BY <2>1, HandledKeeps DEF ClaimedWasHandled
  <1> QED BY <1>1 DEF ClaimedWasHandled

\* What was claimed stays handled, or about to be.
LEMMA ClaimsStay ==
  ASSUME Safe, FinalStays, RowsStay,
         \A r \in Recipes : \A f \in Events : Entering(r, f) => Handled(r, f)' \/ Entering(r, f)',
         NEW r \in Recipes, NEW s \in seen[r]
  PROVE  s = 0 \/ \E f \in Events : number'[f] = s /\ (Handled(r, f)' \/ Entering(r, f)')
  <1>1. ASSUME s # 0
        PROVE  \E f \in Events : number'[f] = s /\ (Handled(r, f)' \/ Entering(r, f)')
    <2>1. PICK f \in Events : number[f] = s /\ (Handled(r, f) \/ Entering(r, f))
      BY <1>1 DEF Safe, ClaimedWasHandled
    <2>2. CASE Handled(r, f)
      BY <2>1, <2>2, HandledKeeps DEF Safe
    <2>3. CASE Entering(r, f)
      <3>1. stage[f] \in Out
        BY <2>3, EnteringOut DEF Safe, Types
      <3>2. number'[f] = s
        BY <2>1, <3>1 DEF FinalStays
      <3> QED BY <2>3, <3>2
    <2> QED BY <2>1, <2>2, <2>3
  <1> QED BY <1>1

LEMMA ClaimedStays ==
  ASSUME Safe, FinalStays, RowsStay, HoldersWait, UNCHANGED <<seen, skipped>>
  PROVE  ClaimedWasHandled'
  <1>1. \A r \in Recipes : \A f \in Events : Entering(r, f) => Handled(r, f)' \/ Entering(r, f)'
    BY EnteringStays
  <1>2. \A r \in Recipes : \A s \in seen'[r] :
            s = 0 \/ \E f \in Events : number'[f] = s /\ (Handled(r, f)' \/ Entering(r, f)')
    BY <1>1, ClaimsStay
  <1> QED BY <1>2, ClaimedGrows DEF Safe, Types

LEMMA PublishersStay ==
  ASSUME PublisherTypes, LedgerTypes, FinalStays, up' \in BOOLEAN, UNCHANGED publishers
  PROVE  PublisherTypes' /\ LedgerTypes'
  <1>1. UNCHANGED <<counter, stage, number, tries, ledger>>
    BY DEF publishers
  <1> QED BY <1>1, LedgerStays DEF PublisherTypes

LEMMA AuditStays ==
  ASSUME AuditTypes, UNCHANGED <<audit, skipped, missed, faults>>
  PROVE  AuditTypes' /\ RowsStay /\ UNCHANGED rows
  BY DEF AuditTypes, RowsStay, audit

\* A task that puts events aside keeps what it knows of the others.
LEMMA HandsShrink ==
  ASSUME InHand, TaskTypes, FinalStays, UNCHANGED listening,
         \A t \in Tasks : heard'[t] = heard[t] \/ (heard[t] # <<>> /\ heard'[t] = Tail(heard[t]))
  PROVE  InHand'
  <1> SUFFICES ASSUME NEW t \in Tasks
               PROVE  /\ heard'[t] # <<>> => t \in listening
                      /\ \A i \in DOMAIN heard'[t] :
                           /\ stage'[heard'[t][i][1]] \in Out
                           /\ heard'[t][i][2] \in {0, number'[heard'[t][i][1]]}
                           /\ heard'[t][i][1] \in DesktopEvents => heard'[t][i][2] = number'[heard'[t][i][1]]
                           /\ t = "bus" => heard'[t][i][1] \in DesktopEvents
    BY DEF InHand
  <1>1. heard[t] \in Seq(Occurrence)
    BY DEF TaskTypes
  <1>2. ASSUME NEW i \in DOMAIN heard[t]
        PROVE  /\ stage'[heard[t][i][1]] \in Out
               /\ heard[t][i][2] \in {0, number'[heard[t][i][1]]}
               /\ heard[t][i][1] \in DesktopEvents => heard[t][i][2] = number'[heard[t][i][1]]
               /\ t = "bus" => heard[t][i][1] \in DesktopEvents
    <2>1. heard[t][i][1] \in Events
      BY <1>1 DEF Occurrence
    <2> QED BY <2>1 DEF InHand, FinalStays
  <1>3. CASE heard'[t] = heard[t]
    BY <1>2, <1>3 DEF InHand
  <1>4. CASE heard[t] # <<>> /\ heard'[t] = Tail(heard[t])
    <2>1. \A i \in DOMAIN heard'[t] : heard'[t][i] = heard[t][i + 1] /\ i + 1 \in DOMAIN heard[t]
      BY <1>1, <1>4
    <2> QED BY <1>2, <1>4, <2>1 DEF InHand
  <1> QED BY <1>3, <1>4

\* A step of the publishers leaves the engine's side as it is.
LEMMA EngineStays ==
  ASSUME Safe, FinalStays, UNCHANGED <<tasks, seen, audit, skipped, missed, faults>>
  PROVE  TaskTypes' /\ AuditTypes' /\ InHand' /\ Executing' /\ Holding' /\ ClaimedWasHandled'
  <1>1. UNCHANGED <<listening, watermark, heard, left, firing, holds, room, rows, aged>>
    BY DEF tasks, locks, audit
  <1>2. RowsStay /\ HoldersWait
    BY <1>1 DEF RowsStay, HoldersWait
  <1>3. TaskTypes'
    BY <1>1 DEF Safe, Types, TaskTypes
  <1>4. AuditTypes'
    BY <1>1 DEF Safe, Types, AuditTypes
  <1>5. Holding'
    BY <1>1 DEF Safe, Holding
  <1> QED BY <1>1, <1>2, <1>3, <1>4, <1>5, InHandStays, ExecutingStays, ClaimedStays DEF Safe, Types

-----------------------------------------------------------------------------
(* The publishers *)

LEMMA SafeInit == Init => Safe
  <1> SUFFICES ASSUME Init PROVE Safe
    OBVIOUS
  <1>1. PublisherTypes
    BY DEF Init, PublisherTypes, Stages, Events
  <1>2. LedgerTypes /\ BusTypes
    <2>1. ledger = <<>> /\ bus = <<>> /\ DOMAIN ledger = {} /\ Capacity \in Nat
      BY RecipesAssumption DEF Init
    <2>2. DOMAIN ledger \subseteq 1..0 /\ 0 \in Nat
      BY <2>1
    <2>3. ledger = [s \in DOMAIN ledger |-> ledger[s]]
      BY <2>1
    <2> QED BY <2>1, <2>2, <2>3 DEF LedgerTypes, BusTypes
  <1>3. TaskTypes
    BY FS_EmptySet, RecipesAssumption DEF Init, TaskTypes
  <1>4. AuditTypes
    BY RecipesAssumption DEF Init, AuditTypes
  <1>5. InHand /\ Executing /\ Holding /\ ClaimedWasHandled
    BY DEF Init, InHand, Executing, RowsInOrder, Holding, ClaimedWasHandled
  <1> QED BY <1>1, <1>2, <1>3, <1>4, <1>5 DEF Safe, Types

LEMMA ReserveSafe ==
  ASSUME Safe, FinalStays, NEW e \in Events, Reserve(e)
  PROVE  Safe'
  <1>1. PublisherTypes'
    BY RecipesAssumption DEF Safe, Types, PublisherTypes, Reserve, Moves, Stages, Events
  <1>2. LedgerTypes' /\ BusTypes'
    BY LedgerStays, BusStays DEF Safe, Types, Reserve
  <1> QED BY <1>1, <1>2, EngineStays DEF Safe, Types, Reserve

LEMMA ReadMaxSafe ==
  ASSUME Safe, FinalStays, NEW e \in Events, ReadMax(e)
  PROVE  Safe'
  <1>1. PublisherTypes'
    <2>1. MaxSeq + 1 \in Nat /\ MaxSeq + 1 # 0 /\ e \in CliEvents /\ e \notin DesktopEvents
      BY MaxSeqType, RecipesAssumption DEF Safe, Types, ReadMax
    <2>2. tries[e] - 1 \in 0..3
      BY DEF Safe, Types, PublisherTypes, ReadMax
    <2> QED BY <2>1, <2>2 DEF Safe, Types, PublisherTypes, ReadMax, Moves, Stages
  <1>2. LedgerTypes' /\ BusTypes'
    BY LedgerStays, BusStays DEF Safe, Types, ReadMax
  <1> QED BY <1>1, <1>2, EngineStays DEF Safe, Types, ReadMax

\* A row that is added to the table is that of an event that comes out with it.
LEMMA LedgerGrows ==
  ASSUME LedgerTypes, FinalStays, NEW e \in Events, NEW n \in Nat \ {0}, NEW says \in {0, n},
         stage'[e] \in Out, number'[e] = n, e \in DesktopEvents => says = n,
         ledger' = [s \in DOMAIN ledger \cup {n} |->
                      IF s \in DOMAIN ledger THEN ledger[s] ELSE [event |-> e, says |-> says]]
  PROVE  LedgerTypes'
  <1>1. PICK m \in Nat : DOMAIN ledger \subseteq 1..m
    BY DEF LedgerTypes
  <1>2. \E k \in Nat : DOMAIN ledger' \subseteq 1..k
    <2>1. DOMAIN ledger' = DOMAIN ledger \cup {n}
      OBVIOUS
    <2>2. DOMAIN ledger' \subseteq 1..(m + n) /\ m + n \in Nat
      BY <1>1, <2>1
    <2> QED BY <2>2
  <1>3. ledger' = [s \in DOMAIN ledger' |-> ledger'[s]]
    OBVIOUS
  <1>4. ASSUME NEW s \in DOMAIN ledger'
        PROVE  /\ ledger'[s] \in [event : Events, says : Nat]
               /\ stage'[ledger'[s].event] \in Out /\ number'[ledger'[s].event] = s
               /\ ledger'[s].says \in {0, s}
               /\ ledger'[s].event \in DesktopEvents => ledger'[s].says = s
    <2>1. CASE s \in DOMAIN ledger
      BY <2>1 DEF LedgerTypes, FinalStays
    <2>2. CASE s \notin DOMAIN ledger
      <3>1. s = n /\ ledger'[s] = [event |-> e, says |-> says]
        BY <2>2
      <3> QED BY <3>1
    <2> QED BY <2>1, <2>2
  <1> QED BY <1>2, <1>3, <1>4 DEF LedgerTypes

LEMMA PersistSafe ==
  ASSUME Safe, FinalStays, NEW e \in Events, Persist(e)
  PROVE  Safe'
  <1>1. PublisherTypes'
    BY RecipesAssumption DEF Safe, Types, PublisherTypes, Persist, Moves, Stages, Events
  <1>2. LedgerTypes'
    <2>1. number[e] \in Nat \ {0} /\ number'[e] = number[e] /\ stage'[e] \in Out
      BY DEF Safe, Types, PublisherTypes, Persist, Moves, Out
    <2>2. ledger' = [s \in DOMAIN ledger \cup {number[e]} |->
                      IF s \in DOMAIN ledger THEN ledger[s] ELSE [event |-> e, says |-> number[e]]]
      <3>1. \A s \in DOMAIN ledger \cup {number[e]} :
              (IF s \in DOMAIN ledger THEN ledger[s] ELSE [event |-> e, says |-> s])
                = (IF s \in DOMAIN ledger THEN ledger[s] ELSE [event |-> e, says |-> number[e]])
        OBVIOUS
      <3> QED BY <3>1 DEF Persist
    <2> QED BY <2>1, <2>2, LedgerGrows DEF Safe, Types
  <1>3. BusTypes'
    BY BusStays DEF Safe, Types, Persist
  <1> QED BY <1>1, <1>2, <1>3, EngineStays DEF Safe, Types, Persist

LEMMA SendSafe ==
  ASSUME Safe, FinalStays, NEW e \in Events, Send(e)
  PROVE  Safe'
  <1>1. PublisherTypes'
    BY RecipesAssumption DEF Safe, Types, PublisherTypes, Send, Moves, Stages, Events
  <1>2. BusTypes'
    <2>1. Capacity \in Nat /\ bus \in Seq(DesktopEvents) /\ Len(bus) <= Capacity /\ e \in DesktopEvents
      BY RecipesAssumption DEF Safe, Types, BusTypes, Send
    <2>2. stage'[e] \in Out /\ \A i \in DOMAIN bus : stage'[bus[i]] \in Out
      BY DEF Safe, Types, PublisherTypes, BusTypes, FinalStays, Events, Out, Send, Moves
    <2>3. /\ Append(bus, e) \in Seq(DesktopEvents) /\ Len(Append(bus, e)) = Len(bus) + 1
          /\ \A i \in DOMAIN Append(bus, e) : stage'[Append(bus, e)[i]] \in Out
      BY <2>1, <2>2
    <2>4. CASE bus' = bus
      BY <2>1, <2>2, <2>4 DEF BusTypes
    <2>5. CASE bus' = Append(bus, e) /\ ~(Len(Append(bus, e)) > Capacity)
      BY <2>1, <2>3, <2>5 DEF BusTypes
    <2>6. CASE bus' = Tail(Append(bus, e))
      <3>1. /\ bus' \in Seq(DesktopEvents) /\ Len(bus') = Len(bus)
            /\ \A i \in DOMAIN bus' : bus'[i] = Append(bus, e)[i + 1] /\ i + 1 \in DOMAIN Append(bus, e)
        BY <2>1, <2>3, <2>6
      <3> QED BY <2>1, <2>3, <3>1 DEF BusTypes
    <2> QED BY <2>4, <2>5, <2>6 DEF Send
  <1>3. LedgerTypes'
    BY LedgerStays DEF Safe, Types, Send
  <1> QED BY <1>1, <1>2, <1>3, EngineStays DEF Safe, Types, Send

LEMMA InsertSafe ==
  ASSUME Safe, FinalStays, NEW e \in Events, Insert(e)
  PROVE  Safe'
  <1>1. PublisherTypes'
    <2>1. e \in CliEvents /\ e \notin DesktopEvents /\ PublisherTypes
      BY RecipesAssumption DEF Safe, Types, Insert
    <2>2. UNCHANGED <<up, counter, number, tries>>
      BY DEF Insert
    <2>3. /\ stage[e] = "numbered"
          /\ stage' = [stage EXCEPT ![e] = "new"] \/ stage' = [stage EXCEPT ![e] = "inserted"]
      BY DEF Insert, Moves
    <2>4. CASE stage' = [stage EXCEPT ![e] = "new"]
      BY <2>1, <2>2, <2>3, <2>4 DEF PublisherTypes, Stages
    <2>5. CASE stage' = [stage EXCEPT ![e] = "inserted"]
      BY <2>1, <2>2, <2>3, <2>5 DEF PublisherTypes, Stages
    <2> QED BY <2>3, <2>4, <2>5
  <1>2. LedgerTypes'
    <2>1. CASE number[e] \in DOMAIN ledger
      BY <2>1, LedgerStays DEF Safe, Types, Insert
    <2>2. CASE number[e] \notin DOMAIN ledger
      <3>1. number[e] \in Nat \ {0} /\ number'[e] = number[e] /\ stage'[e] \in Out /\ e \notin DesktopEvents
        BY <2>2, RecipesAssumption DEF Safe, Types, PublisherTypes, Insert, Moves, Out
      <3>2. ledger' = [s \in DOMAIN ledger \cup {number[e]} |->
                         IF s \in DOMAIN ledger THEN ledger[s] ELSE [event |-> e, says |-> 0]]
        <4>1. \A s \in DOMAIN ledger \cup {number[e]} :
                (IF s = number[e] THEN [event |-> e, says |-> 0] ELSE ledger[s])
                  = (IF s \in DOMAIN ledger THEN ledger[s] ELSE [event |-> e, says |-> 0])
          BY <2>2
        <4> QED BY <2>2, <4>1 DEF Insert
      <3> QED BY <3>1, <3>2, LedgerGrows DEF Safe, Types
    <2> QED BY <2>1, <2>2
  <1>3. BusTypes'
    BY BusStays DEF Safe, Types, Insert
  <1> QED BY <1>1, <1>2, <1>3, EngineStays DEF Safe, Types, Insert

LEMMA RewriteSafe ==
  ASSUME Safe, FinalStays, NEW e \in Events, Rewrite(e)
  PROVE  Safe'
  <1>1. PublisherTypes'
    BY RecipesAssumption DEF Safe, Types, PublisherTypes, Rewrite, Moves, Stages, Events
  <1>2. LedgerTypes'
    <2>1. /\ DOMAIN ledger' = DOMAIN ledger /\ ledger' = [s \in DOMAIN ledger' |-> ledger'[s]]
          /\ \A s \in DOMAIN ledger \ {number[e]} : ledger'[s] = ledger[s]
      BY DEF Safe, Types, LedgerTypes, Rewrite
    <2>2. ASSUME NEW s \in DOMAIN ledger, s = number[e]
          PROVE  /\ ledger'[s] \in [event : Events, says : Nat]
                 /\ ledger'[s].event = ledger[s].event /\ ledger'[s].says = s
      <3>1. s \in Nat /\ ledger[s] \in [event : Events, says : Nat]
        BY DEF Safe, Types, LedgerTypes
      <3> QED BY <2>2, <3>1 DEF Rewrite
    <2>3. \A s \in DOMAIN ledger : stage'[ledger[s].event] \in Out /\ number'[ledger[s].event] = s
      BY DEF Safe, Types, LedgerTypes, FinalStays
    <2> QED BY <2>1, <2>2, <2>3 DEF Safe, Types, LedgerTypes
  <1>3. BusTypes'
    BY BusStays DEF Safe, Types, Rewrite
  <1> QED BY <1>1, <1>2, <1>3, EngineStays DEF Safe, Types, Rewrite
-----------------------------------------------------------------------------
(* What the tasks hear *)

LEMMA ListenSafe ==
  ASSUME Safe, FinalStays, Subscribe \/ Bootstrap
  PROVE  Safe'
  <1>1. /\ UNCHANGED <<up, publishers, bus, heard, left, firing, locks, seen, audit, skipped, missed, faults>>
        /\ listening' \in SUBSET Tasks /\ listening \subseteq listening'
    BY DEF Subscribe, Bootstrap, Safe, Types, TaskTypes, Tasks
  <1>2. watermark' \in Int /\ watermark' >= -1
    BY MaxSeqType DEF Subscribe, Bootstrap, Safe, Types, TaskTypes
  <1>3. PublisherTypes' /\ LedgerTypes' /\ BusTypes'
    BY <1>1, PublishersStay, BusStays DEF Safe, Types, PublisherTypes
  <1>4. TaskTypes'
    BY <1>1, <1>2 DEF Safe, Types, TaskTypes, locks
  <1>5. AuditTypes' /\ RowsStay /\ UNCHANGED rows
    BY <1>1, AuditStays DEF Safe, Types
  <1>6. InHand'
    <2>1. \A t \in Tasks : \A i \in DOMAIN heard[t] : heard[t][i][1] \in Events
      BY DEF Safe, Types, TaskTypes, Occurrence
    <2> QED BY <1>1, <2>1 DEF Safe, InHand, FinalStays
  <1>7. HoldersWait
    BY <1>1 DEF HoldersWait, locks
  <1>8. Holding'
    BY <1>1, <1>5 DEF Safe, Holding, locks
  <1> QED BY <1>1, <1>3, <1>4, <1>5, <1>6, <1>7, <1>8, ExecutingStays, ClaimedStays DEF Safe, Types

\* A task takes in events that are out, and has then nothing in execution.
LEMMA HearsSafe ==
  ASSUME Safe, FinalStays, NEW t \in Tasks, NEW what \in Seq(Occurrence), Hears(t, what), BusTypes',
         watermark' \in Int, watermark' >= -1,
         UNCHANGED <<up, publishers, listening, firing, locks, seen, audit, skipped, missed, faults>>,
         \A i \in DOMAIN what :
            /\ stage[what[i][1]] \in Out /\ what[i][2] \in {0, number[what[i][1]]}
            /\ what[i][1] \in DesktopEvents => what[i][2] = number[what[i][1]]
            /\ t = "bus" => what[i][1] \in DesktopEvents
  PROVE  Safe'
  <1>1. /\ heard' = [heard EXCEPT ![t] = what] /\ left' = [left EXCEPT ![t] = Recipes]
        /\ t \in listening /\ heard[t] = <<>>
    BY DEF Hears
  <1>2. heard \in [Tasks -> Seq(Occurrence)] /\ left \in [Tasks -> SUBSET Recipes]
    BY DEF Safe, Types, TaskTypes
  <1>3. heard'[t] = what /\ \A u \in Tasks \ {t} : heard'[u] = heard[u]
    BY <1>1, <1>2
  <1>4. PublisherTypes' /\ LedgerTypes'
    BY PublishersStay DEF Safe, Types, PublisherTypes
  <1>5. TaskTypes'
    BY <1>1, <1>2 DEF Safe, Types, TaskTypes, locks
  <1>6. AuditTypes' /\ RowsStay /\ UNCHANGED rows
    BY AuditStays DEF Safe, Types
  <1>7. InHand'
    <2>1. stage' = stage /\ number' = number
      BY DEF publishers
    <2> QED BY <1>1, <1>3, <2>1 DEF Safe, InHand
  <1>8. firing[t] = 0 /\ holds[t] = {} /\ UNCHANGED <<holds, room>>
    BY <1>1 DEF Safe, Executing, Holding, locks
  <1>9. Executing'
    <2>1. stage' = stage
      BY DEF publishers
    <2> QED BY <1>3, <1>6, <1>8, <2>1 DEF Safe, Executing, RowsInOrder, Current
  <1>10. HoldersWait
    BY <1>3, <1>8 DEF HoldersWait
  <1>11. Holding'
    BY <1>3, <1>6, <1>8 DEF Safe, Holding
  <1>12. ClaimedWasHandled'
    BY <1>6, <1>10, ClaimedStays DEF Safe, Types
  <1> QED BY <1>4, <1>5, <1>6, <1>7, <1>9, <1>11, <1>12 DEF Safe, Types

LEMMA ReceiveSafe ==
  ASSUME Safe, FinalStays, Receive
  PROVE  Safe'
  <1> DEFINE what == <<<<Head(bus), number[Head(bus)]>>>>
  <1>1. bus \in Seq(DesktopEvents) /\ Len(bus) <= Capacity /\ bus # <<>> /\ Capacity \in Nat
    BY RecipesAssumption DEF Safe, Types, BusTypes, Receive
  <1>2. Head(bus) \in DesktopEvents /\ Head(bus) \in Events /\ Head(bus) = bus[1] /\ 1 \in DOMAIN bus
    BY <1>1 DEF Events
  <1>3. number[Head(bus)] \in Nat /\ stage[Head(bus)] \in Out
    BY <1>2 DEF Safe, Types, PublisherTypes, BusTypes
  <1>4. BusTypes'
    <2>1. /\ bus' \in Seq(DesktopEvents) /\ Len(bus') = Len(bus) - 1
          /\ \A i \in DOMAIN bus' : bus'[i] = bus[i + 1] /\ i + 1 \in DOMAIN bus
      BY <1>1 DEF Receive
    <2>2. stage' = stage
      BY DEF Receive, publishers
    <2>3. Len(bus') <= Capacity
      BY <1>1, <2>1
    <2> QED BY <2>1, <2>2, <2>3 DEF Safe, Types, BusTypes
  <1>5. what \in Seq(Occurrence) /\ DOMAIN what = {1} /\ what[1][1] = Head(bus) /\ what[1][2] = number[Head(bus)]
    <2>1. <<Head(bus), number[Head(bus)]>> \in Occurrence
      BY <1>2, <1>3 DEF Occurrence
    <2> QED BY <2>1
  <1>6. Hears("bus", what) /\ "bus" \in Tasks
    BY DEF Receive, Tasks
  <1>7. watermark' \in Int /\ watermark' >= -1
    BY DEF Safe, Types, TaskTypes, Receive
  <1> HIDE DEF what
  <1>8. \A i \in DOMAIN what :
            /\ stage[what[i][1]] \in Out /\ what[i][2] \in {0, number[what[i][1]]}
            /\ what[i][1] \in DesktopEvents => what[i][2] = number[what[i][1]]
            /\ what[i][1] \in DesktopEvents
    BY <1>2, <1>3, <1>5
  <1>9. UNCHANGED <<up, publishers, listening, firing, locks, seen, audit, skipped, missed, faults>>
    BY DEF Receive
  <1> QED BY <1>4, <1>5, <1>6, <1>7, <1>8, <1>9, HearsSafe

LEMMA PollSafe ==
  ASSUME Safe, FinalStays, Poll
  PROVE  Safe'
  <1>1. LedgerTypes /\ TaskTypes /\ PublisherTypes /\ BusTypes
    BY DEF Safe, Types
  <1>2. Occurrences \in Seq(Occurrence) /\ Page \subseteq DOMAIN ledger
    BY <1>1, OccurrencesType
  <1>3. watermark' \in Nat
    <2>1. PICK n \in Nat : DOMAIN ledger \subseteq 1..n
      BY <1>1 DEF LedgerTypes
    <2>2. Page \subseteq 0..n /\ Page # {}
      BY <1>2, <2>1 DEF Poll
    <2>3. Max(Page) \in Page
      BY <2>2, MaxOf
    <2>4. watermark' = Max(Page)
      BY DEF Poll
    <2>5. watermark' \in 0..n
      BY <2>2, <2>3, <2>4
    <2> QED BY <2>5
  <1>4. ASSUME NEW i \in DOMAIN Occurrences
        PROVE  /\ stage[Occurrences[i][1]] \in Out
               /\ Occurrences[i][2] \in {0, number[Occurrences[i][1]]}
               /\ Occurrences[i][1] \in DesktopEvents => Occurrences[i][2] = number[Occurrences[i][1]]
    <2>1. PICK s \in Page : Occurrences[i] = <<ledger[s].event, ledger[s].says>>
      <3>1. PICK at \in [DOMAIN Occurrences -> Page] :
              \A j \in DOMAIN Occurrences : Occurrences[j] = <<ledger[at[j]].event, ledger[at[j]].says>>
        BY <1>1, OccurrencesType
      <3>2. at[i] \in Page
        BY <3>1
      <3> QED BY <3>1, <3>2
    <2>2. Occurrences[i][1] = ledger[s].event /\ Occurrences[i][2] = ledger[s].says /\ s \in DOMAIN ledger
      BY <1>2, <2>1
    <2> QED BY <1>1, <2>2 DEF LedgerTypes
  <1>5. BusTypes'
    BY <1>1, BusStays DEF Poll
  <1>6. Hears("poll", Occurrences) /\ "poll" \in Tasks /\ "poll" # "bus"
    BY DEF Poll, Tasks
  <1>7. UNCHANGED <<up, publishers, listening, firing, locks, seen, audit, skipped, missed, faults>>
    BY DEF Poll
  <1>8. watermark' \in Int /\ watermark' >= -1
    BY <1>3
  <1> QED BY <1>2, <1>4, <1>5, <1>6, <1>7, <1>8, HearsSafe
-----------------------------------------------------------------------------
(* What the tasks do *)

\* A task that is done with a recipe keeps its event or puts it aside.
LEMMA DoneEffect ==
  ASSUME TaskTypes, NEW t \in Tasks, NEW rest \in SUBSET Recipes, heard[t] # <<>>, Done(t, rest)
  PROVE  /\ left' \in [Tasks -> SUBSET Recipes] /\ heard' \in [Tasks -> Seq(Occurrence)]
         /\ \A u \in Tasks \ {t} : heard'[u] = heard[u] /\ left'[u] = left[u]
         /\ IF rest = {} THEN heard'[t] = Tail(heard[t]) ELSE heard'[t] = heard[t] /\ left'[t] = rest
  <1>1. heard \in [Tasks -> Seq(Occurrence)] /\ left \in [Tasks -> SUBSET Recipes]
    BY DEF TaskTypes
  <1>2. Tail(heard[t]) \in Seq(Occurrence)
    BY <1>1
  <1>3. CASE rest # {}
    BY <1>1, <1>3 DEF Done
  <1>4. CASE rest = {}
    <2>1. left' = [left EXCEPT ![t] = Recipes] /\ heard' = [heard EXCEPT ![t] = Tail(heard[t])]
      BY <1>4 DEF Done
    <2> QED BY <1>1, <1>2, <1>4, <2>1
  <1> QED BY <1>3, <1>4

\* A row that is added, and a row whose status, approval or verdict changes.
LEMMA RowAdded ==
  ASSUME AuditTypes, NEW row \in RowType, rows' = Append(rows, row), aged' = aged
  PROVE  /\ rows' \in Seq(RowType) /\ aged' \in 0..Len(rows') /\ RowsStay
         /\ Len(rows') = Len(rows) + 1 /\ Len(rows') \in DOMAIN rows' \ DOMAIN rows
         /\ DOMAIN rows' = DOMAIN rows \cup {Len(rows')} /\ rows'[Len(rows')] = row
         /\ \A i \in DOMAIN rows : rows'[i] = rows[i]
  <1>1. rows \in Seq(RowType) /\ aged \in 0..Len(rows) /\ Len(rows) \in Nat /\ DOMAIN rows = 1..Len(rows)
    BY DEF AuditTypes
  <1>2. /\ rows' \in Seq(RowType) /\ Len(rows') = Len(rows) + 1 /\ DOMAIN rows' = 1..Len(rows) + 1
        /\ rows'[Len(rows) + 1] = row /\ \A i \in DOMAIN rows : rows'[i] = rows[i]
    BY <1>1
  <1>3. RowsStay
    BY <1>1, <1>2 DEF RowsStay
  <1> QED BY <1>1, <1>2, <1>3

Statuses == {"running", "done", "turning", "rate_limited", "awaiting_approval", "approved", "denied"}
Verdicts == {"none", "approved", "denied"}

LEMMA RowChanged ==
  ASSUME AuditTypes, NEW j \in DOMAIN rows, NEW status \in Statuses, NEW asked \in BOOLEAN,
         NEW verdict \in Verdicts, aged' = aged,
         rows' = [rows EXCEPT ![j] = [recipe |-> rows[j].recipe, event |-> rows[j].event, asked |-> asked,
                                      status |-> status, verdict |-> verdict]]
  PROVE  /\ rows' \in Seq(RowType) /\ aged' \in 0..Len(rows') /\ RowsStay
         /\ Len(rows') = Len(rows) /\ DOMAIN rows' = DOMAIN rows
         /\ rows'[j].status = status /\ rows'[j].asked = asked /\ rows'[j].verdict = verdict
         /\ \A i \in DOMAIN rows \ {j} : rows'[i] = rows[i]
  <1> DEFINE row == [recipe |-> rows[j].recipe, event |-> rows[j].event, asked |-> asked,
                     status |-> status, verdict |-> verdict]
  <1>1. rows \in Seq(RowType) /\ aged \in 0..Len(rows) /\ Len(rows) \in Nat /\ DOMAIN rows = 1..Len(rows)
    BY DEF AuditTypes
  <1>2. row \in RowType
    <2>1. rows[j].recipe \in Recipes /\ rows[j].event \in Events
      BY RowIn
    <2> QED BY <2>1 DEF RowType, Statuses, Verdicts
  <1>3. /\ row.recipe = rows[j].recipe /\ row.event = rows[j].event /\ row.status = status
        /\ row.asked = asked /\ row.verdict = verdict
    OBVIOUS
  <1>4. rows' = [rows EXCEPT ![j] = row]
    OBVIOUS
  <1> HIDE DEF row
  <1>5. /\ rows' \in Seq(RowType) /\ Len(rows') = Len(rows) /\ DOMAIN rows' = DOMAIN rows
        /\ rows'[j] = row /\ \A i \in DOMAIN rows \ {j} : rows'[i] = rows[i]
    BY <1>1, <1>2, <1>4
  <1>6. RowsStay
    BY <1>3, <1>5 DEF RowsStay
  <1> QED BY <1>1, <1>3, <1>5, <1>6

\* A record of the audit is what its fields are.
LEMMA RowFields ==
  ASSUME NEW row \in RowType
  PROVE  /\ row.status \in Statuses /\ row.asked \in BOOLEAN /\ row.verdict \in Verdicts
         /\ \A v : [row EXCEPT !.status = v] = [recipe |-> row.recipe, event |-> row.event,
                                               asked |-> row.asked, status |-> v, verdict |-> row.verdict]
         /\ \A v : [row EXCEPT !.verdict = v] = [recipe |-> row.recipe, event |-> row.event,
                                                asked |-> row.asked, status |-> row.status, verdict |-> v]
         /\ \A v, w : [row EXCEPT !.asked = v, !.status = w] =
                         [recipe |-> row.recipe, event |-> row.event,
                          asked |-> v, status |-> w, verdict |-> row.verdict]
  <1>1. row.status \in Statuses /\ row.asked \in BOOLEAN /\ row.verdict \in Verdicts
    BY DEF RowType, Statuses, Verdicts
  <1>2. \A v : [row EXCEPT !.status = v] = [recipe |-> row.recipe, event |-> row.event,
                                           asked |-> row.asked, status |-> v, verdict |-> row.verdict]
    BY DEF RowType
  <1>3. \A v : [row EXCEPT !.verdict = v] = [recipe |-> row.recipe, event |-> row.event,
                                            asked |-> row.asked, status |-> row.status, verdict |-> v]
    BY DEF RowType
  <1>4. \A v, w : [row EXCEPT !.asked = v, !.status = w] =
                     [recipe |-> row.recipe, event |-> row.event,
                      asked |-> v, status |-> w, verdict |-> row.verdict]
    <2> TAKE v, w
    <2> DEFINE half == [recipe |-> row.recipe, event |-> row.event,
                        asked |-> v, status |-> row.status, verdict |-> row.verdict]
    <2>1. [row EXCEPT !.asked = v] = half
      BY DEF RowType
    <2>2. [row EXCEPT !.asked = v, !.status = w] = [[row EXCEPT !.asked = v] EXCEPT !.status = w]
      OBVIOUS
    <2>3. [half EXCEPT !.status = w] = [recipe |-> row.recipe, event |-> row.event,
                                        asked |-> v, status |-> w, verdict |-> row.verdict]
      OBVIOUS
    <2> HIDE DEF half
    <2> QED BY <2>1, <2>2, <2>3
  <1> QED BY <1>1, <1>2, <1>3, <1>4

LEMMA AuditFields ==
  ASSUME AuditTypes, NEW j \in DOMAIN rows, NEW v, NEW w
  PROVE  /\ [rows EXCEPT ![j].status = v] = [rows EXCEPT ![j] = [rows[j] EXCEPT !.status = v]]
         /\ [rows EXCEPT ![j].verdict = v] = [rows EXCEPT ![j] = [rows[j] EXCEPT !.verdict = v]]
         /\ [rows EXCEPT ![j].asked = v, ![j].status = w] =
              [rows EXCEPT ![j] = [rows[j] EXCEPT !.asked = v, !.status = w]]
  <1>1. rows \in [1..Len(rows) -> RowType] /\ j \in 1..Len(rows)
    BY DEF AuditTypes
  <1>2. /\ [rows EXCEPT ![j].status = v] = [rows EXCEPT ![j] = [rows[j] EXCEPT !.status = v]]
        /\ [rows EXCEPT ![j].verdict = v] = [rows EXCEPT ![j] = [rows[j] EXCEPT !.verdict = v]]
    BY <1>1
  <1>3. [rows EXCEPT ![j].asked = v, ![j].status = w] =
          [rows EXCEPT ![j] = [rows[j] EXCEPT !.asked = v, !.status = w]]
    BY <1>1
  <1> QED BY <1>2, <1>3

\* What a task is still at is as it has to be, and who holds a lock over it turns it away.
StillAt ==
    \A u \in Tasks : firing'[u] # 0 /\ firing'[u] = firing[u] =>
        /\ rows'[firing[u]].asked \/ rows'[firing[u]].status \in {"running", "turning"}
        /\ holds'[u] # {} => rows'[firing[u]].status = "turning"

\* A task comes to an end with its row, stays with it or begins the one it has written.
LEMMA ExecutingStep ==
  ASSUME Safe, FinalStays, RowsStay, NEW t \in Tasks, firing' \in [Tasks -> Nat],
         \A u \in Tasks \ {t} : firing'[u] = firing[u] /\ heard'[u] = heard[u],
         \/ firing'[t] = 0
         \/ firing'[t] = firing[t] /\ heard'[t] = heard[t]
         \/ /\ firing'[t] \in DOMAIN rows' \ DOMAIN rows /\ heard'[t] = heard[t] /\ heard[t] # <<>>
            /\ rows'[firing'[t]].event = Current(t) /\ rows'[firing'[t]].status \in {"running", "turning"},
         StillAt, RowsInOrder'
  PROVE  Executing'
  <1>1. ASSUME NEW u \in Tasks, firing'[u] # 0, firing'[u] = firing[u], heard'[u] = heard[u]
        PROVE  /\ firing'[u] \in DOMAIN rows' /\ heard'[u] # <<>>
               /\ rows'[firing'[u]].event = heard'[u][1][1]
               /\ rows'[firing'[u]].asked \/ rows'[firing'[u]].status \in {"running", "turning"}
    <2>1. firing[u] \in DOMAIN rows /\ heard[u] # <<>> /\ rows[firing[u]].event = heard[u][1][1]
      BY <1>1 DEF Safe, Executing, Current
    <2> QED BY <1>1, <2>1 DEF RowsStay, StillAt
  <1>2. ASSUME NEW u \in Tasks, firing'[u] # 0
        PROVE  /\ firing'[u] \in DOMAIN rows' /\ heard'[u] # <<>>
               /\ rows'[firing'[u]].event = heard'[u][1][1]
               /\ rows'[firing'[u]].asked \/ rows'[firing'[u]].status \in {"running", "turning"}
    <2>1. CASE firing'[u] = firing[u] /\ heard'[u] = heard[u]
      BY <1>1, <1>2, <2>1
    <2>2. CASE ~(firing'[u] = firing[u] /\ heard'[u] = heard[u])
      BY <1>2, <2>2 DEF Current
    <2> QED BY <2>1, <2>2
  <1>3. ASSUME NEW u \in Tasks, NEW v \in Tasks, firing'[u] # 0, firing'[u] = firing'[v]
        PROVE  u = v
    <2>1. \A w \in Tasks \ {t} : firing'[w] = 0 \/ (firing'[w] = firing[w] /\ firing[w] \in DOMAIN rows)
      BY DEF Safe, Executing
    <2> QED BY <1>3, <2>1 DEF Safe, Executing
  <1> QED BY <1>2, <1>3 DEF Executing, Current

\* What a step that leaves the rows alone needs of them.
LEMMA RowsUnmoved ==
  ASSUME Safe, FinalStays, UNCHANGED rows
  PROVE  RowsInOrder' /\ RowsStay
  <1>1. \A i \in DOMAIN rows : stage'[rows[i].event] \in Out
    <2>1. \A i \in DOMAIN rows : rows[i].event \in Events
      BY RowIn DEF Safe, Types
    <2> QED BY <2>1 DEF Safe, Executing, RowsInOrder, FinalStays
  <1> QED BY <1>1 DEF Safe, Executing, RowsInOrder, RowsStay

LEMMA StillUnmoved ==
  ASSUME Safe, UNCHANGED <<rows, holds>>
  PROVE  StillAt
  <1>1. ASSUME NEW u \in Tasks, firing[u] # 0
        PROVE  /\ rows[firing[u]].asked \/ rows[firing[u]].status \in {"running", "turning"}
               /\ holds[u] # {} => rows[firing[u]].status = "turning"
    BY <1>1, HolderTurns DEF Safe, Executing
  <1> QED BY <1>1 DEF StillAt

\* A task's step that keeps the audit, its executions and the claims in order.
LEMMA TaskSafe ==
  ASSUME Safe, FinalStays, NEW t \in Tasks, UNCHANGED <<up, publishers, bus, listening, watermark>>,
         heard' \in [Tasks -> Seq(Occurrence)], left' \in [Tasks -> SUBSET Recipes],
         \A u \in Tasks \ {t} : heard'[u] = heard[u],
         heard'[t] = heard[t] \/ (heard[t] # <<>> /\ heard'[t] = Tail(heard[t])),
         firing' \in [Tasks -> Nat], seen' \in [Recipes -> SUBSET Nat],
         \A r \in Recipes : IsFiniteSet(seen'[r]) /\ Cardinality(seen'[r]) <= SeenCap,
         holds' \in [Tasks -> SUBSET Recipes], room' \in [Tasks -> BOOLEAN],
         AuditTypes', Executing', Holding', ClaimedWasHandled'
  PROVE  Safe'
  <1>1. PublisherTypes' /\ LedgerTypes' /\ BusTypes'
    BY PublishersStay, BusStays DEF Safe, Types, PublisherTypes
  <1>2. TaskTypes'
    BY DEF Safe, Types, TaskTypes
  <1>3. InHand'
    <2>1. \A u \in Tasks : heard'[u] = heard[u] \/ (heard[u] # <<>> /\ heard'[u] = Tail(heard[u]))
      OBVIOUS
    <2> QED BY <2>1, HandsShrink DEF Safe, Types
  <1> QED BY <1>1, <1>2, <1>3 DEF Safe, Types

\* What a task has in hand, as long as it has anything.
LEMMA CurrentType ==
  ASSUME Safe, NEW t \in Tasks, heard[t] # <<>>
  PROVE  /\ heard[t] \in Seq(Occurrence) /\ 1 \in DOMAIN heard[t]
         /\ Current(t) \in Events /\ Number(t) \in Nat /\ stage[Current(t)] \in Out
         /\ Number(t) \in {0, number[Current(t)]}
         /\ Current(t) \in DesktopEvents => Number(t) = number[Current(t)]
  <1>1. heard[t] \in Seq(Occurrence) /\ 1 \in DOMAIN heard[t]
    BY DEF Safe, Types, TaskTypes
  <1>2. heard[t][1] \in Occurrence
    BY <1>1
  <1> QED BY <1>1, <1>2 DEF Safe, InHand, Current, Number, Occurrence

LEMMA SkipSafe ==
  ASSUME Safe, FinalStays, NEW t \in Tasks, NEW r \in Recipes, Skip(t, r)
  PROVE  Safe'
  <1>1. /\ heard[t] # <<>> /\ firing[t] = 0 /\ holds[t] = {} /\ Number(t) \in seen[r]
        /\ \A u \in Tasks : r \notin holds[u]
        /\ skipped' = skipped \cup {<<r, Current(t), Number(t)>>}
        /\ UNCHANGED <<up, publishers, bus, listening, watermark, firing, holds, room, seen, rows, aged,
                       missed, faults>>
    BY DEF Skip, Free, Idle, Duplicate, audit, locks
  <1>2. /\ left' \in [Tasks -> SUBSET Recipes] /\ heard' \in [Tasks -> Seq(Occurrence)]
        /\ \A u \in Tasks \ {t} : heard'[u] = heard[u]
        /\ heard'[t] = heard[t] \/ heard'[t] = Tail(heard[t])
    <2>1. left[t] \ {r} \in SUBSET Recipes /\ Done(t, left[t] \ {r})
      BY DEF Safe, Types, TaskTypes, Skip
    <2> QED BY <1>1, <2>1, DoneEffect DEF Safe, Types
  <1>3. Current(t) \in Events /\ Number(t) \in Nat /\ Number(t) \in {0, number[Current(t)]}
    BY <1>1, CurrentType
  <1>4. AuditTypes'
    <2>1. <<r, Current(t), Number(t)>> \in Recipes \X Events \X Nat
      BY <1>3
    <2> QED BY <1>1, <2>1 DEF Safe, Types, AuditTypes
  <1>5. RowsStay /\ RowsInOrder' /\ StillAt
    BY <1>1, RowsUnmoved, StillUnmoved
  <1>6. Executing'
    <2>1. firing' \in [Tasks -> Nat]
      BY <1>1 DEF Safe, Types, TaskTypes
    <2> QED BY <1>1, <1>2, <1>5, <2>1, ExecutingStep
  <1>7. HoldersWait
    BY <1>1, <1>2 DEF HoldersWait
  <1>8. Holding'
    BY <1>1, <1>2 DEF Safe, Holding
  <1>9. ClaimedWasHandled'
    <2>1. number' = number
      BY <1>1 DEF publishers
    <2>2. PICK s \in seen[r] : s = Number(t)
      BY <1>1
    <2>3. s = 0 \/ \E f \in Events : number[f] = s /\ Handled(r, f)
      BY <1>1, <2>2 DEF Safe, ClaimedWasHandled, Entering
    <2> PICK k : k = <<r, Current(t), Number(t)>>
      OBVIOUS
    <2>4. k[1] = r /\ k[2] = Current(t) /\ k[3] = Number(t)
      OBVIOUS
    <2>5. \/ Handled(k[1], k[2])' \/ k[3] = 0
          \/ \E f \in Events \ {k[2]} : number'[f] = k[3] /\ Handled(k[1], f)'
      <3>1. ASSUME NEW f \in Events, number[f] = s, Handled(r, f)
            PROVE  Handled(r, f)'
        BY <1>5, <3>1, HandledStays
      <3>2. CASE s = 0
        BY <2>2, <2>4, <3>2
      <3>3. ASSUME NEW f \in Events, number[f] = s, Handled(r, f), f = Current(t)
            PROVE  Handled(k[1], k[2])'
        <4>1. k[1] = r /\ k[2] = f
          BY <2>4, <3>3
        <4> QED BY <3>1, <3>3, <4>1
      <3>4. ASSUME NEW f \in Events, number[f] = s, Handled(r, f), f # Current(t)
            PROVE  \E g \in Events \ {k[2]} : number'[g] = k[3] /\ Handled(k[1], g)'
        BY <2>1, <2>2, <2>4, <3>1, <3>4
      <3> QED BY <2>3, <3>2, <3>3, <3>4
    <2>6. \A x \in skipped' : x \in skipped \/ x = k
      BY <1>1
    <2>7. \A x \in skipped' :
            \/ x \in skipped \/ Handled(x[1], x[2])' \/ x[3] = 0
            \/ \E f \in Events \ {x[2]} : number'[f] = x[3] /\ Handled(x[1], f)'
      BY <2>5, <2>6
    <2>8. \A q \in Recipes : \A f \in Events : Entering(q, f) => Handled(q, f)' \/ Entering(q, f)'
      BY <1>7, EnteringStays
    <2>9. \A q \in Recipes : \A n \in seen'[q] :
            n = 0 \/ \E f \in Events : number'[f] = n /\ (Handled(q, f)' \/ Entering(q, f)')
      BY <1>1, <1>5, <2>8, ClaimsStay
    <2> QED BY <1>5, <2>7, <2>9, ClaimedGrows DEF Safe, Types
  <1> QED BY <1>1, <1>2, <1>4, <1>6, <1>8, <1>9, TaskSafe DEF Safe, Types, TaskTypes

\* A task that enters has the lock, and its number is claimed.
LEMMA EnterFrame ==
  ASSUME Safe, NEW t \in Tasks, NEW r \in Recipes, Enter(t, r)
  PROVE  /\ up /\ heard[t] # <<>> /\ firing[t] = 0 /\ holds[t] = {} /\ r \in left[t]
         /\ Number(t) \notin seen[r] /\ \A u \in Tasks : r \notin holds[u]
         /\ seen' = [seen EXCEPT ![r] = Claimed(r, Number(t))]
         /\ holds' \in [Tasks -> SUBSET Recipes] /\ room' \in [Tasks -> BOOLEAN]
         /\ holds'[t] = {r} /\ room'[t] = (Cardinality(Counted(r)) < RateLimit)
         /\ \A u \in Tasks \ {t} : holds'[u] = holds[u] /\ room'[u] = room[u]
         /\ UNCHANGED <<up, publishers, bus, listening, watermark, heard, left, firing, rows, aged,
                        skipped, missed, faults>>
  <1>1. holds \in [Tasks -> SUBSET Recipes] /\ room \in [Tasks -> BOOLEAN]
    BY DEF Safe, Types, TaskTypes
  <1>2. /\ holds' = [holds EXCEPT ![t] = {r}]
        /\ room' = [room EXCEPT ![t] = Cardinality(Counted(r)) < RateLimit]
    BY DEF Enter
  <1>3. /\ holds' \in [Tasks -> SUBSET Recipes] /\ holds'[t] = {r}
        /\ \A u \in Tasks \ {t} : holds'[u] = holds[u] /\ room'[u] = room[u]
    BY <1>1, <1>2
  <1>4. room'[t] = (Cardinality(Counted(r)) < RateLimit)
    BY <1>1, <1>2
  <1>5. room' \in [Tasks -> BOOLEAN]
    <2>1. (Cardinality(Counted(r)) < RateLimit) \in BOOLEAN
      OBVIOUS
    <2> QED BY <1>1, <1>2, <2>1, ZenonT(40)
  <1>6. seen' = [seen EXCEPT ![r] = Claimed(r, Number(t))]
    BY DEF Enter
  <1>7. /\ up /\ heard[t] # <<>> /\ firing[t] = 0 /\ holds[t] = {} /\ r \in left[t]
        /\ Number(t) \notin seen[r] /\ \A u \in Tasks : r \notin holds[u]
    BY DEF Enter, Free, Idle, Duplicate
  <1>8. UNCHANGED <<up, publishers, bus, listening, watermark, heard, left, firing, rows, aged,
                    skipped, missed, faults>>
    BY DEF Enter, audit
  <1> QED BY <1>3, <1>4, <1>5, <1>6, <1>7, <1>8

LEMMA EnterSafe ==
  ASSUME Safe, FinalStays, NEW t \in Tasks, NEW r \in Recipes, Enter(t, r)
  PROVE  Safe'
  <1>1. /\ heard[t] # <<>> /\ firing[t] = 0 /\ holds[t] = {} /\ \A u \in Tasks : r \notin holds[u]
        /\ seen' = [seen EXCEPT ![r] = Claimed(r, Number(t))]
        /\ holds' \in [Tasks -> SUBSET Recipes] /\ room' \in [Tasks -> BOOLEAN]
        /\ holds'[t] = {r} /\ \A u \in Tasks \ {t} : holds'[u] = holds[u]
        /\ UNCHANGED <<up, publishers, bus, listening, watermark, heard, left, firing, rows, aged,
                       skipped, missed, faults>>
    BY EnterFrame
  <1>2. PICK e \in Events : e = Current(t) /\ stage[e] \in Out /\ Number(t) \in {0, number[e]} /\ Number(t) \in Nat
    BY <1>1, CurrentType
  <1>3. AuditTypes'
    BY <1>1 DEF Safe, Types, AuditTypes
  <1>4. RowsStay
    BY <1>1, RowsUnmoved
  <1>5. Executing'
    BY <1>1, ExecutingStays DEF Safe, Types
  <1>6. Holding'
    BY <1>1 DEF Safe, Holding
  <1>7. TaskTypes /\ seen \in [Recipes -> SUBSET Nat]
    BY DEF Safe, Types, TaskTypes
  <1>8. /\ Claimed(r, Number(t)) \subseteq seen[r] \cup {Number(t)} /\ IsFiniteSet(Claimed(r, Number(t)))
        /\ Cardinality(Claimed(r, Number(t))) <= SeenCap
    BY <1>2, <1>7, ClaimedType
  <1>9. /\ seen' \in [Recipes -> SUBSET Nat]
        /\ \A q \in Recipes : IsFiniteSet(seen'[q]) /\ Cardinality(seen'[q]) <= SeenCap
    <2>1. Claimed(r, Number(t)) \in SUBSET Nat
      BY <1>2, <1>7, <1>8
    <2> HIDE DEF Claimed
    <2> QED BY <1>1, <1>7, <1>8, <2>1 DEF TaskTypes
  <1>10. ClaimedWasHandled'
    <2>1. number' = number /\ skipped' = skipped
      BY <1>1 DEF publishers
    <2>2. Entering(r, e)'
      BY <1>1, <1>2 DEF Entering, Current
    <2>3. \A q \in Recipes : \A f \in Events : Entering(q, f) => Handled(q, f)' \/ Entering(q, f)'
      BY <1>1 DEF Entering, Current
    <2>4. ASSUME NEW q \in Recipes, NEW s \in seen'[q]
          PROVE  s = 0 \/ \E f \in Events : number'[f] = s /\ (Handled(q, f)' \/ Entering(q, f)')
      <3>1. ASSUME s \in seen[q]
            PROVE  s = 0 \/ \E f \in Events : number'[f] = s /\ (Handled(q, f)' \/ Entering(q, f)')
        BY <1>4, <2>3, <3>1, ClaimsStay
      <3>2. CASE q = r
        <4>1. s \in seen[r] \/ s = Number(t)
          BY <1>1, <1>7, <1>8, <2>4, <3>2
        <4> QED BY <1>2, <2>1, <2>2, <3>1, <3>2, <4>1
      <3>3. CASE q # r
        BY <1>1, <1>7, <2>4, <3>1, <3>3
      <3> QED BY <3>2, <3>3
    <2> QED BY <1>4, <2>1, <2>4, ClaimedGrows DEF Safe, Types
  <1> QED BY <1>1, <1>3, <1>5, <1>6, <1>9, <1>10, TaskSafe DEF Safe, Types, TaskTypes

\* A firing writes a row for the event in hand: in execution, or to be turned away.
LEMMA FireEffect ==
  ASSUME Safe, NEW t \in Tasks, NEW r \in Recipes, Fire(t, r)
  PROVE  /\ heard[t] # <<>> /\ firing[t] = 0 /\ r \in holds[t] /\ holds[t] = {r}
         /\ firing' = [firing EXCEPT ![t] = Len(rows')]
         /\ \A u \in Tasks \ {t} : holds'[u] = holds[u]
         /\ UNCHANGED <<up, publishers, bus, listening, watermark, heard, left, room, seen, aged,
                        skipped, missed, faults>>
         /\ \E row \in RowType :
              /\ row.recipe = r /\ row.event = Current(t) /\ row.asked = FALSE /\ row.verdict = "none"
              /\ rows' = Append(rows, row)
              /\ \/ row.status = "turning" /\ holds'[t] = holds[t]
                 \/ row.status = "running" /\ room[t] /\ holds'[t] = {}
  <1>1. /\ r \in holds[t] /\ firing[t] = 0 /\ firing' = [firing EXCEPT ![t] = Len(rows')]
        /\ UNCHANGED <<up, publishers, bus, listening, watermark, heard, left, room, seen, aged,
                       skipped, missed, faults>>
    BY DEF Fire
  <1>2. heard[t] # <<>> /\ holds[t] = {r}
    BY <1>1 DEF Safe, Holding
  <1>3. Current(t) \in Events
    BY <1>2, CurrentType
  <1>4. ASSUME NEW status \in Statuses
        PROVE  /\ Row(r, t, status) \in RowType /\ Row(r, t, status).recipe = r
               /\ Row(r, t, status).event = Current(t) /\ Row(r, t, status).asked = FALSE
               /\ Row(r, t, status).verdict = "none" /\ Row(r, t, status).status = status
    <2>1. Row(r, t, status) = [recipe |-> r, event |-> Current(t), status |-> status, asked |-> FALSE, verdict |-> "none"]
      BY DEF Row
    <2> HIDE DEF Row
    <2> PICK e \in Events : e = Current(t)
      BY <1>3
    <2>2. [recipe |-> r, event |-> e, status |-> status, asked |-> FALSE, verdict |-> "none"] \in RowType
      BY <1>4 DEF RowType, Statuses
    <2> QED BY <2>1, <2>2
  <1>5. holds \in [Tasks -> SUBSET Recipes]
    BY DEF Safe, Types, TaskTypes
  <1>6. CASE ~room[t]
    <2>1. rows' = Append(rows, Row(r, t, "turning")) /\ holds' = holds
      BY <1>6 DEF Fire
    <2>2. "turning" \in Statuses
      BY DEF Statuses
    <2> QED BY <1>1, <1>2, <1>4, <2>1, <2>2
  <1>7. CASE room[t]
    <2>1. rows' = Append(rows, Row(r, t, "running")) /\ holds' = [holds EXCEPT ![t] = {}]
      BY <1>7 DEF Fire
    <2>2. "running" \in Statuses
      BY DEF Statuses
    <2>3. holds'[t] = {} /\ \A u \in Tasks \ {t} : holds'[u] = holds[u]
      BY <1>5, <2>1
    <2> QED BY <1>1, <1>2, <1>4, <1>7, <2>1, <2>2, <2>3
  <1> QED BY <1>6, <1>7

LEMMA FireSafe ==
  ASSUME Safe, FinalStays, NEW t \in Tasks, NEW r \in Recipes, Fire(t, r)
  PROVE  Safe'
  <1>1. /\ heard[t] # <<>> /\ firing[t] = 0 /\ holds[t] = {r}
        /\ firing' = [firing EXCEPT ![t] = Len(rows')]
        /\ \A u \in Tasks \ {t} : holds'[u] = holds[u]
        /\ UNCHANGED <<up, publishers, bus, listening, watermark, heard, left, room, seen, aged,
                       skipped, missed, faults>>
    BY FireEffect
  <1>2. PICK row \in RowType :
          /\ row.recipe = r /\ row.event = Current(t) /\ row.asked = FALSE /\ row.verdict = "none"
          /\ rows' = Append(rows, row)
          /\ \/ row.status = "turning" /\ holds'[t] = holds[t]
             \/ row.status = "running" /\ room[t] /\ holds'[t] = {}
    BY FireEffect
  <1>3. /\ rows' \in Seq(RowType) /\ aged' \in 0..Len(rows') /\ RowsStay /\ Len(rows') \in Nat \ {0}
        /\ Len(rows') \in DOMAIN rows' \ DOMAIN rows /\ rows'[Len(rows')] = row
        /\ DOMAIN rows' = DOMAIN rows \cup {Len(rows')} /\ \A i \in DOMAIN rows : rows'[i] = rows[i]
    <2>1. AuditTypes /\ Len(rows) \in Nat
      BY DEF Safe, Types, AuditTypes
    <2> QED BY <1>1, <1>2, <2>1, RowAdded
  <1>4. PICK e \in Events : e = Current(t) /\ stage[e] \in Out
    BY <1>1, CurrentType
  <1>5. AuditTypes'
    BY <1>1, <1>3 DEF Safe, Types, AuditTypes
  <1>6. /\ firing' \in [Tasks -> Nat] /\ firing'[t] = Len(rows')
        /\ \A u \in Tasks \ {t} : firing'[u] = firing[u]
        /\ holds' \in [Tasks -> SUBSET Recipes]
    <2>1. firing' \in [Tasks -> Nat] /\ firing'[t] = Len(rows') /\ \A u \in Tasks \ {t} : firing'[u] = firing[u]
      BY <1>1, <1>3 DEF Safe, Types, TaskTypes
    <2>2. holds' \in [Tasks -> SUBSET Recipes]
      BY DEF Fire, Safe, Types, TaskTypes
    <2> QED BY <2>1, <2>2
  <1>7. RowsInOrder'
    <2>1. ASSUME NEW i \in DOMAIN rows'
          PROVE  /\ stage'[rows'[i].event] \in Out
                 /\ rows'[i].status = "awaiting_approval" => rows'[i].asked
                 /\ rows'[i].status \in {"approved", "denied"} => rows'[i].verdict # "none"
                 /\ rows'[i].status = "turning" => ~rows'[i].asked
      <3>1. stage' = stage
        BY <1>1 DEF publishers
      <3>2. CASE i = Len(rows')
        BY <1>2, <1>3, <1>4, <3>1, <3>2
      <3>3. CASE i \in DOMAIN rows
        BY <1>3, <3>1, <3>3 DEF Safe, Executing, RowsInOrder
      <3> QED BY <1>3, <3>2, <3>3
    <2> QED BY <2>1 DEF RowsInOrder
  <1>8. StillAt
    <2>1. ASSUME NEW u \in Tasks, firing'[u] # 0, firing'[u] = firing[u]
          PROVE  /\ rows'[firing[u]].asked \/ rows'[firing[u]].status \in {"running", "turning"}
                 /\ holds'[u] # {} => rows'[firing[u]].status = "turning"
      <3>1. u # t /\ firing[u] \in DOMAIN rows /\ rows'[firing[u]] = rows[firing[u]]
        BY <1>1, <1>3, <2>1 DEF Safe, Executing
      <3> QED BY <1>1, <2>1, <3>1, HolderTurns DEF Safe, Executing
    <2> QED BY <2>1 DEF StillAt
  <1>9. Executing'
    <2>1. /\ firing'[t] \in DOMAIN rows' \ DOMAIN rows /\ heard'[t] = heard[t]
          /\ rows'[firing'[t]].event = Current(t) /\ rows'[firing'[t]].status \in {"running", "turning"}
      BY <1>1, <1>2, <1>3, <1>6
    <2> QED BY <1>1, <1>3, <1>6, <1>7, <1>8, <2>1, ExecutingStep
  <1>10. Holding'
    <2>1. ASSUME NEW u \in Tasks, NEW q \in holds'[u]
          PROVE  /\ q \in holds[u] /\ heard'[u] # <<>> /\ holds'[u] = {q}
                 /\ firing'[u] # 0 => rows'[firing'[u]].status = "turning"
      <3>1. CASE u = t
        BY <1>1, <1>2, <1>3, <1>6, <2>1, <3>1
      <3>2. CASE u # t
        <4>1. q \in holds[u] /\ heard'[u] # <<>> /\ holds'[u] = {q} /\ firing'[u] = firing[u]
          BY <1>1, <1>6, <2>1, <3>2 DEF Safe, Holding
        <4> QED BY <1>8, <2>1, <4>1 DEF StillAt
      <3> QED BY <3>1, <3>2
    <2> QED BY <2>1 DEF Safe, Holding
  <1>11. ClaimedWasHandled'
    <2>1. number' = number /\ skipped' = skipped
      BY <1>1 DEF publishers
    <2>2. Handled(r, e)'
      BY <1>2, <1>3, <1>4 DEF Handled
    <2>3. ASSUME NEW q \in Recipes, NEW f \in Events, Entering(q, f)
          PROVE  Handled(q, f)' \/ Entering(q, f)'
      <3>1. PICK u \in Tasks : q \in holds[u] /\ firing[u] = 0 /\ f = Current(u)
        BY <2>3 DEF Entering
      <3>2. CASE u = t
        BY <1>1, <1>4, <2>2, <3>1, <3>2
      <3>3. CASE u # t
        BY <1>1, <1>6, <3>1, <3>3 DEF Entering, Current
      <3> QED BY <3>2, <3>3
    <2>4. \A q \in Recipes : \A s \in seen'[q] :
            s = 0 \/ \E f \in Events : number'[f] = s /\ (Handled(q, f)' \/ Entering(q, f)')
      BY <1>1, <1>3, <2>3, ClaimsStay
    <2> QED BY <1>3, <2>1, <2>4, ClaimedGrows DEF Safe, Types
  <1> QED BY <1>1, <1>5, <1>6, <1>9, <1>10, <1>11, TaskSafe DEF Safe, Types, TaskTypes

\* One row changes as it may: it keeps asking, is decided by its verdict only, and what
\* a task still executes is asked about or running, with no lock over it.
RowMoves(j, status, asked, verdict) ==
    /\ status \in Statuses /\ asked \in BOOLEAN /\ verdict \in Verdicts
    /\ rows' = [rows EXCEPT ![j] = [recipe |-> rows[j].recipe, event |-> rows[j].event, asked |-> asked,
                                    status |-> status, verdict |-> verdict]]
    /\ aged' = aged
    /\ status = "awaiting_approval" => asked
    /\ status \in {"approved", "denied"} => verdict # "none"
    /\ status = "turning" => ~asked
    /\ \A t \in Tasks : firing'[t] = j => (asked \/ status = "running") /\ holds'[t] = {}

LEMMA MoveEffect ==
  ASSUME Safe, FinalStays, NEW j \in DOMAIN rows, NEW status, NEW asked, NEW verdict,
         RowMoves(j, status, asked, verdict),
         \A u \in Tasks : holds'[u] = {} \/ holds'[u] = holds[u]
  PROVE  /\ rows' \in Seq(RowType) /\ aged' \in 0..Len(rows') /\ RowsStay
         /\ StillAt /\ RowsInOrder'
  <1>1. AuditTypes
    BY DEF Safe, Types
  <1>2. /\ rows' \in Seq(RowType) /\ aged' \in 0..Len(rows') /\ RowsStay
        /\ DOMAIN rows' = DOMAIN rows
        /\ rows'[j].status = status /\ rows'[j].asked = asked /\ rows'[j].verdict = verdict
        /\ \A i \in DOMAIN rows \ {j} : rows'[i] = rows[i]
    BY <1>1, RowChanged DEF RowMoves
  <1>3. ASSUME NEW u \in Tasks, firing'[u] # 0, firing'[u] = firing[u]
        PROVE  /\ rows'[firing[u]].asked \/ rows'[firing[u]].status \in {"running", "turning"}
               /\ holds'[u] # {} => rows'[firing[u]].status = "turning"
    <2>1. firing[u] \in DOMAIN rows /\ (rows[firing[u]].asked \/ rows[firing[u]].status \in {"running", "turning"})
      BY <1>3 DEF Safe, Executing
    <2>2. CASE firing[u] = j
      BY <1>2, <1>3, <2>2 DEF RowMoves
    <2>3. CASE firing[u] # j
      <3>1. rows'[firing[u]] = rows[firing[u]]
        BY <1>2, <2>1, <2>3
      <3>2. holds[u] # {} => rows[firing[u]].status = "turning"
        BY <1>3, HolderTurns DEF Safe
      <3> QED BY <2>1, <3>1, <3>2
    <2> QED BY <2>2, <2>3
  <1>4. ASSUME NEW i \in DOMAIN rows'
        PROVE  /\ stage'[rows'[i].event] \in Out
               /\ rows'[i].status = "awaiting_approval" => rows'[i].asked
               /\ rows'[i].status \in {"approved", "denied"} => rows'[i].verdict # "none"
               /\ rows'[i].status = "turning" => ~rows'[i].asked
    <2>1. i \in DOMAIN rows /\ rows[i].event \in Events /\ stage[rows[i].event] \in Out
      BY <1>1, <1>2, RowIn DEF Safe, Executing, RowsInOrder
    <2>2. rows'[i].event = rows[i].event /\ stage'[rows[i].event] \in Out
      BY <1>2, <2>1 DEF RowsStay, FinalStays
    <2>3. CASE i = j
      BY <1>2, <2>2, <2>3 DEF RowMoves
    <2>4. CASE i # j
      BY <1>2, <2>1, <2>2, <2>4 DEF Safe, Executing, RowsInOrder
    <2> QED BY <2>3, <2>4
  <1> QED BY <1>2, <1>3, <1>4 DEF StillAt, RowsInOrder

\* A row changes under tasks that go on with what they do.
LEMMA MoveSafe ==
  ASSUME Safe, FinalStays, NEW j \in DOMAIN rows, NEW status, NEW asked, NEW verdict,
         RowMoves(j, status, asked, verdict),
         UNCHANGED <<up, publishers, bus, tasks, seen, skipped, missed, faults>>
  PROVE  Safe'
  <1>1. UNCHANGED <<listening, watermark, heard, left, firing, holds, room>>
    BY DEF tasks, locks
  <1>2. /\ rows' \in Seq(RowType) /\ aged' \in 0..Len(rows') /\ RowsStay
        /\ StillAt /\ RowsInOrder'
    BY <1>1, MoveEffect
  <1>3. AuditTypes'
    BY <1>2 DEF Safe, Types, AuditTypes
  <1>4. /\ heard \in [Tasks -> Seq(Occurrence)] /\ left \in [Tasks -> SUBSET Recipes]
        /\ firing \in [Tasks -> Nat] /\ seen \in [Recipes -> SUBSET Nat]
        /\ \A r \in Recipes : IsFiniteSet(seen[r]) /\ Cardinality(seen[r]) <= SeenCap
        /\ holds \in [Tasks -> SUBSET Recipes] /\ room \in [Tasks -> BOOLEAN]
    BY DEF Safe, Types, TaskTypes
  <1>5. "bus" \in Tasks
    BY DEF Tasks
  <1>6. Executing'
    BY <1>1, <1>2, <1>4, <1>5, ExecutingStep
  <1>7. HoldersWait
    BY <1>1 DEF HoldersWait
  <1>8. Holding'
    <2>1. \A t \in Tasks : holds'[t] # {} /\ firing'[t] # 0 => rows'[firing'[t]].status = "turning"
      BY <1>1, <1>2 DEF StillAt
    <2> QED BY <1>7, <2>1, HoldingStays DEF Safe
  <1>9. ClaimedWasHandled'
    BY <1>2, <1>7, ClaimedStays DEF Safe, Types
  <1> QED BY <1>1, <1>3, <1>4, <1>5, <1>6, <1>8, <1>9, TaskSafe

\* A task that has a row in execution comes to its end, with the lock if it holds one.
LEMMA EndSafe ==
  ASSUME Safe, FinalStays, NEW t \in Tasks, firing[t] # 0, AuditTypes', RowsStay,
         firing' = [firing EXCEPT ![t] = 0], Done(t, left[t] \ {rows[firing[t]].recipe}),
         holds' = [holds EXCEPT ![t] = {}],
         UNCHANGED <<up, publishers, bus, listening, watermark, room, seen, skipped>>,
         StillAt, RowsInOrder'
  PROVE  Safe'
  <1>1. TaskTypes /\ heard[t] # <<>>
    BY DEF Safe, Types, Executing
  <1>2. left[t] \ {rows[firing[t]].recipe} \in SUBSET Recipes
    BY <1>1 DEF TaskTypes
  <1>3. /\ left' \in [Tasks -> SUBSET Recipes] /\ heard' \in [Tasks -> Seq(Occurrence)]
        /\ \A u \in Tasks \ {t} : heard'[u] = heard[u]
        /\ heard'[t] = heard[t] \/ heard'[t] = Tail(heard[t])
    BY <1>1, <1>2, DoneEffect
  <1>4. /\ firing' \in [Tasks -> Nat] /\ firing'[t] = 0 /\ \A u \in Tasks \ {t} : firing'[u] = firing[u]
        /\ holds' \in [Tasks -> SUBSET Recipes] /\ holds'[t] = {} /\ \A u \in Tasks \ {t} : holds'[u] = holds[u]
        /\ room' \in [Tasks -> BOOLEAN]
    BY <1>1 DEF TaskTypes
  <1>5. Executing'
    BY <1>3, <1>4, ExecutingStep
  <1>6. HoldersWait
    BY <1>3, <1>4 DEF HoldersWait
  <1>7. Holding'
    <2>1. \A u \in Tasks : holds'[u] # {} /\ firing'[u] # 0 => rows'[firing'[u]].status = "turning"
      BY <1>4 DEF StillAt
    <2> QED BY <1>6, <2>1, HoldingStays DEF Safe
  <1>8. ClaimedWasHandled'
    BY <1>6, ClaimedStays DEF Safe, Types
  <1>9. seen' \in [Recipes -> SUBSET Nat] /\ \A r \in Recipes : IsFiniteSet(seen'[r]) /\ Cardinality(seen'[r]) <= SeenCap
    BY <1>1 DEF TaskTypes
  <1> QED BY <1>1, <1>3, <1>4, <1>5, <1>7, <1>8, <1>9, TaskSafe

\* A row that gets another status, at the end of the task that was at it.
LEMMA EndMoves ==
  ASSUME Safe, NEW t \in Tasks, firing[t] # 0, NEW status \in {"done", "rate_limited"},
         rows' = [rows EXCEPT ![firing[t]].status = status], firing' = [firing EXCEPT ![t] = 0], aged' = aged
  PROVE  /\ firing[t] \in DOMAIN rows
         /\ RowMoves(firing[t], status, rows[firing[t]].asked, rows[firing[t]].verdict)
  <1>1. firing \in [Tasks -> Nat] /\ firing[t] \in DOMAIN rows /\ rows[firing[t]] \in RowType
    BY RowIn DEF Safe, Types, TaskTypes, Executing
  <1>2. PICK j \in DOMAIN rows : j = firing[t]
    BY <1>1
  <1>3. rows' = [rows EXCEPT ![j].status = status]
    BY <1>2
  <1>4. rows' = [rows EXCEPT ![j] = [rows[j] EXCEPT !.status = status]]
    BY <1>3, AuditFields DEF Safe, Types
  <1>5. /\ rows[j].asked \in BOOLEAN /\ rows[j].verdict \in Verdicts
        /\ [rows[j] EXCEPT !.status = status] =
             [recipe |-> rows[j].recipe, event |-> rows[j].event, asked |-> rows[j].asked,
              status |-> status, verdict |-> rows[j].verdict]
    BY <1>1, <1>2, RowFields
  <1>6. \A u \in Tasks : firing'[u] # j
    <2>1. \A u \in Tasks \ {t} : firing'[u] = firing[u] /\ firing[u] # firing[t]
      BY <1>1 DEF Safe, Executing
    <2>2. firing'[t] = 0
      BY <1>1
    <2> QED BY <1>1, <1>2, <2>1, <2>2
  <1>7. RowMoves(j, status, rows[j].asked, rows[j].verdict)
    <2>1. rows' = [rows EXCEPT ![j] = [recipe |-> rows[j].recipe, event |-> rows[j].event, asked |-> rows[j].asked,
                                       status |-> status, verdict |-> rows[j].verdict]]
      BY <1>4, <1>5
    <2> QED BY <1>5, <1>6, <2>1 DEF RowMoves, Statuses
  <1> QED BY <1>1, <1>2, <1>7

\* Each change of a row is such a move.
LEMMA FinishMoves ==
  ASSUME Safe, NEW t \in Tasks, Finish(t)
  PROVE  /\ firing[t] \in DOMAIN rows /\ rows[firing[t]].status = "running" /\ holds[t] = {}
         /\ RowMoves(firing[t], "done", rows[firing[t]].asked, rows[firing[t]].verdict)
  <1>1. /\ firing[t] # 0 /\ rows[firing[t]].status = "running" /\ aged' = aged
        /\ rows' = [rows EXCEPT ![firing[t]].status = "done"] /\ firing' = [firing EXCEPT ![t] = 0]
    BY DEF Finish
  <1>2. holds[t] = {}
    BY <1>1, HolderTurns DEF Safe
  <1> QED BY <1>1, <1>2, EndMoves

LEMMA TurnAwayMoves ==
  ASSUME Safe, NEW t \in Tasks, TurnAway(t)
  PROVE  /\ firing[t] \in DOMAIN rows /\ rows[firing[t]].status = "turning"
         /\ RowMoves(firing[t], "rate_limited", rows[firing[t]].asked, rows[firing[t]].verdict)
  <1>1. /\ firing[t] # 0 /\ rows[firing[t]].status = "turning" /\ aged' = aged
        /\ rows' = [rows EXCEPT ![firing[t]].status = "rate_limited"] /\ firing' = [firing EXCEPT ![t] = 0]
    BY DEF TurnAway
  <1> QED BY <1>1, EndMoves

LEMMA ParkMoves ==
  ASSUME Safe, NEW t \in Tasks, Park(t)
  PROVE  /\ firing[t] \in DOMAIN rows /\ rows[firing[t]].status = "running"
         /\ RowMoves(firing[t], "awaiting_approval", TRUE, rows[firing[t]].verdict)
  <1>1. /\ firing[t] # 0 /\ firing[t] \in DOMAIN rows /\ rows[firing[t]] \in RowType
        /\ rows[firing[t]].status = "running"
    BY RowIn DEF Park, Safe, Types, Executing
  <1>2. rows' = [rows EXCEPT ![firing[t]].asked = TRUE, ![firing[t]].status = "awaiting_approval"]
    BY DEF Park
  <1>3. rows' = [rows EXCEPT ![firing[t]] = [rows[firing[t]] EXCEPT !.asked = TRUE, !.status = "awaiting_approval"]]
    BY <1>1, <1>2, AuditFields DEF Safe, Types
  <1>4. /\ rows[firing[t]].verdict \in Verdicts
        /\ [rows[firing[t]] EXCEPT !.asked = TRUE, !.status = "awaiting_approval"] =
             [recipe |-> rows[firing[t]].recipe, event |-> rows[firing[t]].event, asked |-> TRUE,
              status |-> "awaiting_approval", verdict |-> rows[firing[t]].verdict]
    BY <1>1, RowFields, ZenonT(40)
  <1>5. rows' = [rows EXCEPT ![firing[t]] =
                  [recipe |-> rows[firing[t]].recipe, event |-> rows[firing[t]].event, asked |-> TRUE,
                   status |-> "awaiting_approval", verdict |-> rows[firing[t]].verdict]]
    BY <1>3, <1>4
  <1>6. aged' = aged /\ UNCHANGED <<firing, holds>>
    BY DEF Park, tasks, locks
  <1>7. \A u \in Tasks : firing'[u] = firing[t] => holds'[u] = {}
    <2>1. \A u \in Tasks : firing[u] = firing[t] => holds[u] = {}
      BY <1>1, HolderTurns DEF Safe
    <2> QED BY <1>6, <2>1
  <1>8. "awaiting_approval" \in Statuses
    BY DEF Statuses
  <1> QED BY <1>1, <1>4, <1>5, <1>6, <1>7, <1>8 DEF RowMoves

\* Who is at a row that was asked about holds no lock.
LEMMA AskedFree ==
  ASSUME Safe, NEW i \in DOMAIN rows, rows[i].asked
  PROVE  rows[i].status # "turning" /\ \A u \in Tasks : firing[u] = i => holds[u] = {}
  <1>1. rows[i].status # "turning"
    BY DEF Safe, Executing, RowsInOrder
  <1>2. i # 0
    BY DEF Safe, Types, AuditTypes
  <1> QED BY <1>1, <1>2, HolderTurns DEF Safe

LEMMA DecideMoves ==
  ASSUME Safe, NEW i \in DOMAIN rows, NEW verdict \in {"approved", "denied"}, Decide(i, verdict)
  PROVE  rows[i].verdict = "none" /\ RowMoves(i, rows[i].status, TRUE, verdict)
  <1>1. /\ rows[i] \in RowType /\ rows[i].asked /\ rows[i].verdict = "none" /\ aged' = aged
        /\ rows' = [rows EXCEPT ![i].verdict = verdict] /\ UNCHANGED <<firing, holds>>
    BY RowIn DEF Decide, Safe, Types, tasks, locks
  <1>2. rows' = [rows EXCEPT ![i] = [rows[i] EXCEPT !.verdict = verdict]]
    BY <1>1, AuditFields DEF Safe, Types
  <1>3. /\ rows[i].status \in Statuses /\ rows[i].asked = TRUE
        /\ [rows[i] EXCEPT !.verdict = verdict] =
             [recipe |-> rows[i].recipe, event |-> rows[i].event, asked |-> rows[i].asked,
              status |-> rows[i].status, verdict |-> verdict]
    BY <1>1, RowFields
  <1>4. rows' = [rows EXCEPT ![i] = [recipe |-> rows[i].recipe, event |-> rows[i].event, asked |-> TRUE,
                                     status |-> rows[i].status, verdict |-> verdict]]
    BY <1>2, <1>3
  <1>5. rows[i].status # "turning" /\ \A u \in Tasks : firing'[u] = i => holds'[u] = {}
    BY <1>1, AskedFree
  <1> QED BY <1>1, <1>3, <1>4, <1>5 DEF RowMoves, Verdicts

LEMMA ResumeMoves ==
  ASSUME Safe, NEW i \in DOMAIN rows, Resume(i)
  PROVE  /\ rows[i].status = "awaiting_approval"
         /\ RowMoves(i, rows[i].verdict, TRUE, rows[i].verdict)
  <1>1. /\ rows[i] \in RowType /\ rows[i].asked /\ rows[i].verdict # "none" /\ aged' = aged
        /\ rows[i].status = "awaiting_approval"
        /\ rows' = [rows EXCEPT ![i].status = rows[i].verdict] /\ UNCHANGED <<firing, holds>>
    BY RowIn DEF Resume, Safe, Types, Executing, RowsInOrder, tasks, locks
  <1>2. rows' = [rows EXCEPT ![i] = [rows[i] EXCEPT !.status = rows[i].verdict]]
    BY <1>1, AuditFields DEF Safe, Types
  <1>3. /\ rows[i].verdict \in Statuses /\ rows[i].verdict \in Verdicts /\ rows[i].asked = TRUE
        /\ rows[i].verdict # "turning"
        /\ [rows[i] EXCEPT !.status = rows[i].verdict] =
             [recipe |-> rows[i].recipe, event |-> rows[i].event, asked |-> rows[i].asked,
              status |-> rows[i].verdict, verdict |-> rows[i].verdict]
    BY <1>1, RowFields DEF Statuses, Verdicts
  <1>4. rows' = [rows EXCEPT ![i] = [recipe |-> rows[i].recipe, event |-> rows[i].event, asked |-> TRUE,
                                     status |-> rows[i].verdict, verdict |-> rows[i].verdict]]
    BY <1>2, <1>3
  <1>5. \A u \in Tasks : firing'[u] = i => holds'[u] = {}
    BY <1>1, AskedFree
  <1> QED BY <1>1, <1>3, <1>4, <1>5 DEF RowMoves

LEMMA FinishSafe ==
  ASSUME Safe, FinalStays, NEW t \in Tasks, Finish(t)
  PROVE  Safe'
  <1>1. /\ firing[t] \in DOMAIN rows /\ holds[t] = {}
        /\ RowMoves(firing[t], "done", rows[firing[t]].asked, rows[firing[t]].verdict)
    BY FinishMoves
  <1>2. /\ firing[t] # 0 /\ firing' = [firing EXCEPT ![t] = 0] /\ Done(t, left[t] \ {rows[firing[t]].recipe})
        /\ UNCHANGED <<up, publishers, bus, listening, watermark, holds, room, seen, aged, skipped, missed, faults>>
    BY DEF Finish, locks
  <1>3. rows' \in Seq(RowType) /\ aged' \in 0..Len(rows') /\ RowsStay /\ StillAt /\ RowsInOrder'
    BY <1>1, <1>2, MoveEffect
  <1>4. AuditTypes'
    BY <1>2, <1>3 DEF Safe, Types, AuditTypes
  <1>5. holds' = [holds EXCEPT ![t] = {}]
    BY <1>1, <1>2 DEF Safe, Types, TaskTypes
  <1> QED BY <1>2, <1>3, <1>4, <1>5, EndSafe

LEMMA TurnAwaySafe ==
  ASSUME Safe, FinalStays, NEW t \in Tasks, TurnAway(t)
  PROVE  Safe'
  <1>1. /\ firing[t] \in DOMAIN rows
        /\ RowMoves(firing[t], "rate_limited", rows[firing[t]].asked, rows[firing[t]].verdict)
    BY TurnAwayMoves
  <1>2. /\ firing[t] # 0 /\ firing' = [firing EXCEPT ![t] = 0] /\ Done(t, left[t] \ {rows[firing[t]].recipe})
        /\ holds' = [holds EXCEPT ![t] = {}]
        /\ UNCHANGED <<up, publishers, bus, listening, watermark, room, seen, aged, skipped, missed, faults>>
    BY DEF TurnAway
  <1>3. \A u \in Tasks : holds'[u] = {} \/ holds'[u] = holds[u]
    BY <1>2 DEF Safe, Types, TaskTypes
  <1>4. rows' \in Seq(RowType) /\ aged' \in 0..Len(rows') /\ RowsStay /\ StillAt /\ RowsInOrder'
    BY <1>1, <1>3, MoveEffect
  <1>5. AuditTypes'
    BY <1>2, <1>4 DEF Safe, Types, AuditTypes
  <1> QED BY <1>2, <1>4, <1>5, EndSafe

LEMMA ParkSafe ==
  ASSUME Safe, FinalStays, NEW t \in Tasks, Park(t)
  PROVE  Safe'
  BY ParkMoves, MoveSafe DEF Park

LEMMA UnparkSafe ==
  ASSUME Safe, FinalStays, NEW t \in Tasks, Unpark(t)
  PROVE  Safe'
  <1>1. /\ firing[t] # 0 /\ rows[firing[t]].asked
        /\ firing' = [firing EXCEPT ![t] = 0] /\ Done(t, left[t] \ {rows[firing[t]].recipe})
        /\ UNCHANGED <<up, publishers, bus, listening, watermark, holds, room, seen, audit, skipped, missed, faults>>
    BY DEF Unpark, locks
  <1>2. AuditTypes' /\ RowsStay /\ UNCHANGED rows
    BY <1>1, AuditStays DEF Safe, Types
  <1>3. RowsInOrder' /\ StillAt
    BY <1>1, <1>2, RowsUnmoved, StillUnmoved
  <1>4. holds[t] = {}
    <2>1. firing[t] \in DOMAIN rows
      BY <1>1 DEF Safe, Executing
    <2> QED BY <1>1, <2>1, AskedFree
  <1>5. holds' = [holds EXCEPT ![t] = {}]
    BY <1>1, <1>4 DEF Safe, Types, TaskTypes
  <1> QED BY <1>1, <1>2, <1>3, <1>5, EndSafe

LEMMA MissSafe ==
  ASSUME Safe, FinalStays, NEW t \in Tasks, Miss(t)
  PROVE  Safe'
  <1>1. /\ heard[t] # <<>> /\ firing[t] = 0 /\ holds[t] = {} /\ faults < MaxFaults /\ faults' = faults + 1
        /\ missed' = missed \cup {Current(t)} /\ heard' = [heard EXCEPT ![t] = Tail(heard[t])]
        /\ UNCHANGED <<up, publishers, bus, listening, watermark, left, firing, holds, room, seen, rows, aged, skipped>>
    BY DEF Miss, Idle, locks, audit
  <1>2. Current(t) \in Events /\ heard[t] \in Seq(Occurrence)
    BY <1>1, CurrentType
  <1>3. AuditTypes'
    <2>1. faults' \in 0..MaxFaults
      BY <1>1, RecipesAssumption DEF Safe, Types, AuditTypes
    <2> QED BY <1>1, <1>2, <2>1 DEF Safe, Types, AuditTypes
  <1>4. heard' \in [Tasks -> Seq(Occurrence)] /\ heard'[t] = Tail(heard[t]) /\ \A u \in Tasks \ {t} : heard'[u] = heard[u]
    <2>1. Tail(heard[t]) \in Seq(Occurrence)
      BY <1>1, <1>2
    <2> QED BY <1>1, <2>1 DEF Safe, Types, TaskTypes
  <1>5. RowsStay /\ RowsInOrder' /\ StillAt
    BY <1>1, RowsUnmoved, StillUnmoved
  <1>6. Executing'
    <2>1. firing' \in [Tasks -> Nat]
      BY <1>1 DEF Safe, Types, TaskTypes
    <2> QED BY <1>1, <1>4, <1>5, <2>1, ExecutingStep
  <1>7. HoldersWait
    BY <1>1, <1>4 DEF HoldersWait
  <1>8. Holding'
    BY <1>1, <1>4 DEF Safe, Holding
  <1>9. ClaimedWasHandled'
    BY <1>1, <1>5, <1>7, ClaimedStays DEF Safe, Types
  <1> QED BY <1>1, <1>3, <1>4, <1>6, <1>8, <1>9, TaskSafe DEF Safe, Types, TaskTypes

LEMMA AgeSafe ==
  ASSUME Safe, FinalStays, Age
  PROVE  Safe'
  <1>1. UNCHANGED <<up, publishers, bus, listening, watermark, heard, left, firing, holds, room, seen, rows,
                    skipped, missed, faults>>
    BY DEF Age, tasks, locks
  <1>2. AuditTypes' /\ RowsStay
    <2>1. aged' \in 0..Len(rows)
      BY DEF Age, Safe, Types, AuditTypes
    <2> QED BY <1>1, <2>1 DEF Safe, Types, AuditTypes, RowsStay
  <1>3. "bus" \in Tasks
    BY DEF Tasks
  <1>4. Executing'
    BY <1>1, ExecutingStays DEF Safe, Types
  <1>5. HoldersWait
    BY <1>1 DEF HoldersWait
  <1>6. Holding'
    BY <1>1 DEF Safe, Holding
  <1>7. ClaimedWasHandled'
    BY <1>1, <1>2, <1>5, ClaimedStays DEF Safe, Types
  <1> QED BY <1>1, <1>2, <1>3, <1>4, <1>6, <1>7, TaskSafe DEF Safe, Types, TaskTypes

LEMMA CrashSafe ==
  ASSUME Safe, FinalStays, Crash
  PROVE  Safe'
  <1>1. /\ up' = FALSE /\ bus' = <<>> /\ listening' = {} /\ watermark' = -1
        /\ heard' = [t \in Tasks |-> <<>>] /\ left' = [t \in Tasks |-> {}] /\ firing' = [t \in Tasks |-> 0]
        /\ holds' = [t \in Tasks |-> {}] /\ room' = [t \in Tasks |-> FALSE]
        /\ seen' = [r \in Recipes |-> {}] /\ faults < MaxFaults /\ faults' = faults + 1
        /\ UNCHANGED <<counter, number, tries, ledger, rows, aged, skipped, missed>>
    BY DEF Crash, audit
  <1>2. PublisherTypes'
    <2>1. stage' = [e \in Events |-> IF e \in DesktopEvents /\ stage[e] \in {"reserved", "persisted"}
                                     THEN "lost" ELSE stage[e]]
      BY DEF Crash
    <2>2. \A e \in Events : stage'[e] = stage[e] \/ (e \in DesktopEvents /\ stage[e] # "new" /\ stage'[e] = "lost")
      BY <2>1
    <2>3. \A e \in CliEvents : e \in Events /\ e \notin DesktopEvents
      BY RecipesAssumption DEF Events
    <2>4. stage' \in [Events -> Stages]
      BY <2>1, <2>2 DEF Safe, Types, PublisherTypes, Stages
    <2>5. \A e \in DesktopEvents : stage'[e] \in {"new", "reserved", "persisted", "sent", "lost"}
      BY <2>2 DEF Safe, Types, PublisherTypes, Events
    <2>6. \A e \in CliEvents : stage'[e] \in {"new", "numbered", "inserted", "sent"}
      BY <2>2, <2>3 DEF Safe, Types, PublisherTypes
    <2>7. \A e \in Events : stage'[e] # "new" => number[e] # 0
      BY <2>2 DEF Safe, Types, PublisherTypes
    <2> QED BY <1>1, <2>4, <2>5, <2>6, <2>7 DEF Safe, Types, PublisherTypes
  <1>3. LedgerTypes'
    BY <1>1, LedgerStays DEF Safe, Types
  <1>4. BusTypes'
    <2>1. bus' \in Seq(DesktopEvents) /\ Len(bus') = 0 /\ DOMAIN bus' = {} /\ Capacity \in Nat
      BY <1>1, RecipesAssumption
    <2> QED BY <2>1 DEF BusTypes
  <1>5. TaskTypes'
    BY <1>1, FS_EmptySet, RecipesAssumption DEF TaskTypes
  <1>6. AuditTypes'
    <2>1. faults' \in 0..MaxFaults
      BY <1>1, RecipesAssumption DEF Safe, Types, AuditTypes
    <2> QED BY <1>1, <2>1 DEF Safe, Types, AuditTypes
  <1>7. InHand' /\ Holding'
    BY <1>1 DEF InHand, Holding
  <1>8. RowsStay /\ RowsInOrder'
    BY <1>1, RowsUnmoved
  <1>9. Executing'
    <2>1. \A t \in Tasks : firing'[t] = 0
      BY <1>1
    <2> QED BY <1>8, <2>1 DEF Executing
  <1>10. ClaimedWasHandled'
    <2>1. \A r \in Recipes : seen'[r] = {}
      BY <1>1
    <2> QED BY <1>1, <1>8, <2>1, ClaimedGrows DEF Safe, Types
  <1> QED BY <1>2, <1>3, <1>4, <1>5, <1>6, <1>7, <1>9, <1>10 DEF Safe, Types

LEMMA BootSafe ==
  ASSUME Safe, FinalStays, Boot
  PROVE  Safe'
  <1>1. /\ up' = TRUE /\ counter' = MaxSeq + 1
        /\ UNCHANGED <<stage, number, tries, ledger, bus, tasks, seen, audit, skipped, missed, faults>>
    BY DEF Boot
  <1>2. MaxSeq + 1 \in Nat \ {0}
    BY MaxSeqType DEF Safe, Types
  <1>3. PublisherTypes'
    BY <1>1, <1>2 DEF Safe, Types, PublisherTypes
  <1>4. LedgerTypes' /\ BusTypes'
    BY <1>1, LedgerStays, BusStays DEF Safe, Types
  <1> QED BY <1>1, <1>3, <1>4, EngineStays DEF Safe, Types
-----------------------------------------------------------------------------
(* Types, duplicates, decisions and the limit *)

LEMMA SafeStep == Safe /\ [Next]_vars => Safe'
  <1> SUFFICES ASSUME Safe, [Next]_vars PROVE Safe'
    OBVIOUS
  <1>0. FinalStays
    BY NumbersStay DEF Safe, Types
  <1>1. ASSUME NEW e \in Events, Reserve(e) \/ Persist(e) \/ Send(e) \/ ReadMax(e) \/ Insert(e) \/ Rewrite(e)
        PROVE  Safe'
    BY <1>0, <1>1, ReserveSafe, PersistSafe, SendSafe, ReadMaxSafe, InsertSafe, RewriteSafe
  <1>2. CASE Subscribe \/ Bootstrap \/ Receive \/ Poll
    BY <1>0, <1>2, ListenSafe, ReceiveSafe, PollSafe
  <1>3. ASSUME NEW t \in Tasks, Engine(t) \/ Miss(t)
        PROVE  Safe'
    BY <1>0, <1>3, TurnAwaySafe, FinishSafe, ParkSafe, UnparkSafe, SkipSafe, EnterSafe, FireSafe, MissSafe DEF Engine
  <1>4. ASSUME NEW i \in DOMAIN rows, Resume(i)
        PROVE  Safe'
    BY <1>0, <1>4, ResumeMoves, MoveSafe DEF Resume
  <1>5. ASSUME NEW i \in DOMAIN rows, NEW verdict \in {"approved", "denied"}, Decide(i, verdict)
        PROVE  Safe'
    BY <1>0, <1>5, DecideMoves, MoveSafe DEF Decide
  <1>6. CASE Age \/ Crash \/ Boot
    BY <1>0, <1>6, AgeSafe, CrashSafe, BootSafe
  <1>7. CASE UNCHANGED vars
    <2>1. UNCHANGED <<up, publishers, bus, tasks, seen, audit, skipped, missed, faults>>
      BY <1>7 DEF vars
    <2>2. PublisherTypes' /\ LedgerTypes' /\ BusTypes'
      BY <1>0, <2>1, PublishersStay, BusStays DEF Safe, Types, PublisherTypes
    <2> QED BY <1>0, <2>1, <2>2, EngineStays DEF Safe, Types
  <1> QED BY <1>1, <1>2, <1>3, <1>4, <1>5, <1>6, <1>7 DEF Next

LEMMA SafeAlways == Spec => []Safe
  BY SafeInit, SafeStep, PTL DEF Spec

\* The variables keep their types, and a task is at the row it wrote for the event in its
\* hand, which is running, to be turned away, or was parked.
THEOREM TypeCorrect == Spec => []TypeOK
  <1>1. Safe => TypeOK
    <2> SUFFICES ASSUME Safe PROVE TypeOK
      OBVIOUS
    <2>1. /\ up \in BOOLEAN /\ counter \in Nat \ {0} /\ stage \in [Events -> Stages]
          /\ number \in [Events -> Nat] /\ tries \in [Events -> 0..3]
      BY DEF Safe, Types, PublisherTypes
    <2>2. \A s \in DOMAIN ledger : number[ledger[s].event] = s /\ ledger[s].says \in {0, s}
      BY DEF Safe, Types, LedgerTypes
    <2>3. Len(bus) <= Capacity
      BY DEF Safe, Types, BusTypes
    <2>4. /\ watermark >= -1 /\ listening \subseteq Tasks /\ \A t \in Tasks : left[t] \subseteq Recipes
          /\ \A r \in Recipes : Cardinality(seen[r]) <= SeenCap
          /\ holds \in [Tasks -> SUBSET Recipes] /\ room \in [Tasks -> BOOLEAN]
      BY DEF Safe, Types, TaskTypes
    <2>5. \A t \in Tasks : firing[t] # 0 => /\ rows[firing[t]].event = Current(t)
                                            /\ \/ rows[firing[t]].asked
                                               \/ rows[firing[t]].status \in {"running", "turning"}
      BY DEF Safe, Executing
    <2>6. rows \in Seq(RowType) /\ aged \in 0..Len(rows) /\ faults \in 0..MaxFaults
      BY DEF Safe, Types, AuditTypes
    <2> QED BY <2>1, <2>2, <2>3, <2>4, <2>5, <2>6 DEF TypeOK, Stages
  <1> QED BY <1>1, SafeAlways, PTL

\* handle_event and claim_recipe_event: what a recipe takes for a duplicate it has had,
\* unless the number was none yet or belongs to a second event; whatever the cache of
\* claimed numbers has dropped and however late the event comes.
THEOREM SkippedWasHandledAlways == Spec => []SkippedWasHandled
  <1>1. Safe => SkippedWasHandled
    BY DEF Safe, ClaimedWasHandled, SkippedWasHandled
  <1> QED BY <1>1, SafeAlways, PTL

-----------------------------------------------------------------------------
(* The rate limit *)

\* The executions of one recipe in the window, among the rows that count.
LEMMA CountedType ==
  ASSUME AuditTypes, NEW r
  PROVE  /\ IsFiniteSet(Counted(r)) /\ Cardinality(Counted(r)) \in Nat /\ Counted(r) \subseteq DOMAIN rows
         /\ IsFiniteSet(Executed(r)) /\ Cardinality(Executed(r)) \in Nat
         /\ Executed(r) = {i \in aged + 1 .. Len(rows) :
                             rows[i].recipe = r /\ rows[i].status \notin {"rate_limited", "turning"}}
         /\ Cardinality(Executed(r)) <= Cardinality(Counted(r))
  <1>1. Len(rows) \in Nat /\ aged \in Nat /\ DOMAIN rows = 1..Len(rows)
    BY DEF AuditTypes
  <1>2. Counted(r) \subseteq 1..Len(rows) /\ Executed(r) \subseteq Counted(r)
    BY <1>1 DEF Counted, Executed
  <1>3. IsFiniteSet(1..Len(rows))
    BY <1>1, FS_Interval
  <1>4. IsFiniteSet(Counted(r))
    BY <1>2, <1>3, FS_Subset
  <1>5. Executed(r) = {i \in aged + 1 .. Len(rows) :
                         rows[i].recipe = r /\ rows[i].status \notin {"rate_limited", "turning"}}
    BY DEF Counted, Executed
  <1> QED BY <1>1, <1>2, <1>4, <1>5, FS_Subset, FS_CardinalityType

LEMMA Later ==
  ASSUME NEW a \in Nat, NEW b \in Nat, b >= a, NEW n \in Nat, NEW i \in b + 1 .. n
  PROVE  i \in a + 1 .. n /\ i \in 1..n
  OBVIOUS

\* A task that found room has it still when it comes to its row.
Room ==
    \A t \in Tasks : \A r \in holds[t] :
        firing[t] = 0 /\ room[t] => Cardinality(Executed(r)) < RateLimit

\* No task has entered: who holds a lock over no row yet did so before.
NoneEnters ==
    \A t \in Tasks : \A r \in holds'[t] : firing'[t] = 0 =>
        r \in holds[t] /\ firing[t] = 0 /\ room'[t] = room[t] /\ heard'[t] = heard[t]

LEMMA NoneEntered ==
  ASSUME Safe, Next, \A t \in Tasks, r \in Recipes : ~Enter(t, r)
  PROVE  NoneEnters
  <1>1. ASSUME UNCHANGED <<holds, room, heard, firing>> PROVE NoneEnters
    BY <1>1 DEF NoneEnters
  <1>2. ASSUME UNCHANGED tasks PROVE NoneEnters
    BY <1>1, <1>2 DEF tasks, locks
  <1>3. ASSUME NEW t \in Tasks, holds'[t] = {} \/ firing'[t] # 0,
               \A u \in Tasks \ {t} : /\ holds'[u] = holds[u] /\ room'[u] = room[u]
                                      /\ heard'[u] = heard[u] /\ firing'[u] = firing[u]
        PROVE  NoneEnters
    BY <1>3 DEF NoneEnters
  <1>4. ASSUME NEW e \in Events, Reserve(e) \/ Persist(e) \/ Send(e) \/ ReadMax(e) \/ Insert(e) \/ Rewrite(e)
        PROVE  NoneEnters
    BY <1>2, <1>4 DEF Reserve, Persist, Send, ReadMax, Insert, Rewrite
  <1>5. CASE Subscribe \/ Bootstrap
    BY <1>1, <1>5 DEF Subscribe, Bootstrap, locks
  <1>6. ASSUME NEW t \in Tasks, NEW what, Hears(t, what), UNCHANGED <<firing, locks>>
        PROVE  NoneEnters
    <2>1. holds[t] = {} /\ heard' = [heard EXCEPT ![t] = what]
      BY <1>6 DEF Hears, Safe, Holding
    <2>2. \A u \in Tasks \ {t} : heard'[u] = heard[u]
      BY <2>1 DEF Safe, Types, TaskTypes
    <2> QED BY <1>3, <1>6, <2>1, <2>2 DEF locks
  <1>7. CASE Receive \/ Poll
    BY <1>6, <1>7 DEF Receive, Poll, Tasks
  <1>8. ASSUME NEW t \in Tasks, Engine(t) \/ Miss(t)
        PROVE  NoneEnters
    <2>1. /\ heard \in [Tasks -> Seq(Occurrence)] /\ left \in [Tasks -> SUBSET Recipes]
          /\ firing \in [Tasks -> Nat] /\ TaskTypes /\ holds \in [Tasks -> SUBSET Recipes]
      BY DEF Safe, Types, TaskTypes
    <2>2. ASSUME NEW r, heard[t] # <<>>, Done(t, left[t] \ {r})
          PROVE  \A u \in Tasks \ {t} : heard'[u] = heard[u]
      <3>1. left[t] \ {r} \in SUBSET Recipes
        BY <2>1
      <3> QED BY <2>1, <2>2, <3>1, DoneEffect
    <2>3. CASE Finish(t) \/ Unpark(t)
      <3>1. firing[t] # 0 /\ firing[t] \in DOMAIN rows /\ heard[t] # <<>>
        BY <2>3 DEF Finish, Unpark, Safe, Executing
      <3>2. /\ firing' = [firing EXCEPT ![t] = 0] /\ Done(t, left[t] \ {rows[firing[t]].recipe})
            /\ UNCHANGED <<holds, room>>
        BY <2>3 DEF Finish, Unpark, locks
      <3>3. holds[t] = {}
        BY <2>3, <3>1, FinishMoves, AskedFree DEF Unpark
      <3>4. \A u \in Tasks \ {t} : heard'[u] = heard[u] /\ firing'[u] = firing[u]
        BY <2>1, <2>2, <3>1, <3>2
      <3> QED BY <1>3, <3>2, <3>3, <3>4
    <2>4. CASE TurnAway(t)
      <3>1. firing[t] # 0 /\ firing[t] \in DOMAIN rows /\ heard[t] # <<>>
        BY <2>4 DEF TurnAway, Safe, Executing
      <3>2. /\ firing' = [firing EXCEPT ![t] = 0] /\ Done(t, left[t] \ {rows[firing[t]].recipe})
            /\ holds' = [holds EXCEPT ![t] = {}] /\ UNCHANGED room
        BY <2>4 DEF TurnAway
      <3>3. \A u \in Tasks \ {t} : heard'[u] = heard[u] /\ firing'[u] = firing[u] /\ holds'[u] = holds[u]
        BY <2>1, <2>2, <3>1, <3>2
      <3>4. holds'[t] = {}
        BY <2>1, <3>2
      <3> QED BY <1>3, <3>2, <3>3, <3>4
    <2>5. CASE Park(t)
      BY <1>2, <2>5 DEF Park
    <2>6. ASSUME NEW r \in Recipes, Skip(t, r)
          PROVE  NoneEnters
      <3>1. heard[t] # <<>> /\ holds[t] = {} /\ Done(t, left[t] \ {r}) /\ UNCHANGED <<firing, holds, room>>
        BY <2>6 DEF Skip, Free, Idle, locks
      <3> QED BY <1>3, <2>2, <3>1
    <2>7. ASSUME NEW r \in Recipes, Fire(t, r)
          PROVE  NoneEnters
      <3>1. /\ firing' = [firing EXCEPT ![t] = Len(rows')] /\ \A u \in Tasks \ {t} : holds'[u] = holds[u]
            /\ UNCHANGED <<heard, room>>
        BY <2>7, FireEffect
      <3>2. Len(rows') # 0
        <4>1. rows \in Seq(RowType) /\ \E row \in RowType : rows' = Append(rows, row)
          BY <2>7, FireEffect DEF Safe, Types, AuditTypes
        <4> QED BY <4>1
      <3> QED BY <1>3, <2>1, <3>1, <3>2
    <2>8. CASE Miss(t)
      <3>1. holds[t] = {} /\ heard' = [heard EXCEPT ![t] = Tail(heard[t])] /\ UNCHANGED <<firing, holds, room>>
        BY <2>8 DEF Miss, Idle, locks
      <3> QED BY <1>3, <2>1, <3>1
    <2> QED BY <1>8, <2>3, <2>4, <2>5, <2>6, <2>7, <2>8 DEF Engine
  <1>9. ASSUME NEW i \in DOMAIN rows, Resume(i) \/ \E verdict \in {"approved", "denied"} : Decide(i, verdict)
        PROVE  NoneEnters
    BY <1>2, <1>9 DEF Resume, Decide
  <1>10. CASE Age \/ Boot
    BY <1>2, <1>10 DEF Age, Boot
  <1>11. CASE Crash
    BY <1>11 DEF Crash, NoneEnters
  <1> QED BY <1>4, <1>5, <1>7, <1>8, <1>9, <1>10, <1>11 DEF Next

\* Rows that do not become executions, under tasks that do not enter.
LEMMA ExecutedShrinks ==
  ASSUME Safe, RateLimitHolds, Room, AuditTypes', RowsStay, Len(rows') = Len(rows), aged' >= aged, NoneEnters,
         \A i \in DOMAIN rows :
            rows'[i].status \notin {"rate_limited", "turning"} => rows[i].status \notin {"rate_limited", "turning"}
  PROVE  RateLimitHolds' /\ Room'
  <1>1. Len(rows) \in Nat /\ aged \in Nat /\ aged' \in Nat /\ DOMAIN rows = 1..Len(rows) /\ AuditTypes
    BY DEF Safe, Types, AuditTypes
  <1>2. RateLimit \in Nat
    BY RecipesAssumption
  <1>3. ASSUME NEW r
        PROVE  /\ Cardinality(Executed(r)') <= Cardinality(Executed(r))
               /\ Cardinality(Executed(r)') \in Nat /\ Cardinality(Executed(r)) \in Nat
    <2>1. Executed(r)' \subseteq Executed(r)
      <3>1. ASSUME NEW i \in Executed(r)'
            PROVE  i \in Executed(r)
        <4>1. i \in aged' + 1 .. Len(rows') /\ rows'[i].recipe = r /\ rows'[i].status \notin {"rate_limited", "turning"}
          BY <3>1 DEF Executed, Counted
        <4>2. i \in aged + 1 .. Len(rows) /\ i \in DOMAIN rows
          BY <1>1, <4>1, Later
        <4>3. rows[i].recipe = r /\ rows[i].status \notin {"rate_limited", "turning"}
          BY <4>1, <4>2 DEF RowsStay
        <4> QED BY <4>2, <4>3 DEF Executed, Counted
      <3> QED BY <3>1
    <2>2. IsFiniteSet(Executed(r)) /\ Cardinality(Executed(r)) \in Nat
      BY <1>1, CountedType
    <2> QED BY <2>1, <2>2, FS_Subset, FS_CardinalityType
  <1>4. ASSUME NEW r \in Recipes
        PROVE  Cardinality(Executed(r)') <= RateLimit
    BY <1>2, <1>3 DEF RateLimitHolds
  <1>5. ASSUME NEW t \in Tasks, NEW r \in holds'[t], firing'[t] = 0, room'[t]
        PROVE  Cardinality(Executed(r)') < RateLimit
    <2>1. Cardinality(Executed(r)) < RateLimit
      BY <1>5 DEF NoneEnters, Room
    <2> QED BY <1>2, <1>3, <2>1
  <1> QED BY <1>4, <1>5 DEF RateLimitHolds, Room

\* A task that enters has found room, or has not.
LEMMA EnterLimit ==
  ASSUME Safe, RateLimitHolds, Room, NEW t \in Tasks, NEW r \in Recipes, Enter(t, r)
  PROVE  RateLimitHolds' /\ Room'
  <1>1. /\ holds'[t] = {r} /\ room'[t] = (Cardinality(Counted(r)) < RateLimit)
        /\ \A u \in Tasks \ {t} : holds'[u] = holds[u] /\ room'[u] = room[u]
        /\ UNCHANGED <<firing, rows, aged>>
    BY EnterFrame
  <1>2. \A q : Executed(q)' = Executed(q)
    BY <1>1 DEF Executed, Counted
  <1>3. Cardinality(Counted(r)) < RateLimit => Cardinality(Executed(r)) < RateLimit
    <2>1. /\ Cardinality(Executed(r)) <= Cardinality(Counted(r)) /\ RateLimit \in Nat
          /\ Cardinality(Executed(r)) \in Nat /\ Cardinality(Counted(r)) \in Nat
      BY CountedType, RecipesAssumption DEF Safe, Types
    <2> QED BY <2>1
  <1>4. RateLimitHolds'
    BY <1>2 DEF RateLimitHolds
  <1>5. ASSUME NEW u \in Tasks, NEW q \in holds'[u], firing'[u] = 0, room'[u]
        PROVE  Cardinality(Executed(q)) < RateLimit
    <2>1. CASE u = t
      BY <1>1, <1>3, <1>5, <2>1
    <2>2. CASE u # t
      BY <1>1, <1>5, <2>2 DEF Room
    <2> QED BY <2>1, <2>2
  <1> QED BY <1>2, <1>4, <1>5 DEF Room

\* A firing counts once, and only where there was room for it; it leaves the others theirs.
LEMMA FireLimit ==
  ASSUME Safe, RateLimitHolds, Room, NEW t \in Tasks, NEW r \in Recipes, Fire(t, r)
  PROVE  RateLimitHolds' /\ Room'
  <1>1. PICK row \in RowType :
          /\ row.recipe = r /\ row.event = Current(t) /\ row.asked = FALSE /\ row.verdict = "none"
          /\ rows' = Append(rows, row)
          /\ \/ row.status = "turning" /\ holds'[t] = holds[t]
             \/ row.status = "running" /\ room[t] /\ holds'[t] = {}
    BY FireEffect
  <1>2. /\ r \in holds[t] /\ firing[t] = 0 /\ firing' = [firing EXCEPT ![t] = Len(rows')]
        /\ \A u \in Tasks \ {t} : holds'[u] = holds[u]
        /\ UNCHANGED <<room, aged>>
    BY FireEffect
  <1>3. AuditTypes /\ Len(rows) \in Nat /\ aged \in 0..Len(rows) /\ DOMAIN rows = 1..Len(rows)
    BY DEF Safe, Types, AuditTypes
  <1>4. /\ Len(rows') = Len(rows) + 1 /\ rows'[Len(rows) + 1] = row
        /\ \A i \in DOMAIN rows : rows'[i] = rows[i]
    BY <1>1, <1>2, <1>3, RowAdded
  <1>5. row.status = "turning" \/ (row.status = "running" /\ Cardinality(Executed(r)) < RateLimit)
    BY <1>1, <1>2 DEF Room
  <1>6. \A i \in aged + 1 .. Len(rows) + 1 : i = Len(rows) + 1 \/ (i \in aged + 1 .. Len(rows) /\ i \in DOMAIN rows)
    BY <1>3
  <1>7. aged + 1 .. Len(rows) \subseteq aged + 1 .. Len(rows) + 1 /\ Len(rows) + 1 \in aged + 1 .. Len(rows) + 1
    BY <1>3
  <1>8. ASSUME NEW q
        PROVE  Executed(q)' = {i \in aged + 1 .. Len(rows) + 1 :
                                 rows'[i].recipe = q /\ rows'[i].status \notin {"rate_limited", "turning"}}
    BY <1>2, <1>4 DEF Executed, Counted
  <1>9. ASSUME NEW q, row.status = "turning" \/ q # r
        PROVE  Executed(q)' = Executed(q)
    <2>1. ~(row.recipe = q /\ row.status \notin {"rate_limited", "turning"})
      BY <1>1, <1>9
    <2>2. Executed(q) = {i \in aged + 1 .. Len(rows) :
                           rows[i].recipe = q /\ rows[i].status \notin {"rate_limited", "turning"}}
      BY <1>3, CountedType
    <2> QED BY <1>4, <1>6, <1>7, <1>8, <2>1, <2>2
  <1>10. RateLimitHolds'
    <2> SUFFICES ASSUME NEW q \in Recipes PROVE Cardinality(Executed(q)') <= RateLimit
      BY DEF RateLimitHolds
    <2>1. /\ IsFiniteSet(Executed(q)) /\ Cardinality(Executed(q)) \in Nat
          /\ Cardinality(Executed(q)) <= RateLimit /\ RateLimit \in Nat
      BY <1>3, CountedType, RecipesAssumption DEF RateLimitHolds
    <2>2. CASE row.status = "turning" \/ q # r
      BY <1>9, <2>1, <2>2
    <2>3. CASE row.status = "running" /\ q = r
      <3>1. Executed(q)' = Executed(q) \cup {Len(rows) + 1}
        <4>1. Executed(q) = {i \in aged + 1 .. Len(rows) :
                               rows[i].recipe = q /\ rows[i].status \notin {"rate_limited", "turning"}}
          BY <1>3, CountedType
        <4> QED BY <1>1, <1>4, <1>6, <1>7, <1>8, <2>3, <4>1
      <3>2. Cardinality(Executed(q) \cup {Len(rows) + 1}) <= Cardinality(Executed(q)) + 1
        <4>1. Cardinality(Executed(q) \cup {Len(rows) + 1}) =
                IF Len(rows) + 1 \in Executed(q) THEN Cardinality(Executed(q)) ELSE Cardinality(Executed(q)) + 1
          BY <2>1, FS_AddElement
        <4> QED BY <2>1, <4>1
      <3>3. Cardinality(Executed(q)) < RateLimit
        BY <1>5, <2>3
      <3>4. Cardinality(Executed(q) \cup {Len(rows) + 1}) \in Nat
        BY <2>1, FS_AddElement, FS_CardinalityType
      <3> QED BY <2>1, <3>1, <3>2, <3>3, <3>4
    <2> QED BY <1>5, <2>2, <2>3
  <1>11. Room'
    <2> SUFFICES ASSUME NEW u \in Tasks, NEW q \in holds'[u], firing'[u] = 0, room'[u]
                 PROVE  Cardinality(Executed(q)') < RateLimit
      BY DEF Room
    <2>1. u # t
      <3>1. firing'[t] # 0
        BY <1>2, <1>3, <1>4 DEF Safe, Types, TaskTypes
      <3> QED BY <3>1
    <2>2. q \in holds[u] /\ firing[u] = 0 /\ room[u]
      BY <1>2, <2>1 DEF Safe, Types, TaskTypes
    <2>3. q # r
      BY <1>2, <2>1, <2>2 DEF Safe, Holding
    <2> QED BY <1>9, <2>2, <2>3 DEF Room
  <1> QED BY <1>10, <1>11

\* A row that moves counts no more than before.
LEMMA MoveLimit ==
  ASSUME Safe, RateLimitHolds, Room, AuditTypes', NEW j \in DOMAIN rows, NEW status, NEW asked, NEW verdict,
         RowMoves(j, status, asked, verdict), NoneEnters,
         status \notin {"rate_limited", "turning"} => rows[j].status \notin {"rate_limited", "turning"}
  PROVE  RateLimitHolds' /\ Room'
  <1>1. AuditTypes /\ aged \in Nat
    BY DEF Safe, Types, AuditTypes
  <1>2. /\ RowsStay /\ Len(rows') = Len(rows) /\ aged' = aged
        /\ rows'[j].status = status /\ \A i \in DOMAIN rows \ {j} : rows'[i] = rows[i]
    BY <1>1, RowChanged DEF RowMoves
  <1> QED BY <1>1, <1>2, ExecutedShrinks

LEMMA LimitStep == Safe /\ RateLimitHolds /\ Room /\ [Next]_vars => RateLimitHolds' /\ Room'
  <1> SUFFICES ASSUME Safe, RateLimitHolds, Room, Next PROVE RateLimitHolds' /\ Room'
    <2>1. CASE UNCHANGED vars
      <3>1. UNCHANGED <<rows, aged, holds, room, firing>>
        BY <2>1 DEF vars, tasks, locks, audit
      <3>2. \A r : Executed(r)' = Executed(r)
        BY <3>1 DEF Executed, Counted
      <3> QED BY <3>1, <3>2 DEF RateLimitHolds, Room
    <2> QED BY <2>1
  <1>0. AuditTypes /\ AuditTypes' /\ aged \in Nat
    BY SafeStep DEF Safe, Types, AuditTypes
  <1>1. ASSUME NEW t \in Tasks, NEW r \in Recipes, Enter(t, r) \/ Fire(t, r)
        PROVE  RateLimitHolds' /\ Room'
    BY <1>1, EnterLimit, FireLimit
  <1>2. CASE \E t \in Tasks, r \in Recipes : Enter(t, r)
    BY <1>1, <1>2
  <1>3. CASE \A t \in Tasks, r \in Recipes : ~Enter(t, r)
    <2>2. NoneEnters
      BY <1>3, NoneEntered
    <2>3. ASSUME UNCHANGED rows, aged' >= aged PROVE RateLimitHolds' /\ Room'
      BY <1>0, <2>2, <2>3, ExecutedShrinks DEF RowsStay
    <2>4. ASSUME UNCHANGED audit PROVE RateLimitHolds' /\ Room'
      BY <1>0, <2>3, <2>4 DEF audit
    <2>5. ASSUME NEW e \in Events, Reserve(e) \/ Persist(e) \/ Send(e) \/ ReadMax(e) \/ Insert(e) \/ Rewrite(e)
          PROVE  RateLimitHolds' /\ Room'
      BY <2>4, <2>5 DEF Reserve, Persist, Send, ReadMax, Insert, Rewrite
    <2>6. CASE Subscribe \/ Bootstrap \/ Receive \/ Poll \/ Crash \/ Boot
      BY <2>4, <2>6 DEF Subscribe, Bootstrap, Receive, Poll, Crash, Boot
    <2>7. ASSUME NEW t \in Tasks, Finish(t) \/ TurnAway(t) \/ Park(t)
          PROVE  RateLimitHolds' /\ Room'
      BY <1>0, <2>2, <2>7, FinishMoves, TurnAwayMoves, ParkMoves, MoveLimit
    <2>8. ASSUME NEW t \in Tasks, Unpark(t) \/ Miss(t) \/ (\E r \in Recipes : Skip(t, r))
          PROVE  RateLimitHolds' /\ Room'
      BY <2>4, <2>8 DEF Unpark, Miss, Skip
    <2>9. ASSUME NEW t \in Tasks, Engine(t) \/ Miss(t)
          PROVE  RateLimitHolds' /\ Room'
      BY <1>1, <2>7, <2>8, <2>9 DEF Engine
    <2>10. ASSUME NEW i \in DOMAIN rows, Resume(i)
           PROVE  RateLimitHolds' /\ Room'
      BY <1>0, <2>2, <2>10, ResumeMoves, MoveLimit
    <2>11. ASSUME NEW i \in DOMAIN rows, NEW verdict \in {"approved", "denied"}, Decide(i, verdict)
           PROVE  RateLimitHolds' /\ Room'
      BY <1>0, <2>2, <2>11, DecideMoves, MoveLimit
    <2>12. CASE Age
      BY <1>0, <2>3, <2>12 DEF Age
    <2> QED BY <2>5, <2>6, <2>9, <2>10, <2>11, <2>12 DEF Next
  <1> QED BY <1>2, <1>3

\* handle_event: though the count, the insert and the turning away are statements of their
\* own, with both tasks at it and the desktop dying between any two, a recipe has at no time
\* more executions in the window than its limit, for any limit, events and recipes.
THEOREM RateLimitHoldsAlways == Spec => []RateLimitHolds
  <1>1. Init => RateLimitHolds /\ Room
    <2> SUFFICES ASSUME Init PROVE RateLimitHolds /\ Room
      OBVIOUS
    <2>1. RateLimit \in Nat /\ \A r : Executed(r) = {}
      BY RecipesAssumption DEF Init, Executed, Counted
    <2>2. RateLimitHolds
      BY <2>1, FS_EmptySet DEF RateLimitHolds
    <2> QED BY <2>2 DEF Init, Room
  <1> QED BY <1>1, LimitStep, SafeAlways, PTL DEF Spec

\* posts_decide, run_approval_resume_tick and finalize_run_row: a verdict stays, and the
\* row of a decision that has come to it is not touched again, least of all by the task
\* that parked it.
THEOREM DecidedIsFinalAlways == Spec => DecidedIsFinal
  <1> DEFINE Keeps == \A i \in DOMAIN rows :
                /\ rows[i].verdict # "none" => rows'[i].verdict = rows[i].verdict
                /\ rows[i].status \in {"approved", "denied"} => rows'[i] = rows[i]
  <1>1. ASSUME Safe, NEW j \in DOMAIN rows, NEW status, NEW asked, NEW verdict,
               RowMoves(j, status, asked, verdict), rows[j].status \notin {"approved", "denied"},
               rows[j].verdict = "none" \/ verdict = rows[j].verdict
        PROVE  Keeps
    <2>1. rows'[j].verdict = verdict /\ \A i \in DOMAIN rows \ {j} : rows'[i] = rows[i]
      BY <1>1, RowChanged DEF RowMoves, Safe, Types
    <2> QED BY <1>1, <2>1
  <1>2. ASSUME Safe, Next PROVE Keeps
    <2>1. ASSUME UNCHANGED rows PROVE Keeps
      BY <2>1
    <2>2. ASSUME NEW e \in Events, Reserve(e) \/ Persist(e) \/ Send(e) \/ ReadMax(e) \/ Insert(e) \/ Rewrite(e)
          PROVE  Keeps
      BY <2>1, <2>2 DEF Reserve, Persist, Send, ReadMax, Insert, Rewrite, audit
    <2>3. CASE Subscribe \/ Bootstrap \/ Receive \/ Poll \/ Age \/ Crash \/ Boot
      BY <2>1, <2>3 DEF Subscribe, Bootstrap, Receive, Poll, Age, Crash, Boot, audit
    <2>4. ASSUME NEW t \in Tasks, Finish(t)
          PROVE  Keeps
      BY <1>1, <1>2, <2>4, FinishMoves
    <2>5. ASSUME NEW t \in Tasks, Park(t)
          PROVE  Keeps
      BY <1>1, <1>2, <2>5, ParkMoves
    <2>6. ASSUME NEW t \in Tasks, Unpark(t) \/ Miss(t) \/ (\E r \in Recipes : Skip(t, r) \/ Enter(t, r))
          PROVE  Keeps
      BY <2>1, <2>6 DEF Unpark, Miss, Skip, Enter, audit
    <2>11. ASSUME NEW t \in Tasks, TurnAway(t)
           PROVE  Keeps
      BY <1>1, <1>2, <2>11, TurnAwayMoves
    <2>7. ASSUME NEW t \in Tasks, NEW r \in Recipes, Fire(t, r)
          PROVE  Keeps
      <3>1. AuditTypes /\ aged' = aged
        BY <1>2, <2>7, FireEffect DEF Safe, Types
      <3>2. \E row \in RowType : rows' = Append(rows, row)
        BY <1>2, <2>7, FireEffect
      <3> QED BY <3>1, <3>2, RowAdded
    <2>8. ASSUME NEW i \in DOMAIN rows, Resume(i)
          PROVE  Keeps
      BY <1>1, <1>2, <2>8, ResumeMoves
    <2>9. ASSUME NEW i \in DOMAIN rows, NEW verdict \in {"approved", "denied"}, Decide(i, verdict)
          PROVE  Keeps
      <3>1. rows[i].verdict = "none" /\ RowMoves(i, rows[i].status, TRUE, verdict)
        BY <1>2, <2>9, DecideMoves
      <3>2. rows[i].status \notin {"approved", "denied"}
        BY <1>2, <3>1 DEF Safe, Executing, RowsInOrder
      <3> QED BY <1>1, <1>2, <3>1, <3>2
    <2>10. ASSUME NEW t \in Tasks, Engine(t) \/ Miss(t)
           PROVE  Keeps
      BY <2>4, <2>5, <2>6, <2>7, <2>10, <2>11 DEF Engine
    <2> HIDE DEF Keeps
    <2> QED BY <1>2, <2>2, <2>3, <2>8, <2>9, <2>10 DEF Next
  <1>3. Safe /\ [Next]_vars => [Keeps]_vars
    BY <1>2
  <1> QED BY <1>3, SafeAlways, PTL DEF Spec, DecidedIsFinal

-----------------------------------------------------------------------------
(* No recipe fires twice for one event *)

\* With few events no number is dropped for a new one.
LEMMA NothingDropped ==
  ASSUME Few, Safe, NEW r \in Recipes, NEW n \in Nat, NEW e \in Events, n \in {0, number[e]}
  PROVE  Claimed(r, n) = seen[r] \cup {n}
  <1> DEFINE numbers == {number[f] : f \in Events}
  <1>1. number \in Surjection(Events, numbers)
    BY DEF Surjection, Safe, Types, PublisherTypes
  <1>2. IsFiniteSet(numbers) /\ Cardinality(numbers) <= Cardinality(Events)
    BY <1>1, FS_Surjection DEF Few
  <1>3. IsFiniteSet(numbers \cup {0}) /\ Cardinality(numbers \cup {0}) <= Cardinality(numbers) + 1
    <2>1. IsFiniteSet(numbers \cup {0})
          /\ Cardinality(numbers \cup {0}) = IF 0 \in numbers THEN Cardinality(numbers) ELSE Cardinality(numbers) + 1
      <3> HIDE DEF numbers
      <3> QED BY <1>2, FS_AddElement
    <2>2. Cardinality(numbers) \in Nat
      BY <1>2, FS_CardinalityType
    <2> HIDE DEF numbers
    <2> QED BY <2>1, <2>2
  <1>4. seen[r] \cup {n} \in SUBSET (numbers \cup {0})
    BY DEF Safe, ClaimedWasHandled
  <1>5. Cardinality(seen[r] \cup {n}) <= SeenCap
    <2>1. IsFiniteSet(seen[r] \cup {n}) /\ Cardinality(seen[r] \cup {n}) <= Cardinality(numbers \cup {0})
      <3> HIDE DEF numbers
      <3> QED BY <1>3, <1>4, FS_Subset
    <2>2. /\ Cardinality(seen[r] \cup {n}) \in Nat /\ Cardinality(numbers \cup {0}) \in Nat
          /\ Cardinality(numbers) \in Nat /\ Cardinality(Events) \in Nat /\ SeenCap \in Nat
          /\ Cardinality(Events) < SeenCap
      <3> HIDE DEF numbers
      <3> QED BY <1>2, <1>3, <2>1, FS_CardinalityType, RecipesAssumption DEF Few
    <2> HIDE DEF numbers
    <2> QED BY <1>2, <1>3, <2>1, <2>2
  <1> QED BY <1>5, ClaimedType DEF Safe, Types

\* What has a row is out, and what a task has in hand is.
LEMMA HandledOut ==
  ASSUME Safe, NEW r, NEW e, Handled(r, e)
  PROVE  stage[e] \in Out
  BY DEF Safe, Executing, RowsInOrder, Handled

LEMMA HeardOut ==
  ASSUME Safe, NEW t \in Tasks, NEW i \in DOMAIN heard[t]
  PROVE  /\ heard[t][i] \in Occurrence /\ heard[t][i][1] \in Events /\ stage[heard[t][i][1]] \in Out
         /\ heard[t] \in Seq(Occurrence) /\ i \in 1..Len(heard[t]) /\ t \in listening
  <1>1. heard[t] \in Seq(Occurrence) /\ heard[t] # <<>>
    BY DEF Safe, Types, TaskTypes
  <1>2. heard[t][i] \in Occurrence /\ i \in 1..Len(heard[t])
    BY <1>1
  <1> QED BY <1>1, <1>2 DEF Safe, InHand, Occurrence

\* A step after which an event may come only if it could before, and which keeps the claims.
LEMMA OnceKept ==
  ASSUME Safe, FinalStays, Once,
         \A r \in Recipes, e \in Events : Handled(r, e)' => Handled(r, e),
         \A e \in DesktopEvents : stage[e] \in Out /\ Pending(e)' => Pending(e),
         \A r \in Recipes : seen[r] \subseteq seen'[r],
         \A r \in Recipes, e \in CliEvents : Handled(r, e) /\ CliDone(r, e) => CliDone(r, e)'
  PROVE  Once'
  <1> SUFFICES ASSUME NEW r \in Recipes, NEW e \in Events, Handled(r, e)'
               PROVE  /\ e \in DesktopEvents /\ Pending(e)' => number'[e] \in seen'[r]
                      /\ e \in CliEvents => CliDone(r, e)'
    BY DEF Once
  <1>1. Handled(r, e) /\ stage[e] \in Out
    BY HandledOut
  <1>2. number'[e] = number[e]
    BY <1>1 DEF FinalStays
  <1>3. ASSUME e \in DesktopEvents, Pending(e)' PROVE number'[e] \in seen'[r]
    BY <1>1, <1>2, <1>3 DEF Once
  <1>4. ASSUME e \in CliEvents PROVE CliDone(r, e)'
    BY <1>1, <1>4 DEF Once
  <1> QED BY <1>3, <1>4

\* The publishers bring nothing back that was out.
LEMMA PublisherOnce ==
  ASSUME Safe, FinalStays, PolledOnce, Once, UNCHANGED <<tasks, seen, audit>>,
         \A e \in DesktopEvents : \A i \in DOMAIN bus' : bus'[i] = e =>
            stage[e] = "persisted" \/ \E j \in DOMAIN bus : bus[j] = e,
         \A e \in DesktopEvents : stage[e] \in Out /\ stage'[e] = "persisted" => stage[e] = "persisted",
         \A s \in DOMAIN ledger' : \/ s \in DOMAIN ledger /\ ledger'[s].event = ledger[s].event
                                   \/ stage[ledger'[s].event] \notin Out
  PROVE  PolledOnce' /\ Once'
  <1>1. UNCHANGED <<listening, watermark, heard, left, firing, seen, rows>>
    BY DEF tasks, audit
  <1>2. PolledOnce'
    <2>1. ASSUME NEW i \in DOMAIN heard["poll"], NEW s \in DOMAIN ledger', ledger'[s].event = heard["poll"][i][1]
          PROVE  s <= watermark
      <3>1. stage[heard["poll"][i][1]] \in Out
        BY HeardOut DEF Tasks
      <3> QED BY <2>1, <3>1 DEF PolledOnce
    <2> QED BY <1>1, <2>1 DEF PolledOnce
  <1>3. \A r \in Recipes, e \in Events : Handled(r, e)' => Handled(r, e)
    BY <1>1 DEF Handled
  <1>4. ASSUME NEW e \in DesktopEvents, stage[e] \in Out, Pending(e)'
        PROVE  Pending(e)
    BY <1>1, <1>4 DEF Pending
  <1>5. ASSUME NEW r \in Recipes, NEW e \in CliEvents, Handled(r, e), CliDone(r, e)
        PROVE  CliDone(r, e)'
    <2>1. stage[e] \in Out
      BY <1>5, HandledOut
    <2> QED BY <1>1, <1>5, <2>1 DEF CliDone
  <1> QED BY <1>1, <1>2, <1>3, <1>4, <1>5, OnceKept

LEMMA PublishersOnce ==
  ASSUME Safe, FinalStays, PolledOnce, Once, NEW e \in Events,
         Reserve(e) \/ Persist(e) \/ Send(e) \/ ReadMax(e) \/ Insert(e) \/ Rewrite(e)
  PROVE  PolledOnce' /\ Once'
  <1>1. UNCHANGED <<tasks, seen, audit>>
    BY DEF Reserve, Persist, Send, ReadMax, Insert, Rewrite
  <1>2. stage[e] \in Stages /\ stage \in [Events -> Stages] /\ bus \in Seq(DesktopEvents)
    BY DEF Safe, Types, PublisherTypes, BusTypes
  <1>3. \A f \in Events \ {e} : stage'[f] = stage[f]
    BY <1>2 DEF Reserve, Persist, Send, ReadMax, Insert, Rewrite, Moves
  <1>4. stage[e] \in Out => stage'[e] = "sent"
    BY <1>2 DEF Reserve, Persist, Send, ReadMax, Insert, Rewrite, Moves, Out
  <1>5. \A f \in DesktopEvents : stage[f] \in Out /\ stage'[f] = "persisted" => stage[f] = "persisted"
    BY <1>3, <1>4 DEF Events
  <1>6. ASSUME NEW f \in DesktopEvents, NEW k \in DOMAIN bus', bus'[k] = f
        PROVE  stage[f] = "persisted" \/ \E j \in DOMAIN bus : bus[j] = f
    <2>1. CASE bus' = bus
      BY <1>6, <2>1
    <2>2. CASE Send(e)
      <3>1. e \in DesktopEvents /\ stage[e] = "persisted"
        BY <2>2 DEF Send, Moves
      <3>2. /\ Append(bus, e) \in Seq(DesktopEvents)
            /\ \A j \in DOMAIN Append(bus, e) : Append(bus, e)[j] = e \/ (j \in DOMAIN bus /\ Append(bus, e)[j] = bus[j])
        BY <1>2, <3>1
      <3>3. bus' = bus \/ bus' = Append(bus, e) \/ bus' = Tail(Append(bus, e))
        BY <2>2 DEF Send
      <3>4. \E j \in DOMAIN Append(bus, e) : bus'[k] = Append(bus, e)[j]
        <4>1. CASE bus' = Tail(Append(bus, e))
          <5>1. bus'[k] = Append(bus, e)[k + 1] /\ k + 1 \in DOMAIN Append(bus, e)
            <6>1. Append(bus, e) \in Seq(DesktopEvents) /\ Len(Append(bus, e)) = Len(bus) + 1 /\ Len(bus) \in Nat
              BY <1>2, <3>1
            <6>2. \A q \in Seq(DesktopEvents) : Len(q) > 0 =>
                    \A j \in DOMAIN Tail(q) : Tail(q)[j] = q[j + 1] /\ j + 1 \in DOMAIN q
              OBVIOUS
            <6>3. Len(Append(bus, e)) > 0
              BY <6>1
            <6> QED BY <1>6, <4>1, <6>1, <6>2, <6>3
          <5> QED BY <5>1
        <4>2. CASE bus' = Append(bus, e)
          BY <1>6, <4>2
        <4>3. CASE bus' = bus
          <5>1. k \in DOMAIN Append(bus, e) /\ Append(bus, e)[k] = bus[k]
            BY <1>2, <1>6, <3>1, <4>3
          <5> QED BY <4>3, <5>1
        <4> QED BY <3>3, <4>1, <4>2, <4>3
      <3> QED BY <1>6, <3>1, <3>2, <3>4
    <2> QED BY <2>1, <2>2 DEF Reserve, Persist, ReadMax, Insert, Rewrite
  <1>7. ASSUME NEW s \in DOMAIN ledger'
        PROVE  \/ s \in DOMAIN ledger /\ ledger'[s].event = ledger[s].event
               \/ stage[ledger'[s].event] \notin Out
    <2>1. CASE ledger' = ledger
      BY <2>1
    <2>2. CASE Persist(e)
      <3>1. stage[e] \notin Out
        BY <2>2 DEF Persist, Moves, Out
      <3> QED BY <2>2, <3>1 DEF Persist
    <2>3. CASE Insert(e) /\ ledger' # ledger
      <3>1. stage[e] \notin Out
        BY <2>3 DEF Insert, Moves, Out
      <3>2. ledger' = [q \in DOMAIN ledger \cup {number[e]} |->
                         IF q = number[e] THEN [event |-> e, says |-> 0] ELSE ledger[q]]
        BY <2>3 DEF Insert
      <3>3. s = number[e] => ledger'[s].event = e
        BY <3>2
      <3>4. s # number[e] => s \in DOMAIN ledger /\ ledger'[s] = ledger[s]
        BY <3>2
      <3> QED BY <3>1, <3>3, <3>4
    <2>4. CASE Rewrite(e)
      <3>1. ledger' = [ledger EXCEPT ![number[e]].says = number[e]] /\ ledger = [q \in DOMAIN ledger |-> ledger[q]]
        BY <2>4 DEF Rewrite, Safe, Types, LedgerTypes
      <3>2. s \in DOMAIN ledger /\ ledger[s] \in [event : Events, says : Nat]
        BY <3>1 DEF Safe, Types, LedgerTypes
      <3>3. ledger'[s].event = ledger[s].event
        <4>1. CASE s = number[e]
          <5>1. ledger'[s] = [ledger[s] EXCEPT !.says = number[e]]
            BY <3>1, <3>2, <4>1
          <5> QED BY <3>2, <5>1
        <4>2. CASE s # number[e]
          BY <3>1, <3>2, <4>2
        <4> QED BY <4>1, <4>2
      <3> QED BY <3>2, <3>3
    <2> QED BY <2>1, <2>2, <2>3, <2>4 DEF Reserve, Send, ReadMax
  <1> QED BY <1>1, <1>5, <1>6, <1>7, PublisherOnce

LEMMA SubscribeOnce ==
  ASSUME Safe, FinalStays, PolledOnce, Once, Subscribe
  PROVE  PolledOnce' /\ Once'
  <1>1. /\ UNCHANGED <<stage, ledger, bus, watermark, heard, left, firing, seen, rows>>
        /\ ("poll" \in listening' <=> "poll" \in listening)
    BY DEF Subscribe, publishers, audit
  <1>2. PolledOnce'
    BY <1>1 DEF PolledOnce
  <1>3. \A r \in Recipes, e \in Events : Handled(r, e)' => Handled(r, e)
    BY <1>1 DEF Handled
  <1>4. \A e \in DesktopEvents : Pending(e)' => Pending(e)
    BY <1>1 DEF Pending
  <1>5. \A r \in Recipes, e \in CliEvents : CliDone(r, e) => CliDone(r, e)'
    BY <1>1 DEF CliDone
  <1> QED BY <1>1, <1>2, <1>3, <1>4, <1>5, OnceKept

LEMMA BootstrapOnce ==
  ASSUME Safe, FinalStays, PolledOnce, Once, Bootstrap
  PROVE  PolledOnce' /\ Once'
  <1>1. /\ UNCHANGED <<stage, ledger, bus, heard, left, firing, seen, rows>>
        /\ watermark' = MaxSeq /\ "poll" \notin listening
    BY DEF Bootstrap, publishers, audit
  <1>2. heard["poll"] = <<>>
    BY <1>1 DEF Safe, InHand, Tasks
  <1>3. MaxSeq \in Nat /\ \A s \in DOMAIN ledger : s \in Nat /\ s <= MaxSeq
    BY MaxSeqType DEF Safe, Types
  <1>4. PolledOnce'
    BY <1>1, <1>2 DEF PolledOnce
  <1>5. \A r \in Recipes, e \in Events : Handled(r, e)' => Handled(r, e)
    BY <1>1 DEF Handled
  <1>6. \A s \in DOMAIN ledger : ~(s > watermark') /\ s <= watermark'
    BY <1>1, <1>3
  <1>7. \A e \in DesktopEvents : Pending(e)' => Pending(e)
    BY <1>1, <1>6 DEF Pending
  <1>8. \A r \in Recipes, e \in CliEvents : CliDone(r, e)'
    BY <1>1, <1>2, <1>6 DEF CliDone
  <1> QED BY <1>1, <1>4, <1>5, <1>7, <1>8, OnceKept

LEMMA ReceiveOnce ==
  ASSUME Safe, FinalStays, PolledOnce, Once, Receive
  PROVE  PolledOnce' /\ Once'
  <1> DEFINE what == <<<<Head(bus), number[Head(bus)]>>>>
  <1>1. /\ UNCHANGED <<stage, ledger, listening, watermark, firing, seen, rows>>
        /\ bus # <<>> /\ bus' = Tail(bus) /\ heard' = [heard EXCEPT !["bus"] = what]
        /\ left' = [left EXCEPT !["bus"] = Recipes]
    BY DEF Receive, Hears, publishers, audit
  <1>2. bus \in Seq(DesktopEvents) /\ heard \in [Tasks -> Seq(Occurrence)] /\ left \in [Tasks -> SUBSET Recipes]
    BY DEF Safe, Types, BusTypes, TaskTypes
  <1>3. DOMAIN what = {1} /\ what[1][1] = bus[1] /\ 1 \in DOMAIN bus
    BY <1>1, <1>2
  <1>4. \A i \in DOMAIN bus' : bus'[i] = bus[i + 1] /\ i + 1 \in DOMAIN bus
    BY <1>1, <1>2
  <1> HIDE DEF what
  <1>5. heard'["bus"] = what /\ heard'["poll"] = heard["poll"] /\ left'["poll"] = left["poll"]
    BY <1>1, <1>2 DEF Tasks
  <1>6. PolledOnce'
    BY <1>1, <1>5 DEF PolledOnce
  <1>7. \A r \in Recipes, e \in Events : Handled(r, e)' => Handled(r, e)
    BY <1>1 DEF Handled
  <1>8. ASSUME NEW e \in DesktopEvents, Pending(e)'
        PROVE  Pending(e)
    <2>1. ASSUME NEW i \in DOMAIN bus', bus'[i] = e PROVE Pending(e)
      BY <1>4, <2>1 DEF Pending
    <2>2. ASSUME NEW t \in Tasks, NEW i \in DOMAIN heard'[t], heard'[t][i][1] = e PROVE Pending(e)
      <3>1. CASE t = "bus"
        BY <1>3, <1>5, <2>2, <3>1 DEF Pending
      <3>2. CASE t = "poll"
        BY <1>5, <2>2, <3>2 DEF Pending, Tasks
      <3> QED BY <3>1, <3>2 DEF Tasks
    <2>3. CASE stage'[e] = "persisted" \/ ("poll" \in listening' /\ \E s \in DOMAIN ledger' : ledger'[s].event = e /\ s > watermark')
      BY <1>1, <2>3 DEF Pending
    <2> QED BY <1>8, <2>1, <2>2, <2>3 DEF Pending
  <1>9. \A r \in Recipes, e \in CliEvents : CliDone(r, e) => CliDone(r, e)'
    BY <1>1, <1>5 DEF CliDone
  <1> QED BY <1>1, <1>6, <1>7, <1>8, <1>9, OnceKept

LEMMA PollOnce ==
  ASSUME Safe, FinalStays, PolledOnce, Once, Poll
  PROVE  PolledOnce' /\ Once'
  <1>1. /\ UNCHANGED <<stage, ledger, listening, bus, firing, seen, rows>>
        /\ Page # {} /\ watermark' = Max(Page) /\ heard' = [heard EXCEPT !["poll"] = Occurrences]
        /\ left' = [left EXCEPT !["poll"] = Recipes] /\ "poll" \in listening
    BY DEF Poll, Hears, publishers, audit
  <1>2. LedgerTypes /\ TaskTypes /\ heard \in [Tasks -> Seq(Occurrence)] /\ watermark \in Int
    BY DEF Safe, Types, TaskTypes
  <1>3. Page \subseteq DOMAIN ledger /\ \A s \in Page : s > watermark
    BY <1>2, OccurrencesType
  <1>4. PICK at \in [DOMAIN Occurrences -> Page] :
          /\ \A i \in DOMAIN Occurrences : Occurrences[i] = <<ledger[at[i]].event, ledger[at[i]].says>>
          /\ \A i, j \in DOMAIN Occurrences : at[i] = at[j] => i = j
    BY <1>2, OccurrencesType
  <1>5. \A i \in DOMAIN Occurrences : /\ at[i] \in Page /\ at[i] \in DOMAIN ledger /\ at[i] > watermark
                                       /\ Occurrences[i][1] = ledger[at[i]].event
    BY <1>3, <1>4
  <1>6. \A s, q \in DOMAIN ledger : ledger[s].event = ledger[q].event => s = q
    BY <1>2 DEF LedgerTypes
  <1>7. /\ \A s \in DOMAIN ledger : s \in Nat
        /\ watermark' \in Nat /\ \A s \in Page : s <= watermark'
    <2>1. PICK n \in Nat : DOMAIN ledger \subseteq 1..n
      BY <1>2 DEF LedgerTypes
    <2>2. Page \subseteq 0..n /\ Page # {}
      BY <1>1, <1>3, <2>1
    <2>3. Max(Page) \in Page /\ \A s \in Page : s <= Max(Page)
      BY <2>2, MaxOf
    <2>4. Max(Page) \in 0..n
      BY <2>2, <2>3
    <2>5. \A s \in DOMAIN ledger : s \in Nat
      BY <2>1
    <2> QED BY <1>1, <2>3, <2>4, <2>5
  <1>8. watermark < watermark'
    <2>1. \E s \in Page : s > watermark /\ s <= watermark' /\ s \in Nat
      BY <1>1, <1>3, <1>7
    <2> QED BY <1>2, <1>7, <2>1
  <1>9. heard'["poll"] = Occurrences /\ heard'["bus"] = heard["bus"]
    BY <1>1, <1>2 DEF Tasks
  <1>10. PolledOnce'
    <2>1. \A i, j \in DOMAIN Occurrences : Occurrences[i][1] = Occurrences[j][1] => i = j
      BY <1>4, <1>5, <1>6
    <2>2. \A i \in DOMAIN Occurrences : \A s \in DOMAIN ledger : ledger[s].event = Occurrences[i][1] => s <= watermark'
      BY <1>5, <1>6, <1>7
    <2> QED BY <1>1, <1>9, <2>1, <2>2 DEF PolledOnce
  <1>11. \A r \in Recipes, e \in Events : Handled(r, e)' => Handled(r, e)
    BY <1>1 DEF Handled
  <1>12. ASSUME NEW e \in DesktopEvents, Pending(e)'
         PROVE  Pending(e)
    <2>1. CASE (\E i \in DOMAIN bus' : bus'[i] = e) \/ stage'[e] = "persisted"
      BY <1>1, <2>1 DEF Pending
    <2>2. ASSUME NEW i \in DOMAIN Occurrences, Occurrences[i][1] = e PROVE Pending(e)
      BY <1>1, <1>5, <2>2 DEF Pending
    <2>3. ASSUME NEW t \in Tasks, NEW i \in DOMAIN heard'[t], heard'[t][i][1] = e PROVE Pending(e)
      <3>1. CASE t = "bus"
        BY <1>9, <2>3, <3>1 DEF Pending
      <3>2. CASE t = "poll"
        BY <1>9, <2>2, <2>3, <3>2
      <3> QED BY <3>1, <3>2 DEF Tasks
    <2>4. ASSUME NEW s \in DOMAIN ledger, ledger[s].event = e, s > watermark' PROVE Pending(e)
      <3>1. s > watermark
        BY <1>2, <1>7, <1>8, <2>4
      <3> QED BY <1>1, <2>4, <3>1 DEF Pending
    <2> QED BY <1>1, <1>12, <2>1, <2>3, <2>4 DEF Pending
  <1>13. ASSUME NEW r \in Recipes, NEW e \in CliEvents, CliDone(r, e)
         PROVE  CliDone(r, e)'
    <2>1. ASSUME NEW s \in DOMAIN ledger, ledger[s].event = e
          PROVE  s <= watermark /\ s <= watermark'
      <3>1. s <= watermark /\ s \in Nat
        BY <1>1, <1>7, <1>13, <2>1 DEF CliDone
      <3> QED BY <1>2, <1>7, <1>8, <3>1
    <2>2. ASSUME NEW i \in DOMAIN Occurrences, Occurrences[i][1] = e
          PROVE  FALSE
      <3>1. at[i] <= watermark /\ at[i] > watermark /\ at[i] \in Nat
        BY <1>5, <1>7, <2>1, <2>2
      <3> QED BY <1>2, <3>1
    <2> QED BY <1>1, <1>9, <2>1, <2>2 DEF CliDone
  <1> QED BY <1>1, <1>10, <1>11, <1>12, <1>13, OnceKept

\* A task that goes on with its event, or puts it aside, brings nothing back.
LEMMA GoesOn ==
  ASSUME Safe, PolledOnce, NEW t \in Tasks, RowsStay,
         UNCHANGED <<stage, ledger, bus, listening, watermark>>,
         \A u \in Tasks \ {t} : heard'[u] = heard[u] /\ left'[u] = left[u] /\ firing'[u] = firing[u],
         \/ heard[t] # <<>> /\ heard'[t] = Tail(heard[t])
         \/ /\ heard'[t] = heard[t] /\ left'[t] \subseteq left[t]
            /\ \/ firing[t] = 0
               \/ firing'[t] = firing[t]
               \/ rows[firing[t]].recipe \notin left'[t]
  PROVE  /\ PolledOnce'
         /\ \A e \in Events : Pending(e)' => Pending(e)
         /\ \A r \in Recipes, e \in Events : CliDone(r, e) => CliDone(r, e)'
  <1>1. \A u \in Tasks : heard[u] \in Seq(Occurrence)
    BY DEF Safe, Types, TaskTypes
  <1>2. ASSUME NEW u \in Tasks, heard[u] # <<>>, heard'[u] = Tail(heard[u]), NEW i \in DOMAIN heard'[u]
        PROVE  i + 1 \in DOMAIN heard[u] /\ heard'[u][i] = heard[u][i + 1] /\ i \in Nat \ {0}
    BY <1>1, <1>2
  <1>3. ASSUME NEW u \in Tasks
        PROVE  heard'[u] = heard[u] \/ (heard[u] # <<>> /\ heard'[u] = Tail(heard[u]))
    OBVIOUS
  <1>4. "poll" \in Tasks
    BY DEF Tasks
  <1>5. PolledOnce'
    <2>1. CASE heard'["poll"] = heard["poll"]
      BY <2>1 DEF PolledOnce
    <2>2. CASE heard["poll"] # <<>> /\ heard'["poll"] = Tail(heard["poll"])
      <3>1. ASSUME NEW i \in DOMAIN heard'["poll"], NEW j \in DOMAIN heard'["poll"],
                   heard'["poll"][i][1] = heard'["poll"][j][1]
            PROVE  i = j
        <4>1. i + 1 \in DOMAIN heard["poll"] /\ heard'["poll"][i] = heard["poll"][i + 1] /\ i \in Nat
          BY <1>2, <1>4, <2>2
        <4>2. j + 1 \in DOMAIN heard["poll"] /\ heard'["poll"][j] = heard["poll"][j + 1] /\ j \in Nat
          BY <1>2, <1>4, <2>2
        <4>3. i + 1 = j + 1
          BY <3>1, <4>1, <4>2 DEF PolledOnce
        <4> QED BY <4>1, <4>2, <4>3
      <3>2. ASSUME NEW i \in DOMAIN heard'["poll"], NEW s \in DOMAIN ledger, ledger[s].event = heard'["poll"][i][1]
            PROVE  s <= watermark
        <4>1. i + 1 \in DOMAIN heard["poll"] /\ heard'["poll"][i] = heard["poll"][i + 1]
          BY <1>2, <1>4, <2>2
        <4>2. ledger[s].event = heard["poll"][i + 1][1]
          BY <3>2, <4>1
        <4> QED BY <3>2, <4>1, <4>2 DEF PolledOnce
      <3> QED BY <3>1, <3>2 DEF PolledOnce
    <2> QED BY <1>3, <1>4, <2>1, <2>2
  <1>6. ASSUME NEW e \in Events, Pending(e)'
        PROVE  Pending(e)
    <2>1. ASSUME NEW u \in Tasks, NEW i \in DOMAIN heard'[u], heard'[u][i][1] = e
          PROVE  Pending(e)
      <3>1. CASE heard'[u] = heard[u]
        BY <2>1, <3>1 DEF Pending
      <3>2. CASE heard[u] # <<>> /\ heard'[u] = Tail(heard[u])
        BY <1>2, <2>1, <3>2 DEF Pending
      <3> QED BY <1>3, <3>1, <3>2
    <2>2. CASE \/ \E i \in DOMAIN bus : bus[i] = e
               \/ stage[e] = "persisted"
               \/ "poll" \in listening /\ \E s \in DOMAIN ledger : ledger[s].event = e /\ s > watermark
      BY <2>2 DEF Pending
    <2> QED BY <1>6, <2>1, <2>2 DEF Pending
  <1>7. ASSUME NEW r \in Recipes, NEW e \in Events, CliDone(r, e)
        PROVE  CliDone(r, e)'
    <2>1. "poll" \in listening => \A s \in DOMAIN ledger : ledger[s].event = e => s <= watermark
      BY <1>7 DEF CliDone
    <2>2. ASSUME NEW i \in DOMAIN heard'["poll"], heard'["poll"][i][1] = e
          PROVE  /\ i = 1
                 /\ \/ r \notin left'["poll"]
                    \/ firing'["poll"] # 0 /\ rows'[firing'["poll"]].recipe = r
      <3>1. CASE heard'["poll"] = heard["poll"]
        <4>1. /\ i = 1
              /\ \/ r \notin left["poll"]
                 \/ firing["poll"] # 0 /\ rows[firing["poll"]].recipe = r
          BY <1>7, <2>2, <3>1 DEF CliDone
        <4>2. firing["poll"] # 0 => firing["poll"] \in DOMAIN rows /\ rows'[firing["poll"]].recipe = rows[firing["poll"]].recipe
          BY <1>4 DEF Safe, Executing, RowsStay
        <4>3. CASE t = "poll"
          <5>1. heard[t] # Tail(heard[t]) \/ heard[t] = <<>>
            <6>1. \A q \in Seq(Occurrence) : q # <<>> => Len(q) \in Nat /\ Len(Tail(q)) = Len(q) - 1
              OBVIOUS
            <6>2. \A n \in Nat : n # n - 1
              OBVIOUS
            <6> QED BY <1>1, <6>1, <6>2
          <5> QED BY <3>1, <4>1, <4>2, <4>3, <5>1
        <4>4. CASE t # "poll"
          BY <1>4, <4>1, <4>2, <4>4
        <4> QED BY <4>3, <4>4
      <3>2. CASE heard["poll"] # <<>> /\ heard'["poll"] = Tail(heard["poll"])
        <4>1. i + 1 \in DOMAIN heard["poll"] /\ heard["poll"][i + 1][1] = e /\ i \in Nat \ {0}
          BY <1>2, <1>4, <2>2, <3>2
        <4>2. i + 1 = 1
          BY <1>7, <4>1 DEF CliDone
        <4> QED BY <4>1, <4>2
      <3> QED BY <1>3, <1>4, <3>1, <3>2
    <2> QED BY <2>1, <2>2 DEF CliDone
  <1> QED BY <1>5, <1>6, <1>7

\* What a task that is done with a recipe has left.
LEMMA DoneGoesOn ==
  ASSUME Safe, NEW t \in Tasks, NEW r, heard[t] # <<>>, Done(t, left[t] \ {r})
  PROVE  /\ \A u \in Tasks \ {t} : heard'[u] = heard[u] /\ left'[u] = left[u]
         /\ \/ heard'[t] = Tail(heard[t])
            \/ heard'[t] = heard[t] /\ left'[t] = left[t] \ {r}
  <1>1. left[t] \ {r} \in SUBSET Recipes /\ TaskTypes
    BY DEF Safe, Types, TaskTypes
  <1> QED BY <1>1, DoneEffect

LEMMA SameRows ==
  ASSUME AuditTypes, RowsStay, DOMAIN rows' = DOMAIN rows
  PROVE  /\ \A r \in Recipes, e \in Events : Handled(r, e)' => Handled(r, e)
         /\ FiredOnce => FiredOnce'
  <1>1. \A r \in Recipes, e \in Events : Handled(r, e)' => Handled(r, e)
    BY DEF RowsStay, Handled
  <1>2. ASSUME FiredOnce PROVE FiredOnce'
    BY <1>2 DEF RowsStay, FiredOnce
  <1> QED BY <1>1, <1>2

LEMMA TaskOnce ==
  ASSUME Safe, FinalStays, PolledOnce, Once, FiredOnce, NEW t \in Tasks, RowsStay, DOMAIN rows' = DOMAIN rows,
         UNCHANGED <<stage, ledger, bus, listening, watermark, seen>>,
         \A u \in Tasks \ {t} : heard'[u] = heard[u] /\ left'[u] = left[u] /\ firing'[u] = firing[u],
         \/ heard[t] # <<>> /\ heard'[t] = Tail(heard[t])
         \/ /\ heard'[t] = heard[t] /\ left'[t] \subseteq left[t]
            /\ \/ firing[t] = 0
               \/ firing'[t] = firing[t]
               \/ rows[firing[t]].recipe \notin left'[t]
  PROVE  PolledOnce' /\ Once' /\ FiredOnce'
  <1>1. /\ PolledOnce'
        /\ \A e \in Events : Pending(e)' => Pending(e)
        /\ \A r \in Recipes, e \in Events : CliDone(r, e) => CliDone(r, e)'
    BY GoesOn
  <1>2. /\ \A r \in Recipes, e \in Events : Handled(r, e)' => Handled(r, e)
        /\ FiredOnce'
    BY SameRows DEF Safe, Types
  <1>3. \A e \in DesktopEvents : stage[e] \in Out /\ Pending(e)' => Pending(e)
    BY <1>1 DEF Events
  <1>4. \A r \in Recipes, e \in CliEvents : Handled(r, e) /\ CliDone(r, e) => CliDone(r, e)'
    BY <1>1 DEF Events
  <1> QED BY <1>1, <1>2, <1>3, <1>4, OnceKept

\* A recipe that has had the event in hand skips it.
LEMMA FiresNew ==
  ASSUME Safe, Once, NEW t \in Tasks, NEW r \in Recipes, NEW e \in Events, e = Current(t),
         heard[t] # <<>>, firing[t] = 0, r \in left[t], Number(t) \notin seen[r]
  PROVE  ~Handled(r, e)
  <1> SUFFICES ASSUME Handled(r, e) PROVE FALSE
    OBVIOUS
  <1>1. /\ 1 \in DOMAIN heard[t] /\ heard[t][1][1] = e
        /\ e \in DesktopEvents => Number(t) = number[e]
    BY CurrentType DEF Current
  <1>2. CASE e \in DesktopEvents
    <2>1. Pending(e)
      BY <1>1 DEF Pending
    <2> QED BY <1>1, <1>2, <2>1 DEF Once
  <1>3. CASE e \in CliEvents
    <2>1. t = "poll"
      <3>1. t = "bus" => e \in DesktopEvents
        BY <1>1 DEF Safe, InHand
      <3> QED BY <1>3, <3>1, RecipesAssumption DEF Tasks
    <2>2. CliDone(r, e)
      BY <1>3 DEF Once
    <2> QED BY <1>1, <2>1, <2>2 DEF CliDone
  <1> QED BY <1>2, <1>3 DEF Events

\* A claim of the number in hand keeps the others.
LEMMA ClaimKept ==
  ASSUME Few, Safe, NEW t \in Tasks, NEW r \in Recipes, heard[t] # <<>>,
         seen' = [seen EXCEPT ![r] = Claimed(r, Number(t))]
  PROVE  seen'[r] = seen[r] \cup {Number(t)} /\ \A q \in Recipes : seen[q] \subseteq seen'[q]
  <1>1. PICK e \in Events : e = Current(t) /\ Number(t) \in {0, number[e]} /\ Number(t) \in Nat
    BY CurrentType
  <1>2. Claimed(r, Number(t)) = seen[r] \cup {Number(t)}
    BY <1>1, NothingDropped
  <1>3. seen \in [Recipes -> SUBSET Nat]
    BY DEF Safe, Types, TaskTypes
  <1> QED BY <1>2, <1>3

\* A task that enters claims a number, and goes on as it was.
LEMMA EnterOnce ==
  ASSUME Few, Safe, FinalStays, PolledOnce, Once, FiredOnce, NEW t \in Tasks, NEW r \in Recipes, Enter(t, r)
  PROVE  PolledOnce' /\ Once' /\ FiredOnce'
  <1>1. /\ heard[t] # <<>> /\ seen' = [seen EXCEPT ![r] = Claimed(r, Number(t))]
        /\ UNCHANGED <<up, publishers, bus, listening, watermark, heard, left, firing, rows>>
    BY EnterFrame
  <1>2. UNCHANGED <<stage, number, ledger>>
    BY <1>1 DEF publishers
  <1>3. \A q \in Recipes : seen[q] \subseteq seen'[q]
    BY <1>1, ClaimKept
  <1>4. RowsStay /\ DOMAIN rows' = DOMAIN rows
    BY <1>1 DEF RowsStay
  <1>5. /\ PolledOnce'
        /\ \A e \in Events : Pending(e)' => Pending(e)
        /\ \A q \in Recipes, e \in Events : CliDone(q, e) => CliDone(q, e)'
    BY <1>1, <1>2, <1>4, GoesOn
  <1>6. FiredOnce' /\ \A q \in Recipes, e \in Events : Handled(q, e)' => Handled(q, e)
    BY <1>4, SameRows DEF Safe, Types
  <1>7. \A e \in DesktopEvents : stage[e] \in Out /\ Pending(e)' => Pending(e)
    BY <1>5 DEF Events
  <1>8. \A q \in Recipes, e \in CliEvents : Handled(q, e) /\ CliDone(q, e) => CliDone(q, e)'
    BY <1>5 DEF Events
  <1> QED BY <1>3, <1>5, <1>6, <1>7, <1>8, OnceKept

LEMMA FireOnce ==
  ASSUME Safe, FinalStays, PolledOnce, Once, Fresh, FiredOnce, NEW t \in Tasks, NEW r \in Recipes, Fire(t, r)
  PROVE  PolledOnce' /\ Once' /\ FiredOnce'
  <1>1. /\ heard[t] # <<>> /\ firing[t] = 0 /\ r \in holds[t]
        /\ firing' = [firing EXCEPT ![t] = Len(rows')]
        /\ UNCHANGED <<up, publishers, bus, listening, watermark, heard, left, seen, aged>>
    BY FireEffect
  <1>2. PICK row \in RowType :
          /\ row.recipe = r /\ row.event = Current(t) /\ row.asked = FALSE /\ row.verdict = "none"
          /\ rows' = Append(rows, row)
          /\ \/ row.status = "turning" /\ holds'[t] = holds[t]
             \/ row.status = "running" /\ room[t] /\ holds'[t] = {}
    BY FireEffect
  <1>3. /\ RowsStay /\ Len(rows') \in DOMAIN rows' \ DOMAIN rows /\ rows'[Len(rows')] = row
        /\ DOMAIN rows' = DOMAIN rows \cup {Len(rows')} /\ \A i \in DOMAIN rows : rows'[i] = rows[i]
        /\ Len(rows') # 0
    <2>1. AuditTypes /\ Len(rows) \in Nat
      BY DEF Safe, Types, AuditTypes
    <2> QED BY <1>1, <1>2, <2>1, RowAdded
  <1>4. PICK e \in Events : e = Current(t) /\ stage[e] \in Out
    BY <1>1, CurrentType
  <1>5. UNCHANGED <<stage, number, ledger, bus, listening, watermark, heard, left, seen>>
    BY <1>1 DEF publishers
  <1>6. ~Handled(r, e) /\ (e \in DesktopEvents => number[e] \in seen[r])
    BY <1>1, <1>4 DEF Fresh
  <1>7. FiredOnce'
    <2> SUFFICES ASSUME NEW i \in DOMAIN rows', NEW j \in DOMAIN rows',
                        rows'[i].recipe = rows'[j].recipe, rows'[i].event = rows'[j].event
                 PROVE  i = j
      BY DEF FiredOnce
    <2>1. \A k \in DOMAIN rows : ~(rows[k].recipe = r /\ rows[k].event = e)
      BY <1>6 DEF Handled
    <2>2. row.recipe = r /\ row.event = e
      BY <1>2, <1>4
    <2>3. CASE i \in DOMAIN rows /\ j \in DOMAIN rows
      BY <1>3, <2>3 DEF FiredOnce
    <2>4. CASE i \in DOMAIN rows /\ j = Len(rows')
      BY <1>3, <2>1, <2>2, <2>4
    <2>5. CASE i = Len(rows') /\ j \in DOMAIN rows
      BY <1>3, <2>1, <2>2, <2>5
    <2> QED BY <1>3, <2>3, <2>4, <2>5
  <1>8. firing'[t] = Len(rows') /\ \A u \in Tasks \ {t} : firing'[u] = firing[u]
    BY <1>1 DEF Safe, Types, TaskTypes
  <1>9. /\ PolledOnce'
        /\ \A f \in Events : Pending(f)' => Pending(f)
        /\ \A q \in Recipes, f \in Events : CliDone(q, f) => CliDone(q, f)'
    BY <1>1, <1>3, <1>5, <1>8, GoesOn
  <1>10. ASSUME e \in CliEvents PROVE CliDone(r, e)'
    <2>1. t = "poll" /\ "poll" \in Tasks
      <3>1. heard[t][1][1] = e /\ 1 \in DOMAIN heard[t]
        BY <1>1, <1>4, CurrentType DEF Current
      <3>2. t = "bus" => e \in DesktopEvents
        BY <3>1 DEF Safe, InHand
      <3> QED BY <1>10, <3>2, RecipesAssumption DEF Tasks
    <2>2. heard["poll"][1][1] = e /\ 1 \in DOMAIN heard["poll"]
      BY <1>1, <1>4, <2>1, CurrentType DEF Current
    <2>3. \A s \in DOMAIN ledger : ledger[s].event = e => s <= watermark
      BY <2>2 DEF PolledOnce
    <2>4. \A i \in DOMAIN heard["poll"] : heard["poll"][i][1] = e => i = 1
      BY <2>2 DEF PolledOnce
    <2>5. firing'["poll"] # 0 /\ rows'[firing'["poll"]].recipe = r
      BY <1>2, <1>3, <1>8, <2>1
    <2> QED BY <1>5, <2>3, <2>4, <2>5 DEF CliDone
  <1>11. Once'
    <2> SUFFICES ASSUME NEW q \in Recipes, NEW f \in Events, Handled(q, f)'
                 PROVE  /\ f \in DesktopEvents /\ Pending(f)' => number'[f] \in seen'[q]
                        /\ f \in CliEvents => CliDone(q, f)'
      BY DEF Once
    <2>1. Handled(q, f) \/ (q = r /\ f = e)
      <3>1. PICK i \in DOMAIN rows' : rows'[i].recipe = q /\ rows'[i].event = f
        BY DEF Handled
      <3>2. CASE i = Len(rows')
        BY <1>2, <1>3, <1>4, <3>1, <3>2
      <3>3. CASE i \in DOMAIN rows
        BY <1>3, <3>1, <3>3 DEF Handled
      <3> QED BY <1>3, <3>2, <3>3
    <2>2. CASE Handled(q, f)
      <3>1. f \in DesktopEvents /\ Pending(f) => number[f] \in seen[q]
        BY <2>2 DEF Once
      <3>2. f \in CliEvents => CliDone(q, f)
        BY <2>2 DEF Once
      <3> QED BY <1>5, <1>9, <3>1, <3>2
    <2>3. CASE q = r /\ f = e
      BY <1>5, <1>6, <1>10, <2>3
    <2> QED BY <2>1, <2>2, <2>3
  <1> QED BY <1>7, <1>9, <1>11

\* Rows of the same recipes and events, or one more, which only a firing writes.
LEMMA OnlyFiresHandle ==
  ASSUME Safe, Next, \A t \in Tasks, r \in Recipes : ~Fire(t, r)
  PROVE  \A r \in Recipes, e \in Events : Handled(r, e)' => Handled(r, e)
  <1>1. ASSUME RowsStay, DOMAIN rows' = DOMAIN rows
        PROVE  \A r \in Recipes, e \in Events : Handled(r, e)' => Handled(r, e)
    BY <1>1, SameRows DEF Safe, Types
  <1>2. ASSUME UNCHANGED rows
        PROVE  \A r \in Recipes, e \in Events : Handled(r, e)' => Handled(r, e)
    BY <1>2 DEF Handled
  <1>3. ASSUME NEW j \in DOMAIN rows, NEW status, NEW asked, NEW verdict, RowMoves(j, status, asked, verdict)
        PROVE  \A r \in Recipes, e \in Events : Handled(r, e)' => Handled(r, e)
    <2>1. RowsStay /\ DOMAIN rows' = DOMAIN rows
      BY <1>3, RowChanged DEF RowMoves, Safe, Types
    <2> QED BY <1>1, <2>1
  <1> DEFINE Goal == \A r \in Recipes, e \in Events : Handled(r, e)' => Handled(r, e)
  <1> HIDE DEF Goal
  <1>4. ASSUME UNCHANGED rows PROVE Goal
    BY <1>2, <1>4 DEF Goal
  <1>5. ASSUME NEW j \in DOMAIN rows, NEW status, NEW asked, NEW verdict, RowMoves(j, status, asked, verdict)
        PROVE  Goal
    BY <1>3, <1>5 DEF Goal
  <1>6. ASSUME NEW e \in Events, Reserve(e) \/ Persist(e) \/ Send(e) \/ ReadMax(e) \/ Insert(e) \/ Rewrite(e)
        PROVE  Goal
    BY <1>4, <1>6 DEF Reserve, Persist, Send, ReadMax, Insert, Rewrite, audit
  <1>7. ASSUME Subscribe \/ Bootstrap \/ Receive \/ Poll \/ Age \/ Crash \/ Boot
        PROVE  Goal
    <2>1. UNCHANGED rows
      BY <1>7 DEF Subscribe, Bootstrap, Receive, Poll, Age, Crash, Boot, audit
    <2> QED BY <1>4, <2>1
  <1>8. ASSUME NEW t \in Tasks, Finish(t) \/ TurnAway(t) \/ Park(t)
        PROVE  Goal
    BY <1>5, <1>8, FinishMoves, TurnAwayMoves, ParkMoves
  <1>9. ASSUME NEW t \in Tasks, Unpark(t) \/ Miss(t)
        PROVE  Goal
    BY <1>4, <1>9 DEF Unpark, Miss, audit
  <1>10. ASSUME NEW t \in Tasks, NEW r \in Recipes, Skip(t, r) \/ Enter(t, r) \/ Fire(t, r)
         PROVE  Goal
    BY <1>4, <1>10 DEF Skip, Enter, audit
  <1>11. ASSUME NEW t \in Tasks, Engine(t) \/ Miss(t)
         PROVE  Goal
    BY <1>8, <1>9, <1>11, <1>10 DEF Engine
  <1>12. ASSUME NEW i \in DOMAIN rows, Resume(i) \/ \E verdict \in {"approved", "denied"} : Decide(i, verdict)
         PROVE  Goal
    BY <1>5, <1>12, ResumeMoves, DecideMoves
  <1>13. Goal
    BY <1>6, <1>7, <1>11, <1>12 DEF Next
  <1> QED BY <1>13 DEF Goal

\* Claims are kept while the desktop is up.
LEMMA ClaimsKept ==
  ASSUME Few, Safe, Next, ~Crash
  PROVE  \A q \in Recipes : seen[q] \subseteq seen'[q]
  <1>1. ASSUME UNCHANGED seen PROVE \A q \in Recipes : seen[q] \subseteq seen'[q]
    BY <1>1
  <1>2. ASSUME NEW t \in Tasks, NEW r \in Recipes, Enter(t, r)
        PROVE  \A q \in Recipes : seen[q] \subseteq seen'[q]
    BY <1>2, EnterFrame, ClaimKept
  <1>3. ASSUME NEW e \in Events, Reserve(e) \/ Persist(e) \/ Send(e) \/ ReadMax(e) \/ Insert(e) \/ Rewrite(e)
        PROVE  UNCHANGED seen
    BY <1>3 DEF Reserve, Persist, Send, ReadMax, Insert, Rewrite
  <1>4. ASSUME Subscribe \/ Bootstrap \/ Receive \/ Poll \/ Age \/ Boot
        PROVE  UNCHANGED seen
    BY <1>4 DEF Subscribe, Bootstrap, Receive, Poll, Age, Boot
  <1>5. ASSUME NEW t \in Tasks, \/ Finish(t) \/ TurnAway(t) \/ Park(t) \/ Unpark(t) \/ Miss(t)
                                \/ \E r \in Recipes : Skip(t, r) \/ Fire(t, r)
        PROVE  UNCHANGED seen
    BY <1>5 DEF Finish, TurnAway, Park, Unpark, Miss, Skip, Fire
  <1>6. ASSUME NEW i \in DOMAIN rows, Resume(i) \/ \E verdict \in {"approved", "denied"} : Decide(i, verdict)
        PROVE  UNCHANGED seen
    BY <1>6 DEF Resume, Decide
  <1> DEFINE Kept == \A q \in Recipes : seen[q] \subseteq seen'[q]
  <1> HIDE DEF Kept
  <1>7. UNCHANGED seen => Kept
    BY <1>1 DEF Kept
  <1>8. ASSUME NEW t \in Tasks, Engine(t) \/ Miss(t)
        PROVE  Kept
    <2>1. \A r \in Recipes : Enter(t, r) => Kept
      BY <1>2 DEF Kept
    <2> QED BY <1>5, <1>7, <1>8, <2>1 DEF Engine
  <1>9. Kept
    BY <1>3, <1>4, <1>6, <1>7, <1>8 DEF Next
  <1> QED BY <1>9 DEF Kept

LEMMA FreshStep ==
  ASSUME Few
  PROVE  Safe /\ Once /\ Fresh /\ [Next]_vars => Fresh'
  <1> SUFFICES ASSUME Safe, Once, Fresh, Next PROVE Fresh'
    <2>1. CASE UNCHANGED vars
      BY <2>1 DEF vars, tasks, locks, audit, publishers, Fresh, Handled, Current
    <2> QED BY <2>1
  <1>1. FinalStays
    BY NumbersStay DEF Safe, Types
  <1>2. ASSUME NEW u \in Tasks, NEW q \in holds[u], firing[u] = 0, heard'[u] = heard[u], ~Crash,
               \A f \in Events : Handled(q, f)' => Handled(q, f)
        PROVE  /\ ~Handled(q, Current(u))'
               /\ Current(u)' \in DesktopEvents => number'[Current(u)'] \in seen'[q]
    <2>1. Current(u)' = Current(u)
      BY <1>2 DEF Current
    <2>2. q \in Recipes /\ heard[u] # <<>>
      BY DEF Safe, Types, TaskTypes, Holding
    <2>3. Current(u) \in Events /\ stage[Current(u)] \in Out
      BY <2>2, CurrentType
    <2>4. number'[Current(u)] = number[Current(u)]
      BY <1>1, <2>3 DEF FinalStays
    <2>5. seen[q] \subseteq seen'[q]
      BY <1>2, <2>2, ClaimsKept
    <2>6. ~Handled(q, Current(u)) /\ (Current(u) \in DesktopEvents => number[Current(u)] \in seen[q])
      BY <1>2 DEF Fresh
    <2>7. ~Handled(q, Current(u))'
      <3>1. PICK f \in Events : f = Current(u)
        BY <2>3
      <3>2. ~Handled(q, f)'
        BY <1>2, <2>6, <3>1
      <3>3. f = heard'[u][1][1]
        BY <1>2, <3>1 DEF Current
      <3> QED BY <3>2, <3>3 DEF Handled, Current
    <2> QED BY <2>1, <2>4, <2>5, <2>6, <2>7
  <1>3. CASE Crash
    BY <1>3 DEF Crash, Fresh
  <1>4. ASSUME NEW t \in Tasks, NEW r \in Recipes, Fire(t, r), ~Crash
        PROVE  Fresh'
    <2>1. PICK row \in RowType :
            /\ row.recipe = r /\ row.event = Current(t) /\ row.asked = FALSE /\ row.verdict = "none"
            /\ rows' = Append(rows, row)
            /\ \/ row.status = "turning" /\ holds'[t] = holds[t]
               \/ row.status = "running" /\ room[t] /\ holds'[t] = {}
      BY <1>4, FireEffect
    <2>2. /\ r \in holds[t] /\ firing' = [firing EXCEPT ![t] = Len(rows')] /\ heard' = heard
          /\ \A u \in Tasks \ {t} : holds'[u] = holds[u]
      BY <1>4, FireEffect
    <2>3. rows \in Seq(RowType) /\ firing \in [Tasks -> Nat]
      BY DEF Safe, Types, AuditTypes, TaskTypes
    <2>4. /\ Len(rows') # 0 /\ DOMAIN rows' = DOMAIN rows \cup {Len(rows')} /\ rows'[Len(rows')] = row
          /\ \A i \in DOMAIN rows : rows'[i] = rows[i]
      BY <2>1, <2>3
    <2> SUFFICES ASSUME NEW u \in Tasks, NEW q \in holds'[u], firing'[u] = 0
                 PROVE  /\ ~Handled(q, Current(u))'
                        /\ Current(u)' \in DesktopEvents => number'[Current(u)'] \in seen'[q]
      BY DEF Fresh
    <2>5. u # t /\ q \in holds[u] /\ firing[u] = 0 /\ heard'[u] = heard[u]
      BY <2>2, <2>3, <2>4
    <2>6. q # r
      BY <2>2, <2>5 DEF Safe, Holding
    <2>7. \A f \in Events : Handled(q, f)' => Handled(q, f)
      BY <2>1, <2>4, <2>6 DEF Handled
    <2> QED BY <1>2, <1>4, <2>5, <2>7
  <1>5. ASSUME NEW t \in Tasks, NEW r \in Recipes, Enter(t, r), ~Crash
        PROVE  Fresh'
    <2>1. /\ heard[t] # <<>> /\ firing[t] = 0 /\ r \in left[t] /\ Number(t) \notin seen[r]
          /\ seen' = [seen EXCEPT ![r] = Claimed(r, Number(t))] /\ holds'[t] = {r}
          /\ \A u \in Tasks \ {t} : holds'[u] = holds[u]
          /\ UNCHANGED <<publishers, heard, firing, rows>>
      BY <1>5, EnterFrame
    <2>2. PICK e \in Events : e = Current(t) /\ (e \in DesktopEvents => Number(t) = number[e])
      BY <2>1, CurrentType
    <2>3. ~Handled(r, e)
      BY <2>1, <2>2, FiresNew
    <2>4. seen'[r] = seen[r] \cup {Number(t)}
      BY <2>1, ClaimKept
    <2> SUFFICES ASSUME NEW u \in Tasks, NEW q \in holds'[u], firing'[u] = 0
                 PROVE  /\ ~Handled(q, Current(u))'
                        /\ Current(u)' \in DesktopEvents => number'[Current(u)'] \in seen'[q]
      BY DEF Fresh
    <2>5. CASE u = t
      <3>1. q = r /\ Current(u)' = e /\ number' = number
        BY <2>1, <2>2, <2>5 DEF Current, publishers
      <3>2. ~Handled(q, Current(u))'
        BY <2>1, <2>2, <2>3, <2>5, <3>1 DEF Handled, Current
      <3> QED BY <2>2, <2>4, <3>1, <3>2
    <2>6. CASE u # t
      <3>1. q \in holds[u] /\ firing[u] = 0 /\ heard'[u] = heard[u]
        BY <2>1, <2>6
      <3>2. \A f \in Events : Handled(q, f)' => Handled(q, f)
        BY <2>1 DEF Handled
      <3> QED BY <1>2, <1>5, <3>1, <3>2
    <2> QED BY <2>5, <2>6
  <1>6. ASSUME ~Crash, \A t \in Tasks, r \in Recipes : ~Fire(t, r) /\ ~Enter(t, r)
        PROVE  Fresh'
    <2>1. NoneEnters
      BY <1>6, NoneEntered
    <2>2. \A r \in Recipes, e \in Events : Handled(r, e)' => Handled(r, e)
      BY <1>6, OnlyFiresHandle
    <2> SUFFICES ASSUME NEW u \in Tasks, NEW q \in holds'[u], firing'[u] = 0
                 PROVE  /\ ~Handled(q, Current(u))'
                        /\ Current(u)' \in DesktopEvents => number'[Current(u)'] \in seen'[q]
      BY DEF Fresh
    <2>3. q \in holds[u] /\ firing[u] = 0 /\ heard'[u] = heard[u]
      BY <2>1 DEF NoneEnters
    <2>4. q \in Recipes
      BY <2>3 DEF Safe, Types, TaskTypes
    <2> QED BY <1>2, <1>6, <2>2, <2>3, <2>4
  <1> QED BY <1>3, <1>4, <1>5, <1>6

LEMMA CrashOnce ==
  ASSUME Safe, FinalStays, FiredOnce, Crash
  PROVE  PolledOnce' /\ Once' /\ FiredOnce'
  <1>1. /\ bus' = <<>> /\ listening' = {} /\ heard' = [t \in Tasks |-> <<>>] /\ UNCHANGED rows
        /\ stage' = [e \in Events |-> IF e \in DesktopEvents /\ stage[e] \in {"reserved", "persisted"}
                                      THEN "lost" ELSE stage[e]]
    BY DEF Crash, audit
  <1>2. /\ DOMAIN bus' = {} /\ \A t \in Tasks : heard'[t] = <<>> /\ DOMAIN heard'[t] = {}
        /\ "poll" \in Tasks
    BY <1>1 DEF Tasks
  <1>3. \A e \in DesktopEvents : stage'[e] # "persisted"
    BY <1>1 DEF Events
  <1>4. \A e \in DesktopEvents : ~Pending(e)'
    BY <1>1, <1>2, <1>3 DEF Pending
  <1>5. \A r \in Recipes, e \in CliEvents : CliDone(r, e)'
    BY <1>1, <1>2 DEF CliDone
  <1> QED BY <1>1, <1>2, <1>4, <1>5 DEF PolledOnce, Once, FiredOnce

LEMMA OnceStep ==
  ASSUME Few
  PROVE  Safe /\ PolledOnce /\ Once /\ Fresh /\ FiredOnce /\ [Next]_vars => PolledOnce' /\ Once' /\ FiredOnce'
  <1> SUFFICES ASSUME Safe, PolledOnce, Once, Fresh, FiredOnce, [Next]_vars
               PROVE  PolledOnce' /\ Once' /\ FiredOnce'
    OBVIOUS
  <1>1. FinalStays /\ AuditTypes /\ "bus" \in Tasks
    BY NumbersStay DEF Safe, Types, Tasks
  <1>2. ASSUME UNCHANGED rows PROVE FiredOnce'
    BY <1>2 DEF FiredOnce
  <1>3. ASSUME NEW e \in Events, Reserve(e) \/ Persist(e) \/ Send(e) \/ ReadMax(e) \/ Insert(e) \/ Rewrite(e)
        PROVE  PolledOnce' /\ Once' /\ FiredOnce'
    <2>1. UNCHANGED rows
      BY <1>3 DEF Reserve, Persist, Send, ReadMax, Insert, Rewrite, audit
    <2> QED BY <1>1, <1>2, <1>3, <2>1, PublishersOnce
  <1>4. CASE Subscribe \/ Bootstrap \/ Receive \/ Poll
    <2>1. UNCHANGED rows
      BY <1>4 DEF Subscribe, Bootstrap, Receive, Poll, audit
    <2> QED BY <1>1, <1>2, <1>4, <2>1, SubscribeOnce, BootstrapOnce, ReceiveOnce, PollOnce
  <1>5. ASSUME NEW t \in Tasks, Finish(t) \/ TurnAway(t) \/ Unpark(t)
        PROVE  PolledOnce' /\ Once' /\ FiredOnce'
    <2>1. /\ firing[t] # 0 /\ firing' = [firing EXCEPT ![t] = 0] /\ Done(t, left[t] \ {rows[firing[t]].recipe})
          /\ UNCHANGED <<up, publishers, bus, listening, watermark, seen>>
      BY <1>5 DEF Finish, TurnAway, Unpark
    <2>2. heard[t] # <<>> /\ firing \in [Tasks -> Nat] /\ firing[t] \in DOMAIN rows
      BY <2>1 DEF Safe, Types, TaskTypes, Executing
    <2>3. RowsStay /\ DOMAIN rows' = DOMAIN rows
      <3>1. CASE Finish(t)
        <4>1. RowMoves(firing[t], "done", rows[firing[t]].asked, rows[firing[t]].verdict)
          BY <3>1, FinishMoves
        <4> QED BY <1>1, <2>2, <4>1, RowChanged DEF RowMoves
      <3>2. CASE TurnAway(t)
        <4>1. RowMoves(firing[t], "rate_limited", rows[firing[t]].asked, rows[firing[t]].verdict)
          BY <3>2, TurnAwayMoves
        <4> QED BY <1>1, <2>2, <4>1, RowChanged DEF RowMoves
      <3>3. CASE Unpark(t)
        BY <3>3 DEF Unpark, audit, RowsStay
      <3> QED BY <1>5, <3>1, <3>2, <3>3
    <2>4. /\ \A u \in Tasks \ {t} : heard'[u] = heard[u] /\ left'[u] = left[u]
          /\ \/ heard'[t] = Tail(heard[t])
             \/ heard'[t] = heard[t] /\ left'[t] = left[t] \ {rows[firing[t]].recipe}
      BY <2>1, <2>2, DoneGoesOn
    <2>5. \A u \in Tasks \ {t} : firing'[u] = firing[u]
      BY <2>1, <2>2
    <2>6. UNCHANGED <<stage, ledger, bus, listening, watermark, seen>>
      BY <2>1 DEF publishers
    <2>7. \/ heard[t] # <<>> /\ heard'[t] = Tail(heard[t])
          \/ /\ heard'[t] = heard[t] /\ left'[t] \subseteq left[t]
             /\ \/ firing[t] = 0
                \/ firing'[t] = firing[t]
                \/ rows[firing[t]].recipe \notin left'[t]
      BY <2>2, <2>4
    <2> QED BY <1>1, <2>3, <2>4, <2>5, <2>6, <2>7, TaskOnce
  <1>6. ASSUME NEW t \in Tasks, NEW r \in Recipes, Skip(t, r)
        PROVE  PolledOnce' /\ Once' /\ FiredOnce'
    <2>1. /\ heard[t] # <<>> /\ firing[t] = 0 /\ Done(t, left[t] \ {r})
          /\ UNCHANGED <<up, publishers, bus, listening, watermark, firing, seen, rows>>
      BY <1>6 DEF Skip, Free, Idle, audit
    <2>2. /\ \A u \in Tasks \ {t} : heard'[u] = heard[u] /\ left'[u] = left[u]
          /\ \/ heard'[t] = Tail(heard[t])
             \/ heard'[t] = heard[t] /\ left'[t] = left[t] \ {r}
      BY <2>1, DoneGoesOn
    <2>3. RowsStay /\ DOMAIN rows' = DOMAIN rows
      BY <2>1 DEF RowsStay
    <2>4. UNCHANGED <<stage, ledger, bus, listening, watermark, seen>>
      BY <2>1 DEF publishers
    <2>5. \/ heard[t] # <<>> /\ heard'[t] = Tail(heard[t])
          \/ heard'[t] = heard[t] /\ left'[t] \subseteq left[t]
      BY <2>1, <2>2
    <2> QED BY <1>1, <2>1, <2>2, <2>3, <2>4, <2>5, TaskOnce
  <1>7. ASSUME NEW t \in Tasks, Miss(t)
        PROVE  PolledOnce' /\ Once' /\ FiredOnce'
    <2>1. /\ heard[t] # <<>> /\ heard' = [heard EXCEPT ![t] = Tail(heard[t])]
          /\ UNCHANGED <<stage, ledger, bus, listening, watermark, left, firing, seen, rows>>
      BY <1>7 DEF Miss, Idle, audit, publishers
    <2>2. heard'[t] = Tail(heard[t]) /\ \A u \in Tasks \ {t} : heard'[u] = heard[u]
      BY <2>1 DEF Safe, Types, TaskTypes
    <2>3. RowsStay /\ DOMAIN rows' = DOMAIN rows
      BY <2>1 DEF RowsStay
    <2> QED BY <1>1, <2>1, <2>2, <2>3, TaskOnce
  <1>8. ASSUME UNCHANGED <<stage, ledger, bus, listening, watermark, heard, left, firing, seen>>,
               RowsStay, DOMAIN rows' = DOMAIN rows
        PROVE  PolledOnce' /\ Once' /\ FiredOnce'
    BY <1>1, <1>8, TaskOnce
  <1>9. ASSUME NEW j \in DOMAIN rows, NEW status, NEW asked, NEW verdict, RowMoves(j, status, asked, verdict)
        PROVE  RowsStay /\ DOMAIN rows' = DOMAIN rows
    BY <1>1, <1>9, RowChanged DEF RowMoves
  <1>10. ASSUME NEW t \in Tasks, Park(t)
         PROVE  PolledOnce' /\ Once' /\ FiredOnce'
    <2>1. RowsStay /\ DOMAIN rows' = DOMAIN rows
      BY <1>9, <1>10, ParkMoves
    <2> QED BY <1>8, <1>10, <2>1 DEF Park, publishers, tasks
  <1>11. ASSUME NEW k \in DOMAIN rows, Resume(k)
         PROVE  PolledOnce' /\ Once' /\ FiredOnce'
    <2>1. RowsStay /\ DOMAIN rows' = DOMAIN rows
      BY <1>9, <1>11, ResumeMoves
    <2> QED BY <1>8, <1>11, <2>1 DEF Resume, publishers, tasks
  <1>12. ASSUME NEW k \in DOMAIN rows, NEW verdict \in {"approved", "denied"}, Decide(k, verdict)
         PROVE  PolledOnce' /\ Once' /\ FiredOnce'
    <2>1. RowsStay /\ DOMAIN rows' = DOMAIN rows
      BY <1>9, <1>12, DecideMoves
    <2> QED BY <1>8, <1>12, <2>1 DEF Decide, publishers, tasks
  <1>13. CASE Age \/ Boot \/ UNCHANGED vars
    <2>1. UNCHANGED <<stage, ledger, bus, listening, watermark, heard, left, firing, seen, rows>>
      BY <1>13 DEF Age, Boot, vars, publishers, tasks, audit
    <2> QED BY <1>8, <2>1 DEF RowsStay
  <1>14. CASE Crash
    BY <1>1, <1>14, CrashOnce
  <1>15. ASSUME NEW t \in Tasks, NEW r \in Recipes, Enter(t, r) \/ Fire(t, r)
         PROVE  PolledOnce' /\ Once' /\ FiredOnce'
    BY <1>1, <1>15, EnterOnce, FireOnce
  <1>16. ASSUME NEW t \in Tasks, Engine(t) \/ Miss(t)
         PROVE  PolledOnce' /\ Once' /\ FiredOnce'
    BY <1>5, <1>6, <1>7, <1>10, <1>15, <1>16 DEF Engine
  <1> QED BY <1>3, <1>4, <1>11, <1>12, <1>13, <1>14, <1>16 DEF Next

\* handle_event, claim_recipe_event and poll_events_log: while the numbers of all events
\* fit into the cache of claims, no recipe has two rows for one event, though the bus and
\* the poll both bring it, and not after a restart of the desktop either.
THEOREM FiredOnceAlways == ASSUME Few PROVE Spec => []FiredOnce
  <1>1. Init => PolledOnce /\ Once /\ Fresh /\ FiredOnce
    BY DEF Init, PolledOnce, Once, Fresh, FiredOnce, Handled, Tasks
  <1>2. Safe /\ PolledOnce /\ Once /\ Fresh /\ FiredOnce /\ [Next]_vars
          => PolledOnce' /\ Once' /\ Fresh' /\ FiredOnce'
    BY OnceStep, FreshStep
  <1> QED BY <1>1, <1>2, SafeAlways, PTL DEF Spec
=============================================================================
