-------------------------- MODULE MasterKey_proofs --------------------------
(***************************************************************************)
(* MasterKey for every number of calls, keys and rows.                      *)
(***************************************************************************)
EXTENDS MasterKey, TLAPS

-----------------------------------------------------------------------------
(* Types *)

LEMMA ActiveType == Active \in Versions
  BY DEF Active, Versions

LEMMA IdleType == Idle \in CallType
  BY DEF Idle, CallType, Pcs, Threads, Versions, KeyOrNone

LEMMA FreshType == Fresh \subseteq Keys
  BY DEF Fresh

\* a call that goes on as a call leaves calls calls
LEMMA GoType ==
  ASSUME TypeOK, NEW c \in Calls, NEW rec \in CallType, Go(c, rec)
  PROVE  calls' \in [Calls -> CallType] /\ lock' \in [Desktops -> Calls \cup {NoCall}]
  BY DEF TypeOK, Go

LEMMA GoToType ==
  ASSUME TypeOK, NEW c \in Calls, NEW pc \in Pcs, GoTo(c, pc)
  PROVE  calls' \in [Calls -> CallType] /\ lock' \in [Desktops -> Calls \cup {NoCall}]
  <1>1. [calls[c] EXCEPT !.pc = pc] \in CallType
    BY DEF TypeOK, CallType
  <1> QED BY <1>1, GoType DEF GoTo

LEMMA EndType ==
  ASSUME TypeOK, NEW c \in Calls, End(c)
  PROVE  calls' \in [Calls -> CallType] /\ lock' \in [Desktops -> Calls \cup {NoCall}]
  BY IdleType, GoType DEF End

\* where a call goes on once it has its key
LEMMA AfterCases ==
  ASSUME NEW c \in Calls, NEW k
  PROVE  \/ /\ calls[c].kind = "save" /\ calls[c].sealed = NoKey
            /\ After(c, k) = [calls[c] EXCEPT !.pc = "resolve", !.sealed = k]
         \/ /\ calls[c].kind = "save" /\ calls[c].sealed = k
            /\ After(c, k) = [calls[c] EXCEPT !.pc = "write"]
         \/ /\ calls[c].kind = "resync"
            /\ After(c, k) = [calls[c] EXCEPT !.pc = "resync", !.key = k]
         \/ After(c, k) = Idle
  BY DEF After

LEMMA AfterType ==
  ASSUME TypeOK, NEW c \in Calls, NEW k \in KeyOrNone
  PROVE  After(c, k) \in CallType
  <1>1. calls[c] \in CallType
    BY DEF TypeOK
  <1>2. [calls[c] EXCEPT !.pc = "resolve", !.sealed = k] \in CallType
    BY <1>1 DEF CallType, Pcs
  <1>3. [calls[c] EXCEPT !.pc = "write"] \in CallType
    BY <1>1 DEF CallType, Pcs
  <1>4. [calls[c] EXCEPT !.pc = "resync", !.key = k] \in CallType
    BY <1>1 DEF CallType, Pcs
  <1> QED BY <1>2, <1>3, <1>4, IdleType, AfterCases

LEMMA InitType == Init => TypeOK
  <1> SUFFICES ASSUME Init
               PROVE  TypeOK
    OBVIOUS
  <1>1. keychain \in [Versions -> KeyOrNone]
    BY DEF Init, KeyOrNone
  <1>2. ledger \in [Versions -> LedgerRow]
    BY DEF Init, LedgerRow, KeyOrNone
  <1>3. "v1" \in Versions
    BY DEF Versions
  <1>4. keychain["v1"] \in KeyOrNone
    BY <1>1, <1>3
  <1>5. [NoRow EXCEPT !.key = keychain["v1"]] \in [key : KeyOrNone, version : Versions]
    BY <1>3, <1>4 DEF NoRow
  <1>6. rows \in [Rows -> [key : KeyOrNone, version : Versions]]
    BY <1>5 DEF Init
  <1>7. NoCache \in [account : Versions, key : KeyOrNone]
    BY <1>3 DEF NoCache, KeyOrNone
  <1>8. cache \in [Desktops -> [account : Versions, key : KeyOrNone]]
    BY <1>7 DEF Init
  <1>9. calls \in [Calls -> CallType]
    BY IdleType DEF Init
  <1> QED BY <1>1, <1>2, <1>6, <1>8, <1>9 DEF Init, TypeOK

LEMMA BeginType ==
  ASSUME TypeOK, NEW c \in Calls
  PROVE  /\ \A d \in Desktops \cup {Cli} : Read(c, d) => TypeOK'
         /\ \A d \in Desktops : Save(c, d) \/ Resync(c, d) \/ Rekey(c, d) => TypeOK'
  <1>1. \A d \in Desktops \cup {Cli} :
          [Idle EXCEPT !.pc = "resolve", !.kind = "read", !.desktop = d] \in CallType
    BY IdleType DEF CallType, Pcs
  <1>2. ASSUME NEW d \in Desktops \cup {Cli}, Read(c, d)
        PROVE  TypeOK'
    BY <1>1, <1>2, GoType DEF Read, store, TypeOK
  <1>3. ASSUME NEW d \in Desktops, NEW kind \in {"save", "rekey", "resync"},
               NEW pc \in Pcs, Command(c, d, kind, pc)
        PROVE  TypeOK'
    <2>1. [Idle EXCEPT !.pc = pc, !.kind = kind, !.desktop = d] \in CallType
      BY IdleType DEF CallType
    <2> QED BY <1>3, <2>1 DEF Command, store, TypeOK
  <1>4. "resolve" \in Pcs /\ "mint" \in Pcs
    BY DEF Pcs
  <1> QED BY <1>2, <1>3, <1>4 DEF Save, Resync, Rekey

LEMMA ResolvingType ==
  ASSUME TypeOK, NEW c \in Calls, Resolving(c)
  PROVE  TypeOK'
  <1>0. /\ calls[c] \in CallType
        /\ calls[c].account \in Versions /\ calls[c].key \in KeyOrNone
        /\ calls[c].desktop \in Desktops \cup {Cli}
        /\ keychain[calls[c].account] \in KeyOrNone
    BY DEF TypeOK, CallType
  <1>1. CASE CacheHit(c)
    <2>1. cache[calls[c].desktop].key \in KeyOrNone
      BY <1>0, <1>1 DEF CacheHit, TypeOK
    <2> QED BY <1>1, <2>1, AfterType, GoType DEF CacheHit, store, TypeOK
  <1>2. CASE CacheMiss(c)
    <2>1. PICK account \in {Active} \cup (IF LookupFails THEN {"v1"} ELSE {}) :
            Go(c, [calls[c] EXCEPT !.pc = "get", !.account = account])
      BY <1>2 DEF CacheMiss
    <2>2. account \in Versions
      BY ActiveType DEF Versions
    <2>3. [calls[c] EXCEPT !.pc = "get", !.account = account] \in CallType
      BY <1>0, <2>2 DEF CallType, Pcs, Threads
    <2> QED BY <1>2, <2>1, <2>3, GoType DEF CacheMiss, store, TypeOK
  <1>3. CASE GetPassword(c)
    <2>1. /\ [calls[c] EXCEPT !.pc = "first"] \in CallType
          /\ [calls[c] EXCEPT !.pc = "stamp", !.key = keychain[calls[c].account]] \in CallType
      BY <1>0 DEF CallType, Pcs, Threads
    <2> QED BY <1>3, <2>1, GoType DEF GetPassword, store, TypeOK
  <1>4. CASE Denied(c)
    BY <1>4, EndType DEF Denied, store, TypeOK
  <1>5. CASE FirstRun(c)
    <2>1. "set" \in Pcs
      BY DEF Pcs, Threads
    <2> QED BY <1>5, <2>1, EndType, GoToType DEF FirstRun, store, TypeOK
  <1>6. CASE SetPassword(c)
    <2>1. "confirm" \in Pcs
      BY DEF Pcs, Threads
    <2>2. keychain' \in [Versions -> KeyOrNone]
      BY <1>6, FreshType DEF SetPassword, TypeOK, KeyOrNone
    <2> QED BY <1>6, <2>1, <2>2, GoToType DEF SetPassword, TypeOK
  <1>7. CASE Confirm(c)
    <2>1. [calls[c] EXCEPT !.pc = "stamp", !.key = keychain[calls[c].account]] \in CallType
      BY <1>0 DEF CallType, Pcs, Threads
    <2> QED BY <1>7, <2>1, EndType, GoType DEF Confirm, store, TypeOK
  <1>8. CASE Stamp(c)
    <2>1. "canary" \in Pcs
      BY DEF Pcs
    <2> QED BY <1>8, <2>1, EndType, GoToType DEF Stamp, TypeOK
  <1>9. CASE TimeOut(c)
    BY <1>9, ZenonT(40) DEF TimeOut, store, TypeOK, CallType
  <1>10. CASE LookForCanary(c)
    <2>1. "cache" \in Pcs /\ "plant" \in Pcs
      BY DEF Pcs
    <2> QED BY <1>10, <2>1, GoToType DEF LookForCanary, store, TypeOK
  <1>11. CASE PlantCanary(c)
    <2>1. "cache" \in Pcs
      BY DEF Pcs
    <2>2. ledger' \in [Versions -> LedgerRow]
      BY <1>0, <1>11 DEF PlantCanary, TypeOK, LedgerRow
    <2> QED BY <1>11, <2>1, <2>2, GoToType DEF PlantCanary, TypeOK
  <1>12. CASE FillCache(c)
    <2>1. cache' \in [Desktops -> [account : Versions, key : KeyOrNone]]
      BY <1>0, <1>12 DEF FillCache, TypeOK
    <2> QED BY <1>0, <1>12, <2>1, AfterType, GoType DEF FillCache, store, TypeOK
  <1> QED
    BY <1>1, <1>2, <1>3, <1>4, <1>5, <1>6, <1>7, <1>8, <1>9, <1>10, <1>11, <1>12
    DEF Resolving

LEMMA PopulatedType == TypeOK => Populated \in [Versions -> LedgerRow]
  BY ActiveType, ZenonT(40) DEF TypeOK, Populated, LedgerRow

LEMMA CommandingType ==
  ASSUME TypeOK, NEW c \in Calls, Commanding(c)
  PROVE  TypeOK'
  <1>0. calls[c] \in CallType /\ calls[c].key \in KeyOrNone /\ calls[c].sealed \in KeyOrNone
    BY DEF TypeOK, CallType
  <1>1. CASE WriteRow(c)
    <2>1. rows' \in [Rows -> [key : KeyOrNone, version : Versions]]
      BY <1>0, <1>1 DEF WriteRow, TypeOK
    <2> QED BY <1>1, <2>1, EndType DEF WriteRow, TypeOK
  <1>2. CASE MintKey(c)
    <2>1. PICK k \in Keys : /\ keychain' = [keychain EXCEPT !["v2"] = k]
                            /\ Go(c, [calls[c] EXCEPT !.pc = "rekey", !.key = k])
      BY <1>2, FreshType DEF MintKey
    <2>2. [calls[c] EXCEPT !.pc = "rekey", !.key = k] \in CallType
      BY <1>0 DEF CallType, Pcs, KeyOrNone
    <2>3. keychain' \in [Versions -> KeyOrNone]
      BY <2>1 DEF TypeOK, KeyOrNone
    <2> QED BY <1>2, <2>1, <2>2, <2>3, GoType DEF MintKey, TypeOK
  <1>3. CASE Busy(c)
    BY <1>3, EndType DEF Busy, store, TypeOK
  <1>4. CASE DeleteOldKey(c)
    <2>1. "probe" \in Pcs
      BY DEF Pcs
    <2>2. keychain' \in [Versions -> KeyOrNone]
      BY <1>4 DEF DeleteOldKey, TypeOK, KeyOrNone
    <2> QED BY <1>4, <2>1, <2>2, GoToType DEF DeleteOldKey, TypeOK
  <1>5. CASE ProbeCycle(c)
    <2>1. ledger' \in [Versions -> LedgerRow]
      BY <1>5, PopulatedType DEF ProbeCycle, TypeOK
    <2> QED BY <1>5, <2>1, EndType DEF ProbeCycle, TypeOK
  <1>6. CASE ProbeResync(c)
    <2>1. "probe" \in Pcs
      BY DEF Pcs
    <2>2. ledger' \in [Versions -> LedgerRow]
      BY <1>0, <1>6, ActiveType DEF ProbeResync, TypeOK, LedgerRow
    <2> QED BY <1>6, <2>1, <2>2, GoToType DEF ProbeResync, TypeOK
  <1>7. ASSUME NEW old \in Keys, RekeyCommit(c, old)
        PROVE  TypeOK'
    <2>1. "delete" \in Pcs /\ "v1" \in Versions /\ "v2" \in Versions
      BY DEF Pcs, Versions
    <2>2. rows' \in [Rows -> [key : KeyOrNone, version : Versions]]
      BY <1>0, <1>7, <2>1 DEF RekeyCommit, TypeOK
    <2>3. ledger' \in [Versions -> LedgerRow]
      BY <1>0, <1>7, <2>1, ZenonT(40) DEF RekeyCommit, TypeOK, LedgerRow, KeyOrNone
    <2>4. cache' \in [Desktops -> [account : Versions, key : KeyOrNone]]
      BY <1>7, <2>1 DEF RekeyCommit, TypeOK, NoCache, KeyOrNone
    <2> QED BY <1>7, <2>1, <2>2, <2>3, <2>4, GoToType DEF RekeyCommit, TypeOK
  <1>8. ASSUME NEW old \in Keys, RekeyRefused(c, old)
        PROVE  TypeOK'
    BY <1>8, EndType DEF RekeyRefused, store, TypeOK
  <1> QED
    BY <1>1, <1>2, <1>3, <1>4, <1>5, <1>6, <1>7, <1>8 DEF Commanding

LEMMA ProcessType ==
  ASSUME TypeOK
  PROVE  /\ \A d \in Desktops : Restart(d) => TypeOK'
         /\ \A c \in Calls : Kill(c) => TypeOK'
         /\ \A d \in Desktops, r \in Rows : Delete(d, r) => TypeOK'
  <1>0. "v1" \in Versions
    BY DEF Versions
  <1>1. ASSUME NEW d \in Desktops, Restart(d)
        PROVE  TypeOK'
    <2>1. calls' \in [Calls -> CallType]
      BY <1>1, IdleType DEF Restart, TypeOK
    <2>2. ledger' \in [Versions -> LedgerRow]
      BY <1>1, PopulatedType DEF Restart, TypeOK
    <2>3. cache' \in [Desktops -> [account : Versions, key : KeyOrNone]]
      BY <1>0, <1>1 DEF Restart, TypeOK, NoCache, KeyOrNone
    <2>4. lock' \in [Desktops -> Calls \cup {NoCall}]
      BY <1>1 DEF Restart, TypeOK
    <2> QED BY <1>1, <2>1, <2>2, <2>3, <2>4 DEF Restart, TypeOK
  <1>2. ASSUME NEW c \in Calls, Kill(c)
        PROVE  TypeOK'
    BY <1>2, EndType DEF Kill, store, TypeOK
  <1>3. ASSUME NEW d \in Desktops, NEW r \in Rows, Delete(d, r)
        PROVE  TypeOK'
    <2>1. NoRow \in [key : KeyOrNone, version : Versions]
      BY <1>0 DEF NoRow, KeyOrNone
    <2> QED BY <1>3, <2>1 DEF Delete, TypeOK
  <1> QED BY <1>1, <1>2, <1>3

LEMMA NextType == TypeOK /\ [Next]_vars => TypeOK'
  <1>1. ASSUME TypeOK, UNCHANGED vars
        PROVE  TypeOK'
    BY <1>1 DEF vars, store, TypeOK
  <1> QED
    BY <1>1, BeginType, ResolvingType, CommandingType, ProcessType DEF Next

\* Every variable keeps its type.
THEOREM TypeCorrect == Spec => []TypeOK
  BY InitType, NextType, PTL DEF Spec

-----------------------------------------------------------------------------
(* One desktop, rekeyed at most once, with its first key in place before anyone
   else comes: the invariant that makes stored keys readable *)

\* v1 until the rekey, v2 from its commit on
LedgerShape ==
    \/ ledger["v1"].status = "active" /\ ledger["v2"].status = "absent"
    \/ ledger["v1"].status = "retired" /\ ledger["v2"].status = "active"

\* what the rekey re-encrypts is every row
RowsOfV1 == Active = "v1" => \A r \in Rows : rows[r].version = "v1"

\* while there is no key, there is one call at most
Alone ==
    keychain[Active] = NoKey =>
        \A b, c \in Calls : ~At(b, "idle") /\ ~At(c, "idle") => b = c

\* the key of a call that resolves the active account is that account's key
KeyOK(rec) ==
    /\ rec.account = "v2" => Active = "v2"
    /\ rec.pc \in {"stamp", "canary", "plant", "cache"} =>
         rec.key # NoKey /\ (rec.account = Active => rec.key = keychain[Active])
    /\ rec.account = Active /\ rec.pc \in {"first", "set"} => keychain[Active] = NoKey

\* a rekey has the only reference to v2 until it commits
RekeyOK(rec) ==
    /\ rec.pc \in {"mint", "rekey", "delete"} => rec.kind = "rekey"
    /\ rec.pc \in {"mint", "rekey"} => Active = "v1"
    /\ rec.pc = "rekey" => rec.key # NoKey /\ rec.key = keychain["v2"]
    /\ rec.pc = "delete" => Active = "v2"

\* a save resolves, seals and stores under one and the same version
SaveOK(rec) ==
    /\ rec.pc = "write" => rec.kind = "save" /\ ~rec.late /\ rec.sealed # NoKey
    /\ rec.pc = "resync" => rec.kind = "resync"
    /\ rec.kind = "save" /\ ~rec.late =>
         /\ rec.pc \in Threads \cup {"canary", "plant", "cache"} => rec.account = Active
         /\ rec.sealed # NoKey => rec.sealed = keychain[Active]

\* saves and rekeys hold the mutex of their desktop until they end or time out
HolderOK(c, rec) ==
    /\ rec.pc = "idle" => rec.kind = "none"
    /\ rec.late => rec.pc \in Threads
    /\ rec.kind \in {"save", "rekey"} /\ ~rec.late =>
         rec.desktop \in Desktops /\ lock[rec.desktop] = c

CallOK(c, rec) == KeyOK(rec) /\ RekeyOK(rec) /\ SaveOK(rec) /\ HolderOK(c, rec)

Sound == LedgerShape /\ RowsOfV1 /\ Readable /\ CanaryVouches /\ CacheCurrent

Inv == TypeOK /\ Sound /\ Alone /\ \A c \in Calls : CallOK(c, calls[c])

-----------------------------------------------------------------------------
(* What a call may do without disturbing the others *)

LEMMA InitInv == FirstRunAlone /\ Init => Inv
  <1> SUFFICES ASSUME FirstRunAlone, Init
               PROVE  Inv
    OBVIOUS
  <1>1. LedgerShape /\ Active = "v1" /\ ledger[Active].canary = NoKey
    BY DEF Init, LedgerShape, Active, Versions
  <1>2. \A r \in Rows : rows[r].key = keychain["v1"] /\ rows[r].version = "v1"
    BY DEF Init, NoRow
  <1>3. \A d \in Desktops : cache[d].key = NoKey
    BY DEF Init, NoCache
  <1>4. Sound
    BY <1>1, <1>2, <1>3 DEF Sound, RowsOfV1, Readable, CanaryVouches, CacheCurrent
  <1>5. \A c \in Calls : calls[c] = Idle
    BY DEF Init
  <1>6. Alone
    BY <1>5 DEF Alone, At, Idle
  <1>7. \A c \in Calls : CallOK(c, calls[c])
    BY <1>5 DEF CallOK, KeyOK, RekeyOK, SaveOK, HolderOK, Idle, Threads
  <1> QED BY <1>4, <1>6, <1>7, InitType DEF Inv

LEMMA IdleOK == \A c \in Calls : CallOK(c, Idle)
  BY DEF CallOK, KeyOK, RekeyOK, SaveOK, HolderOK, Idle, Threads

\* a call that does nothing stays in order while its version's key is left alone
LEMMA StaysOK ==
  ASSUME NEW b \in Calls, CallOK(b, calls[b]), calls'[b] = calls[b],
         Active' = Active, keychain'[Active] = keychain[Active],
         At(b, "rekey") => keychain'["v2"] = keychain["v2"],
         \A d \in Desktops : lock[d] = b => lock'[d] = b
  PROVE  CallOK(b, calls[b])'
  <1>1. KeyOK(calls[b])'
    BY DEF CallOK, KeyOK
  <1>2. RekeyOK(calls[b])'
    BY DEF CallOK, RekeyOK, At
  <1>3. SaveOK(calls[b])'
    BY DEF CallOK, SaveOK, Threads
  <1>4. HolderOK(b, calls[b])'
    BY DEF CallOK, HolderOK, Threads
  <1> QED BY <1>1, <1>2, <1>3, <1>4 DEF CallOK

LEMMA GoesOn ==
  ASSUME TypeOK, \A b \in Calls : CallOK(b, calls[b]),
         NEW c \in Calls, NEW rec \in CallType, Go(c, rec), CallOK(c, rec),
         Active' = Active, keychain'[Active] = keychain[Active],
         keychain'["v2"] = keychain["v2"]
  PROVE  \A b \in Calls : CallOK(b, calls[b])'
  <1>1. calls'[c] = rec /\ \A b \in Calls \ {c} : calls'[b] = calls[b]
    BY DEF Go, TypeOK
  <1>2. ASSUME NEW b \in Calls \ {c}
        PROVE  CallOK(b, calls[b])'
    <2>1. \A d \in Desktops : lock[d] = b => lock'[d] = b
      BY DEF Go
    <2> QED BY <1>1, <2>1, StaysOK
  <1>3. KeyOK(calls[c])'
    BY <1>1 DEF CallOK, KeyOK
  <1>4. RekeyOK(calls[c])'
    BY <1>1 DEF CallOK, RekeyOK
  <1>5. SaveOK(calls[c])'
    BY <1>1 DEF CallOK, SaveOK, Threads
  <1>6. HolderOK(c, calls[c])'
    BY <1>1 DEF CallOK, HolderOK, Threads, Go
  <1> QED BY <1>2, <1>3, <1>4, <1>5, <1>6 DEF CallOK

LEMMA StaysAlone ==
  ASSUME TypeOK, Alone, Active' = Active, keychain'[Active] = keychain[Active],
         \A b \in Calls : At(b, "idle") => At(b, "idle")'
  PROVE  Alone'
  BY DEF Alone, At

LEMMA StaysSound ==
  ASSUME Sound, UNCHANGED <<store, cache>>
  PROVE  Sound' /\ Active' = Active /\ UNCHANGED keychain
  BY DEF Sound, LedgerShape, RowsOfV1, Readable, CanaryVouches, CacheCurrent, Active, store

LEMMA Step ==
  ASSUME Inv, TypeOK', Sound', NEW c \in Calls, ~At(c, "idle"),
         NEW rec \in CallType, Go(c, rec), CallOK(c, rec),
         Active' = Active, keychain'[Active] = keychain[Active],
         keychain'["v2"] = keychain["v2"]
  PROVE  Inv'
  <1>1. \A b \in Calls : CallOK(b, calls[b])'
    BY GoesOn DEF Inv
  <1>2. \A b \in Calls : At(b, "idle") => At(b, "idle")'
    BY DEF Go, At, Inv, TypeOK
  <1>3. Alone'
    BY <1>2, StaysAlone DEF Inv
  <1> QED BY <1>1, <1>3 DEF Inv

\* a step of a call that writes nothing
LEMMA QuietStep ==
  ASSUME Inv, TypeOK', NEW c \in Calls, ~At(c, "idle"),
         NEW rec \in CallType, Go(c, rec), CallOK(c, rec), UNCHANGED <<store, cache>>
  PROVE  Inv'
  <1>1. Sound' /\ Active' = Active /\ UNCHANGED keychain
    BY StaysSound DEF Inv
  <1> QED BY <1>1, Step

-----------------------------------------------------------------------------
(* Getting a key *)

\* what a call becomes with the active key, or with any key when it is not a save
LEMMA AfterOK ==
  ASSUME Inv, NEW c \in Calls, ~At(c, "idle"), ~calls[c].late,
         NEW k \in KeyOrNone, k # NoKey, calls[c].kind = "save" => k = keychain[Active]
  PROVE  CallOK(c, After(c, k))
  <1>1. calls[c] \in CallType /\ CallOK(c, calls[c])
    BY DEF Inv, TypeOK
  <1>2. CASE /\ calls[c].kind = "save" /\ calls[c].sealed = NoKey
             /\ After(c, k) = [calls[c] EXCEPT !.pc = "resolve", !.sealed = k]
    <2> DEFINE rec == [calls[c] EXCEPT !.pc = "resolve", !.sealed = k]
    <2>1. /\ rec.pc = "resolve" /\ rec.sealed = k /\ rec.kind = "save" /\ ~rec.late
          /\ rec.account = calls[c].account /\ rec.desktop = calls[c].desktop
      BY <1>1, <1>2 DEF CallType
    <2>2. lock[rec.desktop] = c /\ rec.desktop \in Desktops /\ k = keychain[Active]
      BY <1>1, <1>2, <2>1 DEF CallOK, HolderOK
    <2> HIDE DEF rec
    <2>3. KeyOK(rec)
      BY <1>1, <2>1 DEF CallOK, KeyOK
    <2>4. RekeyOK(rec) /\ SaveOK(rec) /\ HolderOK(c, rec)
      BY <2>1, <2>2 DEF RekeyOK, SaveOK, HolderOK, Threads
    <2>5. CallOK(c, rec)
      BY <2>3, <2>4 DEF CallOK
    <2> QED BY <1>2, <2>5 DEF rec
  <1>3. CASE /\ calls[c].kind = "save" /\ calls[c].sealed = k
             /\ After(c, k) = [calls[c] EXCEPT !.pc = "write"]
    <2> DEFINE rec == [calls[c] EXCEPT !.pc = "write"]
    <2>1. /\ rec.pc = "write" /\ rec.sealed = k /\ rec.kind = "save" /\ ~rec.late
          /\ rec.account = calls[c].account /\ rec.desktop = calls[c].desktop
      BY <1>1, <1>3 DEF CallType
    <2>2. lock[rec.desktop] = c /\ rec.desktop \in Desktops /\ k = keychain[Active]
      BY <1>1, <1>3, <2>1 DEF CallOK, HolderOK
    <2> HIDE DEF rec
    <2>3. KeyOK(rec)
      BY <1>1, <2>1 DEF CallOK, KeyOK
    <2>4. RekeyOK(rec) /\ SaveOK(rec) /\ HolderOK(c, rec)
      BY <2>1, <2>2 DEF RekeyOK, SaveOK, HolderOK, Threads
    <2>5. CallOK(c, rec)
      BY <2>3, <2>4 DEF CallOK
    <2> QED BY <1>3, <2>5 DEF rec
  <1>4. CASE /\ calls[c].kind = "resync"
             /\ After(c, k) = [calls[c] EXCEPT !.pc = "resync", !.key = k]
    <2> DEFINE rec == [calls[c] EXCEPT !.pc = "resync", !.key = k]
    <2>1. /\ rec.pc = "resync" /\ rec.kind = "resync" /\ ~rec.late
          /\ rec.account = calls[c].account
      BY <1>1, <1>4 DEF CallType
    <2> HIDE DEF rec
    <2>3. KeyOK(rec)
      BY <1>1, <2>1 DEF CallOK, KeyOK
    <2>4. RekeyOK(rec) /\ SaveOK(rec) /\ HolderOK(c, rec)
      BY <2>1 DEF RekeyOK, SaveOK, HolderOK, Threads
    <2>5. CallOK(c, rec)
      BY <2>3, <2>4 DEF CallOK
    <2> QED BY <1>4, <2>5 DEF rec
  <1> QED BY <1>2, <1>3, <1>4, IdleOK, AfterCases

\* a call that only moves on is in order if its new stage asks nothing more of it
LEMMA GoToOK ==
  ASSUME Inv, NEW c \in Calls, NEW pc \in Pcs,
         pc \notin {"idle", "first", "rekey", "mint", "delete", "write", "resync"},
         calls[c].late => pc \in Threads,
         pc = "set" => At(c, "first"),
         pc \in {"stamp", "canary", "plant", "cache"} =>
            calls[c].pc \in {"stamp", "canary", "plant", "cache"},
         calls[c].kind = "save" /\ ~calls[c].late => calls[c].account = Active
  PROVE  CallOK(c, [calls[c] EXCEPT !.pc = pc])
  <1>1. calls[c] \in CallType /\ CallOK(c, calls[c])
    BY DEF Inv, TypeOK
  <1> DEFINE rec == [calls[c] EXCEPT !.pc = pc]
  <1>2. /\ rec.pc = pc /\ rec.sealed = calls[c].sealed /\ rec.kind = calls[c].kind
        /\ rec.late = calls[c].late /\ rec.account = calls[c].account
        /\ rec.desktop = calls[c].desktop /\ rec.key = calls[c].key
    BY <1>1 DEF CallType
  <1> HIDE DEF rec
  <1>3. KeyOK(rec)
    BY <1>1, <1>2 DEF CallOK, KeyOK, At
  <1>4. RekeyOK(rec)
    BY <1>1, <1>2 DEF CallOK, RekeyOK
  <1>5. SaveOK(rec)
    BY <1>1, <1>2 DEF CallOK, SaveOK, Threads
  <1>6. HolderOK(c, rec)
    BY <1>1, <1>2 DEF CallOK, HolderOK
  <1>7. CallOK(c, rec)
    BY <1>3, <1>4, <1>5, <1>6 DEF CallOK
  <1> QED BY <1>7 DEF rec

\* a call that has read its account's key
LEMMA GotKeyOK ==
  ASSUME Inv, NEW c \in Calls, calls[c].pc \in {"get", "confirm"},
         keychain[calls[c].account] # NoKey
  PROVE  CallOK(c, [calls[c] EXCEPT !.pc = "stamp", !.key = keychain[calls[c].account]])
  <1>1. calls[c] \in CallType /\ CallOK(c, calls[c])
    BY DEF Inv, TypeOK
  <1> DEFINE rec == [calls[c] EXCEPT !.pc = "stamp", !.key = keychain[calls[c].account]]
  <1>2. /\ rec.pc = "stamp" /\ rec.sealed = calls[c].sealed /\ rec.kind = calls[c].kind
        /\ rec.late = calls[c].late /\ rec.account = calls[c].account
        /\ rec.desktop = calls[c].desktop /\ rec.key = keychain[calls[c].account]
    BY <1>1 DEF CallType
  <1> HIDE DEF rec
  <1>3. KeyOK(rec)
    BY <1>1, <1>2 DEF CallOK, KeyOK
  <1>4. RekeyOK(rec)
    BY <1>1, <1>2 DEF CallOK, RekeyOK
  <1>5. SaveOK(rec)
    BY <1>1, <1>2 DEF CallOK, SaveOK, Threads
  <1>6. HolderOK(c, rec)
    BY <1>1, <1>2 DEF CallOK, HolderOK, Threads
  <1>7. CallOK(c, rec)
    BY <1>3, <1>4, <1>5, <1>6 DEF CallOK
  <1> QED BY <1>7 DEF rec

\* the stages of a call on its way to a key
LEMMA StageFacts ==
  ASSUME Inv, NEW c \in Calls
  PROVE  /\ calls[c] \in CallType /\ CallOK(c, calls[c])
         /\ ~calls[c].pc \in Threads => ~calls[c].late
         /\ calls[c].kind = "save" /\ ~calls[c].late
              /\ calls[c].pc \in Threads \cup {"canary", "plant", "cache"} =>
                calls[c].account = Active
  BY DEF Inv, TypeOK, CallOK, HolderOK, SaveOK

LEMMA ResolveStep ==
  ASSUME Inv, TypeOK', ~LookupFails, NEW c \in Calls, CacheHit(c) \/ CacheMiss(c)
  PROVE  Inv'
  <1>1. /\ ~At(c, "idle") /\ ~calls[c].late /\ UNCHANGED <<store, cache>>
        /\ calls[c] \in CallType /\ CallOK(c, calls[c]) /\ calls[c].pc = "resolve"
    BY StageFacts DEF CacheHit, CacheMiss, At, Threads
  <1>2. CASE CacheHit(c)
    <2> DEFINE k == cache[calls[c].desktop].key
    <2>1. k # NoKey /\ k = keychain[Active] /\ k \in KeyOrNone
      BY <1>1, <1>2 DEF CacheHit, Inv, Sound, CacheCurrent, TypeOK, CallType
    <2>2. Go(c, After(c, k))
      BY <1>2 DEF CacheHit
    <2>3. CallOK(c, After(c, k)) /\ After(c, k) \in CallType
      BY <1>1, <2>1, AfterOK, AfterType DEF Inv
    <2> QED BY <1>1, <2>2, <2>3, QuietStep
  <1>3. CASE CacheMiss(c)
    <2> DEFINE rec == [calls[c] EXCEPT !.pc = "get", !.account = Active]
    <2>1. /\ rec.pc = "get" /\ rec.sealed = calls[c].sealed /\ rec.kind = calls[c].kind
          /\ rec.late = calls[c].late /\ rec.account = Active
          /\ rec.desktop = calls[c].desktop
      BY <1>1 DEF CallType
    <2>2. rec \in CallType
      BY <1>1, ActiveType DEF CallType, Pcs, Threads
    <2>3. Go(c, rec)
      BY <1>3 DEF CacheMiss
    <2> HIDE DEF rec
    <2>4. KeyOK(rec) /\ RekeyOK(rec)
      BY <2>1 DEF KeyOK, RekeyOK
    <2>5. SaveOK(rec) /\ HolderOK(c, rec)
      BY <1>1, <2>1 DEF CallOK, SaveOK, HolderOK, Threads
    <2>6. CallOK(c, rec)
      BY <2>4, <2>5 DEF CallOK
    <2> QED BY <1>1, <2>2, <2>3, <2>6, QuietStep
  <1> QED BY <1>2, <1>3

LEMMA KeychainStep ==
  ASSUME Inv, TypeOK', NEW c \in Calls,
         GetPassword(c) \/ Denied(c) \/ FirstRun(c) \/ Confirm(c)
  PROVE  Inv'
  <1>0. /\ calls[c] \in CallType /\ CallOK(c, calls[c]) /\ UNCHANGED <<store, cache>>
        /\ calls[c].account \in Versions /\ keychain[calls[c].account] \in KeyOrNone
    BY StageFacts DEF GetPassword, Denied, FirstRun, Confirm, Inv, TypeOK, CallType
  <1>e. ASSUME End(c), ~At(c, "idle")
        PROVE  Inv'
    BY <1>0, <1>e, IdleType, IdleOK, QuietStep DEF End
  <1>s. ASSUME calls[c].pc \in {"get", "confirm"}, keychain[calls[c].account] # NoKey,
               Go(c, [calls[c] EXCEPT !.pc = "stamp", !.key = keychain[calls[c].account]])
        PROVE  Inv'
    <2>1. [calls[c] EXCEPT !.pc = "stamp", !.key = keychain[calls[c].account]] \in CallType
      BY <1>0 DEF CallType, Pcs, Threads
    <2> QED BY <1>0, <1>s, <2>1, GotKeyOK, QuietStep DEF At
  <1>1. CASE GetPassword(c)
    <2>1. CASE keychain[calls[c].account] = NoKey
      <3> DEFINE rec == [calls[c] EXCEPT !.pc = "first"]
      <3>1. /\ rec.pc = "first" /\ rec.sealed = calls[c].sealed
            /\ rec.kind = calls[c].kind /\ rec.late = calls[c].late
            /\ rec.account = calls[c].account /\ rec.desktop = calls[c].desktop
        BY <1>0 DEF CallType
      <3>2. rec \in CallType
        BY <1>0 DEF CallType, Pcs, Threads
      <3>3. Go(c, rec) /\ At(c, "get")
        BY <1>1, <2>1 DEF GetPassword
      <3> HIDE DEF rec
      <3>4. KeyOK(rec)
        BY <1>0, <2>1, <3>1 DEF CallOK, KeyOK
      <3>5. RekeyOK(rec) /\ SaveOK(rec)
        BY <1>0, <3>1, <3>3 DEF CallOK, RekeyOK, SaveOK, Threads, At
      <3>6. HolderOK(c, rec)
        BY <1>0, <3>1, <3>3 DEF CallOK, HolderOK, Threads
      <3>7. CallOK(c, rec)
        BY <3>4, <3>5, <3>6 DEF CallOK
      <3> QED BY <1>0, <3>2, <3>3, <3>7, QuietStep DEF At
    <2>2. CASE keychain[calls[c].account] # NoKey
      BY <1>1, <1>s, <2>2 DEF GetPassword, At
    <2> QED BY <2>1, <2>2
  <1>2. CASE Denied(c)
    BY <1>e, <1>2 DEF Denied, At
  <1>3. CASE FirstRun(c)
    <2>1. At(c, "first") /\ ~At(c, "idle")
      BY <1>3 DEF FirstRun, At
    <2>2. ASSUME GoTo(c, "set")
          PROVE  Inv'
      <3>1. "set" \in Pcs /\ "set" \in Threads
        BY DEF Pcs, Threads
      <3>2. calls[c].kind = "save" /\ ~calls[c].late => calls[c].account = Active
        BY <2>1, StageFacts DEF At, Threads
      <3>3. CallOK(c, [calls[c] EXCEPT !.pc = "set"])
        BY <2>1, <3>1, <3>2, GoToOK
      <3>4. [calls[c] EXCEPT !.pc = "set"] \in CallType
        BY <1>0, <3>1 DEF CallType
      <3> QED BY <1>0, <2>1, <2>2, <3>3, <3>4, QuietStep DEF GoTo
    <2> QED BY <1>e, <1>3, <2>1, <2>2 DEF FirstRun
  <1>4. CASE Confirm(c)
    BY <1>e, <1>s, <1>4 DEF Confirm, At
  <1> QED BY <1>1, <1>2, <1>3, <1>4

\* the key a call is about to vouch for and to cache
LEMMA HeldKey ==
  ASSUME Inv, NEW c \in Calls, calls[c].pc \in {"canary", "plant", "cache"}
  PROVE  /\ calls[c].account = Active => calls[c].key = keychain[Active]
         /\ calls[c].key # NoKey /\ calls[c].key \in KeyOrNone /\ ~calls[c].late /\ ~At(c, "idle")
         /\ calls[c].kind = "save" => calls[c].account = Active
  BY StageFacts DEF CallOK, KeyOK, CallType, Threads, At

\* the statuses alone decide which version is active
LEMMA SameStatus ==
  ASSUME ledger'["v2"].status = ledger["v2"].status
  PROVE  Active' = Active
  BY DEF Active

LEMMA SentinelAndCanaryStep ==
  ASSUME Inv, TypeOK', NEW c \in Calls, Stamp(c) \/ LookForCanary(c) \/ PlantCanary(c)
  PROVE  Inv'
  <1>0. /\ calls[c] \in CallType /\ CallOK(c, calls[c]) /\ ~At(c, "idle")
        /\ {"canary", "plant", "cache"} \subseteq Pcs
    BY StageFacts DEF Stamp, LookForCanary, PlantCanary, At, Pcs
  <1>1. CASE Stamp(c)
    <2>1. Sound' /\ Active' = Active /\ UNCHANGED keychain
      BY <1>1 DEF Stamp, Inv, Sound, LedgerShape, RowsOfV1, Readable, CanaryVouches,
                  CacheCurrent, Active
    <2>2. CASE calls[c].late
      BY <1>0, <1>1, <2>1, <2>2, IdleType, IdleOK, Step DEF Stamp, End
    <2>3. CASE ~calls[c].late
      <3>1. Go(c, [calls[c] EXCEPT !.pc = "canary"]) /\ calls[c].pc = "stamp"
        BY <1>1, <2>3 DEF Stamp, GoTo, At
      <3>2. calls[c].kind = "save" => calls[c].account = Active
        BY <2>3, <3>1, StageFacts DEF Threads
      <3>3. CallOK(c, [calls[c] EXCEPT !.pc = "canary"])
        BY <1>0, <2>3, <3>1, <3>2, GoToOK
      <3>4. [calls[c] EXCEPT !.pc = "canary"] \in CallType
        BY <1>0 DEF CallType
      <3> QED BY <1>0, <2>1, <3>1, <3>3, <3>4, Step
    <2> QED BY <2>2, <2>3
  <1>2. CASE LookForCanary(c)
    <2>0. calls[c].pc = "canary" /\ UNCHANGED <<store, cache>>
      BY <1>2 DEF LookForCanary, At
    <2>1. ASSUME NEW pc \in {"plant", "cache"}, GoTo(c, pc)
          PROVE  Inv'
      <3>1. CallOK(c, [calls[c] EXCEPT !.pc = pc])
        BY <1>0, <2>0, HeldKey, GoToOK
      <3>2. [calls[c] EXCEPT !.pc = pc] \in CallType
        BY <1>0 DEF CallType
      <3> QED BY <1>0, <2>0, <2>1, <3>1, <3>2, QuietStep DEF GoTo
    <2> QED BY <1>2, <2>1 DEF LookForCanary
  <1>3. CASE PlantCanary(c)
    <2>0. calls[c].pc = "plant" /\ UNCHANGED <<keychain, rows, sentinel, cache>>
      BY <1>3 DEF PlantCanary, At
    <2>1. /\ ledger'["v1"].status = ledger["v1"].status
          /\ ledger'["v2"].status = ledger["v2"].status
          /\ ledger'[Active].canary \in {ledger[Active].canary, calls[c].key}
          /\ calls[c].account # Active => ledger'[Active].canary = ledger[Active].canary
      BY <1>0, <1>3, ActiveType DEF PlantCanary, Inv, TypeOK, LedgerRow, CallType, Versions
    <2>2. Active' = Active
      BY <2>1, SameStatus
    <2>3. CanaryVouches'
      BY <2>0, <2>1, <2>2, HeldKey DEF CanaryVouches, Inv, Sound
    <2>4. Sound'
      BY <2>0, <2>1, <2>2, <2>3
      DEF Inv, Sound, LedgerShape, RowsOfV1, Readable, CacheCurrent
    <2>5. CallOK(c, [calls[c] EXCEPT !.pc = "cache"])
      BY <1>0, <2>0, HeldKey, GoToOK
    <2>6. [calls[c] EXCEPT !.pc = "cache"] \in CallType
      BY <1>0 DEF CallType
    <2> QED BY <1>0, <1>3, <2>0, <2>2, <2>4, <2>5, <2>6, Step DEF PlantCanary, GoTo
  <1> QED BY <1>1, <1>2, <1>3

LEMMA FillCacheStep ==
  ASSUME Inv, TypeOK', NEW c \in Calls, FillCache(c)
  PROVE  Inv'
  <1>0. /\ calls[c].pc = "cache" /\ UNCHANGED store
        /\ Go(c, After(c, calls[c].key)) /\ calls[c].key \in KeyOrNone
    BY HeldKey DEF FillCache, At
  <1>1. Active' = Active
    BY <1>0 DEF Active, store
  <1>2. CacheCurrent'
    <2>1. \A d \in Desktops : cache'[d] \in {cache[d], [account |-> calls[c].account,
                                                       key |-> calls[c].key]}
      BY DEF FillCache
    <2> QED BY <1>0, <1>1, <2>1, HeldKey DEF Inv, Sound, CacheCurrent, store
  <1>3. Sound'
    BY <1>0, <1>1, <1>2
    DEF Inv, Sound, LedgerShape, RowsOfV1, Readable, CanaryVouches, store
  <1>4. CallOK(c, After(c, calls[c].key)) /\ After(c, calls[c].key) \in CallType
    BY <1>0, HeldKey, AfterOK, AfterType DEF Inv
  <1> QED BY <1>0, <1>1, <1>3, <1>4, HeldKey, Step DEF store

\* whoever makes a key where there is none is alone
LEMMA SetPasswordStep ==
  ASSUME Inv, TypeOK', NEW c \in Calls, SetPassword(c)
  PROVE  Inv'
  <1>0. /\ calls[c] \in CallType /\ CallOK(c, calls[c]) /\ calls[c].pc = "set"
        /\ ~At(c, "idle") /\ UNCHANGED <<ledger, rows, sentinel, cache>>
        /\ calls[c].account \in Versions /\ "confirm" \in Pcs /\ "confirm" \in Threads
    BY StageFacts DEF SetPassword, At, CallType, Pcs, Threads
  <1>1. PICK k \in Keys : keychain' = [keychain EXCEPT ![calls[c].account] = k]
    BY FreshType DEF SetPassword
  <1>2. Active' = Active
    BY <1>0 DEF Active
  <1>3. Go(c, [calls[c] EXCEPT !.pc = "confirm"])
    BY DEF SetPassword, GoTo
  <1>4. [calls[c] EXCEPT !.pc = "confirm"] \in CallType
    BY <1>0 DEF CallType
  <1>5. CallOK(c, [calls[c] EXCEPT !.pc = "confirm"])
    <2>1. calls[c].kind = "save" /\ ~calls[c].late => calls[c].account = Active
      BY <1>0 DEF CallOK, SaveOK, Threads
    <2> QED BY <1>0, <2>1, GoToOK
  <1>6. CASE calls[c].account # Active
    <2>1. calls[c].account = "v1" /\ Active = "v2"
      BY <1>0, <1>6, ActiveType DEF CallOK, KeyOK, Versions
    <2>2. keychain'[Active] = keychain[Active] /\ keychain'["v2"] = keychain["v2"]
      BY <1>1, <2>1 DEF Inv, TypeOK, Versions
    <2>3. Sound'
      BY <1>0, <1>2, <2>2 DEF Inv, Sound, LedgerShape, RowsOfV1, Readable, CanaryVouches,
                              CacheCurrent
    <2> QED BY <1>0, <1>2, <1>3, <1>4, <1>5, <2>2, <2>3, Step
  <1>7. CASE calls[c].account = Active
    <2>1. keychain[Active] = NoKey
      BY <1>0, <1>7 DEF CallOK, KeyOK
    <2>2. \A b \in Calls \ {c} : At(b, "idle") /\ calls'[b] = calls[b]
      BY <1>0, <1>3, <2>1 DEF Inv, Alone, Go
    <2>3. keychain'[Active] = k /\ k # NoKey
      BY <1>0, <1>1, <1>7, KeyAssumption DEF Inv, TypeOK
    <2>4. Sound'
      BY <1>0, <1>2, <2>1 DEF Inv, Sound, LedgerShape, RowsOfV1, Readable, CanaryVouches,
                              CacheCurrent
    <2>5. Alone'
      BY <1>2, <2>3 DEF Alone
    <2>6. ASSUME NEW b \in Calls \ {c}
          PROVE  CallOK(b, calls[b])'
      <3>1. CallOK(b, calls[b]) /\ At(b, "idle") /\ calls'[b] = calls[b]
        BY <2>2 DEF Inv
      <3>2. KeyOK(calls[b])' /\ RekeyOK(calls[b])'
        BY <1>2, <3>1 DEF CallOK, KeyOK, RekeyOK, At
      <3>3. SaveOK(calls[b])' /\ HolderOK(b, calls[b])'
        BY <3>1 DEF CallOK, SaveOK, HolderOK, At
      <3> QED BY <3>2, <3>3 DEF CallOK
    <2>7. CallOK(c, calls[c])'
      <3> DEFINE rec == [calls[c] EXCEPT !.pc = "confirm"]
      <3>1. calls'[c] = rec /\ lock' = lock
        BY <1>0, <1>3 DEF Go, Inv, TypeOK
      <3>2. /\ rec.pc = "confirm" /\ rec.kind = calls[c].kind /\ rec.late = calls[c].late
            /\ rec.account = calls[c].account /\ rec.sealed = calls[c].sealed
        BY <1>0 DEF CallType
      <3> HIDE DEF rec
      <3>3. KeyOK(calls[c])' /\ RekeyOK(calls[c])'
        BY <1>0, <1>2, <3>1, <3>2 DEF CallOK, KeyOK, RekeyOK
      <3>4. calls[c].kind = "save" /\ ~calls[c].late => calls[c].sealed = NoKey
        BY <1>0, <2>1 DEF CallOK, SaveOK
      <3>5. SaveOK(calls[c])'
        BY <1>2, <1>7, <3>1, <3>2, <3>4 DEF SaveOK
      <3>6. HolderOK(c, calls[c])'
        BY <1>0, <1>5, <3>1, <3>2 DEF CallOK, HolderOK, rec
      <3> QED BY <3>3, <3>5, <3>6 DEF CallOK
    <2> QED BY <2>4, <2>5, <2>6, <2>7 DEF Inv
  <1> QED BY <1>6, <1>7

\* the command gives up its mutex, the thread goes on
LEMMA TimeOutStep ==
  ASSUME Inv, TypeOK', NEW c \in Calls, TimeOut(c)
  PROVE  Inv'
  <1>0. /\ calls[c] \in CallType /\ CallOK(c, calls[c]) /\ calls[c].pc \in Threads
        /\ UNCHANGED <<store, cache>>
    BY StageFacts DEF TimeOut
  <1>1. Sound' /\ Active' = Active /\ UNCHANGED keychain
    BY <1>0, StaysSound DEF Inv
  <1>2. /\ \A b \in Calls \ {c} : calls'[b] = calls[b]
        /\ calls'[c] = [calls[c] EXCEPT !.late = TRUE]
    BY DEF TimeOut, Inv, TypeOK
  <1>3. /\ calls'[c].pc = calls[c].pc /\ calls'[c].kind = calls[c].kind /\ calls'[c].late
        /\ calls'[c].account = calls[c].account /\ calls'[c].key = calls[c].key
    BY <1>0, <1>2 DEF CallType
  <1>4. Alone'
    BY <1>1, <1>2, <1>3, StaysAlone DEF Inv, At
  <1>5. ASSUME NEW b \in Calls \ {c}
        PROVE  CallOK(b, calls[b])'
    <2>1. \A d \in Desktops : lock[d] = b => lock'[d] = b
      BY DEF TimeOut
    <2> QED BY <1>1, <1>2, <2>1, StaysOK DEF Inv
  <1>6. CallOK(c, calls[c])'
    <2>1. KeyOK(calls[c])' /\ RekeyOK(calls[c])'
      BY <1>0, <1>1, <1>3 DEF CallOK, KeyOK, RekeyOK, Threads
    <2>2. SaveOK(calls[c])' /\ HolderOK(c, calls[c])'
      BY <1>0, <1>3 DEF CallOK, SaveOK, HolderOK, Threads
    <2> QED BY <2>1, <2>2 DEF CallOK
  <1> QED BY <1>1, <1>4, <1>5, <1>6 DEF Inv

LEMMA ResolvingStep ==
  ASSUME Inv, TypeOK', ~LookupFails, NEW c \in Calls, Resolving(c)
  PROVE  Inv'
  BY ResolveStep, KeychainStep, SentinelAndCanaryStep, FillCacheStep, SetPasswordStep,
     TimeOutStep
  DEF Resolving

-----------------------------------------------------------------------------
(* The commands *)

\* a call that was idle starts, and nobody shares its mutex
LEMMA BeginStep ==
  ASSUME Inv, TypeOK', NEW c \in Calls, MayBegin(c), FirstRunAlone,
         UNCHANGED <<store, cache>>,
         NEW rec \in CallType, calls' = [calls EXCEPT ![c] = rec],
         \A b \in Calls \ {c}, d \in Desktops : lock[d] = b => lock'[d] = b,
         rec.account = "v1", ~rec.late, rec.sealed = NoKey,
         \/ rec.pc = "resolve" /\ rec.kind \in {"read", "save", "resync"}
         \/ rec.pc = "mint" /\ rec.kind = "rekey" /\ Active = "v1",
         rec.kind \in {"save", "rekey"} =>
            rec.desktop \in Desktops /\ lock'[rec.desktop] = c
  PROVE  Inv'
  <1>1. Sound' /\ Active' = Active /\ UNCHANGED keychain
    BY StaysSound DEF Inv
  <1>2. calls'[c] = rec /\ \A b \in Calls \ {c} : calls'[b] = calls[b]
    BY DEF Inv, TypeOK
  <1>3. keychain[Active] # NoKey \/ \A b \in Calls : At(b, "idle")
    BY DEF MayBegin
  <1>4. Alone'
    BY <1>1, <1>2, <1>3 DEF Alone, At
  <1>5. ASSUME NEW b \in Calls \ {c}
        PROVE  CallOK(b, calls[b])'
    BY <1>1, <1>2, StaysOK DEF Inv
  <1>6. KeyOK(calls[c])' /\ RekeyOK(calls[c])'
    BY <1>1, <1>2 DEF KeyOK, RekeyOK
  <1>7. SaveOK(calls[c])' /\ HolderOK(c, calls[c])'
    BY <1>2 DEF SaveOK, HolderOK, Threads
  <1> QED BY <1>1, <1>4, <1>5, <1>6, <1>7 DEF Inv, CallOK

LEMMA ReadStep ==
  ASSUME Inv, TypeOK', FirstRunAlone,
         NEW c \in Calls, NEW d \in Desktops \cup {Cli}, Read(c, d)
  PROVE  Inv'
  <1> DEFINE rec == [Idle EXCEPT !.pc = "resolve", !.kind = "read", !.desktop = d]
  <1>1. rec \in CallType
    BY IdleType DEF CallType, Pcs
  <1>2. /\ rec.account = "v1" /\ ~rec.late /\ rec.pc = "resolve" /\ rec.kind = "read"
        /\ rec.sealed = NoKey
    BY DEF Idle
  <1>3. /\ MayBegin(c) /\ UNCHANGED <<store, cache>> /\ calls' = [calls EXCEPT ![c] = rec]
        /\ \A b \in Calls \ {c}, e \in Desktops : lock[e] = b => lock'[e] = b
    BY DEF Read, Go
  <1> HIDE DEF rec
  <1> QED BY <1>1, <1>2, <1>3, BeginStep

LEMMA CommandStep ==
  ASSUME Inv, TypeOK', FirstRunAlone, RekeyIfApplicable,
         NEW c \in Calls, NEW d \in Desktops, Save(c, d) \/ Resync(c, d) \/ Rekey(c, d)
  PROVE  Inv'
  <1>1. ASSUME NEW kind \in {"save", "resync", "rekey"}, NEW pc \in {"resolve", "mint"},
               Command(c, d, kind, pc), pc = "mint" <=> kind = "rekey",
               kind = "rekey" => Active = "v1"
        PROVE  Inv'
    <2> DEFINE rec == [Idle EXCEPT !.pc = pc, !.kind = kind, !.desktop = d]
    <2>1. rec \in CallType
      BY IdleType DEF CallType, Pcs
    <2>2. /\ rec.account = "v1" /\ ~rec.late /\ rec.pc = pc /\ rec.kind = kind
          /\ rec.sealed = NoKey /\ rec.desktop = d
      BY DEF Idle
    <2>3. /\ MayBegin(c) /\ UNCHANGED <<store, cache>>
          /\ calls' = [calls EXCEPT ![c] = rec] /\ lock'[d] = c
      BY <1>1 DEF Command, Inv, TypeOK
    <2>4. \A b \in Calls \ {c}, e \in Desktops : lock[e] = b => lock'[e] = b
      BY <1>1, KeyAssumption DEF Command, Inv, TypeOK
    <2> HIDE DEF rec
    <2> QED BY <1>1, <2>1, <2>2, <2>3, <2>4, BeginStep
  <1> QED BY <1>1 DEF Save, Resync, Rekey

LEMMA WriteRowStep ==
  ASSUME Inv, TypeOK', NEW c \in Calls, WriteRow(c)
  PROVE  Inv'
  <1>0. /\ CallOK(c, calls[c]) /\ calls[c].pc = "write" /\ ~At(c, "idle")
        /\ UNCHANGED <<keychain, ledger, sentinel, cache>> /\ Go(c, Idle)
    BY StageFacts DEF WriteRow, At, End
  <1>1. calls[c].sealed = keychain[Active]
    BY <1>0 DEF CallOK, SaveOK
  <1>2. Active' = Active
    BY <1>0 DEF Active
  <1>3. \A r \in Rows : /\ rows'[r].version = rows[r].version
                        /\ rows'[r].key \in {rows[r].key, calls[c].sealed}
    BY DEF WriteRow, Inv, TypeOK
  <1>4. Sound'
    BY <1>0, <1>1, <1>2, <1>3 DEF Inv, Sound, LedgerShape, RowsOfV1, Readable, CanaryVouches,
                                  CacheCurrent
  <1> QED BY <1>0, <1>2, <1>4, IdleOK, IdleType, Step

\* one desktop has one mutex, so at most one save or rekey goes on
LEMMA OneCommander ==
  ASSUME Inv, \A d, e \in Desktops : d = e,
         NEW b \in Calls, calls[b].kind \in {"save", "rekey"}, ~calls[b].late,
         NEW c \in Calls, calls[c].kind \in {"save", "rekey"}, ~calls[c].late
  PROVE  b = c
  <1>1. /\ calls[b].desktop \in Desktops /\ lock[calls[b].desktop] = b
        /\ calls[c].desktop \in Desktops /\ lock[calls[c].desktop] = c
    BY DEF Inv, CallOK, HolderOK
  <1> QED BY <1>1

LEMMA RekeyFacts ==
  ASSUME Inv, NEW c \in Calls, calls[c].pc \in {"mint", "rekey", "delete"}
  PROVE  /\ calls[c] \in CallType /\ CallOK(c, calls[c]) /\ ~At(c, "idle")
         /\ calls[c].kind = "rekey" /\ ~calls[c].late
         /\ calls[c].pc \in {"mint", "rekey"} => Active = "v1"
         /\ calls[c].pc = "delete" => Active = "v2"
  BY StageFacts DEF CallOK, RekeyOK, At, Threads

LEMMA MintKeyStep ==
  ASSUME Inv, TypeOK', \A d, e \in Desktops : d = e, NEW c \in Calls, MintKey(c)
  PROVE  Inv'
  <1>0. /\ calls[c].pc = "mint" /\ UNCHANGED <<ledger, rows, sentinel, cache>>
    BY DEF MintKey, At
  <1>1. PICK k \in Keys : /\ keychain' = [keychain EXCEPT !["v2"] = k]
                          /\ Go(c, [calls[c] EXCEPT !.pc = "rekey", !.key = k])
    BY FreshType DEF MintKey
  <1>2. /\ calls[c] \in CallType /\ CallOK(c, calls[c]) /\ ~At(c, "idle")
        /\ calls[c].kind = "rekey" /\ ~calls[c].late /\ Active = "v1"
    BY <1>0, RekeyFacts
  <1>3. Active' = Active
    BY <1>0 DEF Active
  <1>4. keychain'[Active] = keychain[Active] /\ keychain'["v2"] = k
    BY <1>1, <1>2 DEF Inv, TypeOK, Versions
  <1>5. Sound'
    BY <1>0, <1>3, <1>4 DEF Inv, Sound, LedgerShape, RowsOfV1, Readable, CanaryVouches,
                            CacheCurrent
  <1> DEFINE rec == [calls[c] EXCEPT !.pc = "rekey", !.key = k]
  <1>6. /\ calls'[c] = rec /\ lock' = lock
        /\ \A b \in Calls \ {c} : calls'[b] = calls[b]
    BY <1>1, <1>2 DEF Go, Inv, TypeOK, CallType
  <1>7. /\ rec.pc = "rekey" /\ rec.key = k /\ rec.kind = "rekey" /\ ~rec.late
        /\ rec.account = calls[c].account /\ rec.desktop = calls[c].desktop
    BY <1>2 DEF CallType
  <1> HIDE DEF rec
  <1>8. Alone'
    BY <1>0, <1>3, <1>4, <1>6, StaysAlone DEF Inv, At
  <1>9. ASSUME NEW b \in Calls \ {c}
        PROVE  CallOK(b, calls[b])'
    <2>1. ~At(b, "rekey")
      <3>1. SUFFICES ASSUME At(b, "rekey")
                     PROVE  FALSE
        OBVIOUS
      <3>2. calls[b].kind = "rekey" /\ ~calls[b].late
        BY <3>1, RekeyFacts DEF At
      <3> QED BY <1>2, <3>2, OneCommander
    <2> QED BY <1>3, <1>4, <1>6, <2>1, StaysOK DEF Inv
  <1>10. KeyOK(calls[c])'
    BY <1>2, <1>3, <1>6, <1>7 DEF CallOK, KeyOK
  <1>11. RekeyOK(calls[c])'
    BY <1>2, <1>3, <1>4, <1>6, <1>7, KeyAssumption DEF RekeyOK
  <1>12. SaveOK(calls[c])' /\ HolderOK(c, calls[c])'
    BY <1>2, <1>6, <1>7 DEF CallOK, SaveOK, HolderOK
  <1> QED BY <1>5, <1>8, <1>9, <1>10, <1>11, <1>12 DEF Inv, CallOK

LEMMA RekeyCommitStep ==
  ASSUME Inv, TypeOK', \A d, e \in Desktops : d = e,
         NEW c \in Calls, NEW old \in Keys, RekeyCommit(c, old)
  PROVE  Inv'
  <1>0. /\ calls[c].pc = "rekey" /\ Accepted(old) /\ UNCHANGED <<keychain, sentinel>>
        /\ Go(c, [calls[c] EXCEPT !.pc = "delete"])
    BY DEF RekeyCommit, At, GoTo
  <1>1. /\ calls[c] \in CallType /\ CallOK(c, calls[c]) /\ ~At(c, "idle")
        /\ calls[c].kind = "rekey" /\ ~calls[c].late /\ Active = "v1"
        /\ calls[c].key # NoKey /\ calls[c].key = keychain["v2"]
    BY <1>0, RekeyFacts DEF CallOK, RekeyOK
  <1>2. /\ ledger'["v1"].status = "retired" /\ ledger'["v2"].status = "active"
        /\ ledger'["v2"].canary = calls[c].key
    BY DEF RekeyCommit, Inv, TypeOK, Versions, LedgerRow
  <1>3. Active' = "v2"
    BY <1>2 DEF Active
  <1>4. \A r \in Rows : rows'[r].key # NoKey => rows'[r].key = calls[c].key
    <2>1. \A r \in Rows : rows[r].version = "v1"
      BY <1>1 DEF Inv, Sound, RowsOfV1
    <2> QED BY <2>1 DEF RekeyCommit
  <1>5. \A d \in Desktops : cache'[d].key = NoKey
    <2>1. calls[c].desktop \in Desktops
      BY <1>1 DEF CallOK, HolderOK
    <2>2. \A d \in Desktops : cache'[d] = NoCache
      BY <2>1 DEF RekeyCommit, Inv, TypeOK
    <2> QED BY <2>2 DEF NoCache
  <1>6. Sound'
    <2>1. LedgerShape' /\ RowsOfV1' /\ CacheCurrent'
      BY <1>2, <1>3, <1>5 DEF LedgerShape, RowsOfV1, CacheCurrent
    <2>2. Readable' /\ CanaryVouches'
      BY <1>0, <1>1, <1>2, <1>3, <1>4 DEF Readable, CanaryVouches
    <2> QED BY <2>1, <2>2 DEF Sound
  <1>7. Alone'
    BY <1>0, <1>1, <1>3 DEF Alone
  <1> DEFINE rec == [calls[c] EXCEPT !.pc = "delete"]
  <1>8. /\ calls'[c] = rec /\ lock' = lock
        /\ \A b \in Calls \ {c} : calls'[b] = calls[b]
    BY <1>0, <1>1 DEF Go, Inv, TypeOK, CallType
  <1>9. /\ rec.pc = "delete" /\ rec.kind = "rekey" /\ ~rec.late
        /\ rec.account = calls[c].account /\ rec.desktop = calls[c].desktop
    BY <1>1 DEF CallType
  <1> HIDE DEF rec
  <1>10. ASSUME NEW b \in Calls \ {c}
         PROVE  CallOK(b, calls[b])'
    <2>1. CallOK(b, calls[b]) /\ calls[b] \in CallType /\ calls'[b] = calls[b]
      BY <1>8 DEF Inv, TypeOK
    <2>2. calls[b].kind \in {"save", "rekey"} => calls[b].late
      BY <1>1, OneCommander
    <2>3. calls[b].account # "v2"
      BY <1>1, <2>1 DEF CallOK, KeyOK
    <2>4. calls[b].pc \notin {"mint", "rekey", "delete", "write"}
      BY <2>1, <2>2 DEF CallOK, RekeyOK, SaveOK, HolderOK, Threads
    <2>5. KeyOK(calls[b])' /\ RekeyOK(calls[b])'
      BY <1>3, <2>1, <2>3, <2>4 DEF CallOK, KeyOK, RekeyOK
    <2>6. SaveOK(calls[b])' /\ HolderOK(b, calls[b])'
      BY <1>8, <2>1, <2>2, <2>4 DEF CallOK, SaveOK, HolderOK
    <2> QED BY <2>5, <2>6 DEF CallOK
  <1>11. KeyOK(calls[c])' /\ RekeyOK(calls[c])'
    BY <1>1, <1>3, <1>8, <1>9 DEF CallOK, KeyOK, RekeyOK
  <1>12. SaveOK(calls[c])' /\ HolderOK(c, calls[c])'
    BY <1>1, <1>8, <1>9 DEF CallOK, SaveOK, HolderOK
  <1> QED BY <1>6, <1>7, <1>10, <1>11, <1>12 DEF Inv, CallOK

LEMMA RekeyEndStep ==
  ASSUME Inv, TypeOK', NEW c \in Calls,
         Busy(c) \/ DeleteOldKey(c) \/ \E old \in Keys : RekeyRefused(c, old)
  PROVE  Inv'
  <1>1. ASSUME End(c), ~At(c, "idle"), UNCHANGED <<store, cache>>
        PROVE  Inv'
    BY <1>1, IdleType, IdleOK, QuietStep DEF End
  <1>2. CASE Busy(c)
    BY <1>1, <1>2 DEF Busy, At
  <1>3. ASSUME NEW old \in Keys, RekeyRefused(c, old)
        PROVE  Inv'
    BY <1>1, <1>3 DEF RekeyRefused, At
  <1>4. CASE DeleteOldKey(c)
    <2>1. /\ calls[c].pc = "delete" /\ UNCHANGED <<ledger, rows, sentinel, cache>>
          /\ Go(c, [calls[c] EXCEPT !.pc = "probe"])
      BY <1>4 DEF DeleteOldKey, At, GoTo
    <2>2. /\ calls[c] \in CallType /\ CallOK(c, calls[c]) /\ ~At(c, "idle")
          /\ calls[c].kind = "rekey" /\ ~calls[c].late /\ Active = "v2"
      BY <2>1, RekeyFacts
    <2>3. Active' = Active
      BY <2>1 DEF Active
    <2>4. keychain'["v2"] = keychain["v2"]
      BY <1>4 DEF DeleteOldKey, Inv, TypeOK, Versions
    <2>5. Sound'
      BY <2>1, <2>2, <2>3, <2>4 DEF Inv, Sound, LedgerShape, RowsOfV1, Readable,
                                    CanaryVouches, CacheCurrent
    <2>6. "probe" \in Pcs
      BY DEF Pcs
    <2>7. CallOK(c, [calls[c] EXCEPT !.pc = "probe"])
      BY <2>2, <2>6, GoToOK DEF Threads
    <2>8. [calls[c] EXCEPT !.pc = "probe"] \in CallType
      BY <2>2, <2>6 DEF CallType
    <2> QED BY <2>1, <2>2, <2>3, <2>4, <2>5, <2>7, <2>8, Step
  <1> QED BY <1>2, <1>3, <1>4

\* the probe is no part of what keeps rows readable
LEMMA OnlyTheProbe ==
  ASSUME Inv, UNCHANGED <<keychain, rows>>,
         \A v \in Versions : /\ ledger'[v].status = ledger[v].status
                             /\ ledger'[v].canary = ledger[v].canary,
         \A d \in Desktops : cache'[d] \in {cache[d], NoCache}
  PROVE  Sound' /\ Active' = Active
  <1>1. ledger'["v2"].status = ledger["v2"].status /\ ledger'["v1"].status = ledger["v1"].status
    BY DEF Versions
  <1>2. Active' = Active
    BY <1>1, SameStatus
  <1>3. CacheCurrent'
    BY <1>2 DEF Inv, Sound, CacheCurrent, NoCache
  <1> QED BY <1>1, <1>2, <1>3, ActiveType
          DEF Inv, Sound, LedgerShape, RowsOfV1, Readable, CanaryVouches

LEMMA PopulatedSame ==
  ASSUME TypeOK, ledger' \in {ledger, Populated}
  PROVE  \A v \in Versions : /\ ledger'[v].status = ledger[v].status
                             /\ ledger'[v].canary = ledger[v].canary
  BY ActiveType DEF TypeOK, Populated, LedgerRow

LEMMA ProbeStep ==
  ASSUME Inv, TypeOK', NEW c \in Calls, ProbeCycle(c) \/ ProbeResync(c)
  PROVE  Inv'
  <1>0. /\ calls[c] \in CallType /\ CallOK(c, calls[c]) /\ ~At(c, "idle")
        /\ UNCHANGED <<keychain, rows, sentinel, cache>> /\ "probe" \in Pcs
    BY StageFacts DEF ProbeCycle, ProbeResync, At, Pcs
  <1>1. CASE ProbeCycle(c)
    <2>1. Sound' /\ Active' = Active
      BY <1>0, <1>1, PopulatedSame, OnlyTheProbe DEF ProbeCycle, Inv
    <2> QED BY <1>0, <1>1, <2>1, IdleType, IdleOK, Step DEF ProbeCycle, End
  <1>2. CASE ProbeResync(c)
    <2>1. \A v \in Versions : /\ ledger'[v].status = ledger[v].status
                              /\ ledger'[v].canary = ledger[v].canary
      BY <1>2, ActiveType DEF ProbeResync, Inv, TypeOK, LedgerRow
    <2>2. Sound' /\ Active' = Active
      BY <1>0, <2>1, OnlyTheProbe
    <2>3. Go(c, [calls[c] EXCEPT !.pc = "probe"]) /\ calls[c].pc = "resync"
      BY <1>2 DEF ProbeResync, GoTo, At
    <2>4. calls[c].kind = "resync" /\ ~calls[c].late
      BY <1>0, <2>3, StageFacts DEF CallOK, SaveOK, Threads
    <2>5. CallOK(c, [calls[c] EXCEPT !.pc = "probe"])
      BY <1>0, <2>4, GoToOK
    <2>6. [calls[c] EXCEPT !.pc = "probe"] \in CallType
      BY <1>0 DEF CallType
    <2> QED BY <1>0, <2>2, <2>3, <2>5, <2>6, Step
  <1> QED BY <1>1, <1>2

LEMMA CommandingStep ==
  ASSUME Inv, TypeOK', \A d, e \in Desktops : d = e, NEW c \in Calls, Commanding(c)
  PROVE  Inv'
  BY WriteRowStep, MintKeyStep, RekeyCommitStep, RekeyEndStep, ProbeStep DEF Commanding

-----------------------------------------------------------------------------
(* The processes *)

LEMMA RestartStep ==
  ASSUME Inv, TypeOK', NEW d \in Desktops, Restart(d)
  PROVE  Inv'
  <1>1. Sound' /\ Active' = Active
    <2>1. \A e \in Desktops : cache'[e] \in {cache[e], NoCache}
      BY DEF Restart, Inv, TypeOK
    <2>2. UNCHANGED <<keychain, rows>>
      BY DEF Restart
    <2>3. \A v \in Versions : /\ ledger'[v].status = ledger[v].status
                              /\ ledger'[v].canary = ledger[v].canary
      BY PopulatedSame DEF Restart, Inv
    <2> QED BY <2>1, <2>2, <2>3, OnlyTheProbe
  <1>2. UNCHANGED keychain /\ \A c \in Calls : calls'[c] \in {calls[c], Idle}
    BY DEF Restart
  <1>3. Alone'
    <2>1. \A c \in Calls : At(c, "idle") => At(c, "idle")'
      BY <1>2 DEF At, Idle
    <2> QED BY <1>1, <1>2, <2>1, StaysAlone DEF Inv
  <1>4. ASSUME NEW c \in Calls
        PROVE  CallOK(c, calls[c])'
    <2>1. CASE calls[c].desktop = d
      <3>1. calls'[c] = Idle
        BY <2>1 DEF Restart
      <3> QED BY <3>1 DEF CallOK, KeyOK, RekeyOK, SaveOK, HolderOK, Idle, Threads
    <2>2. CASE calls[c].desktop # d
      <3>1. calls'[c] = calls[c] /\ CallOK(c, calls[c])
        BY <2>2 DEF Restart, Inv
      <3>2. KeyOK(calls[c])' /\ RekeyOK(calls[c])' /\ SaveOK(calls[c])'
        BY <1>1, <1>2, <3>1 DEF CallOK, KeyOK, RekeyOK, SaveOK
      <3>3. HolderOK(c, calls[c])'
        BY <2>2, <3>1 DEF CallOK, HolderOK, Restart
      <3> QED BY <3>2, <3>3 DEF CallOK
    <2> QED BY <2>1, <2>2
  <1> QED BY <1>1, <1>3, <1>4 DEF Inv

LEMMA KillStep ==
  ASSUME Inv, TypeOK', NEW c \in Calls, Kill(c)
  PROVE  Inv'
  BY IdleType, IdleOK, QuietStep DEF Kill, End

LEMMA DeleteStep ==
  ASSUME Inv, TypeOK', NEW d \in Desktops, NEW r \in Rows, Delete(d, r)
  PROVE  Inv'
  <1>1. UNCHANGED <<keychain, ledger, cache, lock, calls>>
    BY DEF Delete
  <1>2. \A s \in Rows : rows'[s] \in {rows[s], NoRow}
    BY DEF Delete, Inv, TypeOK
  <1>3. Sound'
    BY <1>1, <1>2 DEF Inv, Sound, LedgerShape, RowsOfV1, Readable, CanaryVouches,
                      CacheCurrent, Active, NoRow
  <1>4. Alone'
    BY <1>1 DEF Inv, Alone, Active, At
  <1>5. \A c \in Calls : CallOK(c, calls[c])'
    BY <1>1 DEF Inv, CallOK, KeyOK, RekeyOK, SaveOK, HolderOK, Active
  <1> QED BY <1>3, <1>4, <1>5 DEF Inv

-----------------------------------------------------------------------------

LEMMA NextInv ==
  ASSUME RekeyIfApplicable, FirstRunAlone, ~LookupFails, \A d, e \in Desktops : d = e,
         Inv, [Next]_vars
  PROVE  Inv'
  <1>1. TypeOK'
    BY NextType DEF Inv
  <1>2. CASE UNCHANGED vars
    <2>1. Sound' /\ Active' = Active /\ UNCHANGED <<keychain, lock, calls>>
      BY <1>2, StaysSound DEF vars, Inv, store
    <2>2. Alone'
      BY <2>1 DEF Inv, Alone, At
    <2>3. \A c \in Calls : CallOK(c, calls[c])'
      BY <2>1 DEF Inv, CallOK, KeyOK, RekeyOK, SaveOK, HolderOK
    <2> QED BY <1>1, <2>1, <2>2, <2>3 DEF Inv
  <1>3. ASSUME NEW c \in Calls, NEW d \in Desktops, Save(c, d) \/ Resync(c, d) \/ Rekey(c, d)
        PROVE  Inv'
    BY <1>1, <1>3, CommandStep
  <1>4. ASSUME NEW c \in Calls, NEW d \in Desktops \cup {Cli}, Read(c, d)
        PROVE  Inv'
    BY <1>1, <1>4, ReadStep
  <1>5. ASSUME NEW c \in Calls, Resolving(c)
        PROVE  Inv'
    BY <1>1, <1>5, ResolvingStep
  <1>6. ASSUME NEW c \in Calls, Commanding(c)
        PROVE  Inv'
    BY <1>1, <1>6, CommandingStep
  <1>7. ASSUME NEW c \in Calls, Kill(c)
        PROVE  Inv'
    BY <1>1, <1>7, KillStep
  <1>8. ASSUME NEW d \in Desktops, Restart(d)
        PROVE  Inv'
    BY <1>1, <1>8, RestartStep
  <1>9. ASSUME NEW d \in Desktops, NEW r \in Rows, Delete(d, r)
        PROVE  Inv'
    BY <1>1, <1>9, DeleteStep
  <1> QED BY <1>2, <1>3, <1>4, <1>5, <1>6, <1>7, <1>8, <1>9 DEF Next

LEMMA InvAlways ==
  ASSUME RekeyIfApplicable, FirstRunAlone, ~LookupFails, \A d, e \in Desktops : d = e
  PROVE  Spec => []Inv
  <1>1. Inv /\ [Next]_vars => Inv'
    BY NextInv
  <1> QED BY <1>1, InitInv, PTL DEF Spec

\* With one desktop whose user rekeys only where the ledger says it applies, a first
\* key made with nobody else about, and a ledger that every call can read: whatever is
\* killed, times out or comes late, every stored row opens under the active keychain
\* entry.
THEOREM ReadableAlways ==
  ASSUME RekeyIfApplicable, FirstRunAlone, ~LookupFails, \A d, e \in Desktops : d = e
  PROVE  Spec => []Readable
  <1>1. Inv => Readable
    BY DEF Inv, Sound
  <1> QED BY <1>1, InvAlways, PTL

\* On the same assumptions, the active version's canary was made with the key in the
\* active keychain entry: what a launch and a rekey test a key against is not another
\* key's, between any two of their writes to ledger and keychain.
THEOREM CanaryVouchesAlways ==
  ASSUME RekeyIfApplicable, FirstRunAlone, ~LookupFails, \A d, e \in Desktops : d = e
  PROVE  Spec => []CanaryVouches
  <1>1. Inv => CanaryVouches
    BY DEF Inv, Sound
  <1> QED BY <1>1, InvAlways, PTL

\* On the same assumptions, a key cached by the desktop that passes the check against the
\* ledger is the one in the keychain, however late the thread that filled the cache.
THEOREM CacheCurrentAlways ==
  ASSUME RekeyIfApplicable, FirstRunAlone, ~LookupFails, \A d, e \in Desktops : d = e
  PROVE  Spec => []CacheCurrent
  <1>1. Inv => CacheCurrent
    BY DEF Inv, Sound
  <1> QED BY <1>1, InvAlways, PTL
=============================================================================
