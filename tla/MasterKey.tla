------------------------------ MODULE MasterKey ------------------------------
(* The key under which stored API keys are encrypted (encryption.rs of the
   desktop and of the command line, rekey.rs, commands/llm_api_keys.rs).

   The key lives in the operating system's keychain, one entry per version; the
   ledger in SQLite says which version is active; the encrypted rows are in
   SQLite too. No transaction spans the keychain and the database. A step is one
   keychain call, one statement, or one BEGIN IMMEDIATE transaction.

   A call is one run of a command that needs the key: a read (a dispatch or a
   reveal, in a desktop or a command-line process), a save or rotation of a row,
   a rekey, or a resync of the probe. The last three hold their desktop's one
   database mutex from start to end. The keychain part of a call runs in a thread
   of its own, which outlives the call when it times out. *)
EXTENDS FiniteSets

CONSTANTS
    Desktops,       \* running desktop applications
    Cli,            \* stands for the process of a command-line call
    Calls,          \* calls and keychain threads that may be in flight at once
    NoCall,
    Keys,           \* 32-byte keys; enough that a fresh one always exists
    NoKey,          \* an absent keychain entry, a NULL canary, a NULL probe
    Binary,         \* the probe of the running binary's signature (compute_probe)
    Rows,           \* rows of llm_api_keys
    Installs,       \* "fresh" and/or "upgraded": how the machine starts out
    RekeyIfApplicable, \* rekey is asked for only where get_rekey_applicability says so
    FirstRunAlone,  \* nobody else starts until the first key is in the keychain
    TimeOuts,       \* whether the keychain may take longer than KEYCHAIN_TIMEOUT_SECS
    LookupFails     \* whether a call may fail to read which version is active

ASSUME KeyAssumption ==
    /\ NoKey \notin Keys /\ Binary \notin Keys /\ Binary # NoKey
    /\ Cli \notin Desktops /\ NoCall \notin Calls
    /\ Installs \subseteq {"fresh", "upgraded"}
    /\ RekeyIfApplicable \in BOOLEAN /\ FirstRunAlone \in BOOLEAN
    /\ TimeOuts \in BOOLEAN /\ LookupFails \in BOOLEAN

VARIABLES
    keychain,   \* per version, the key of account master_key_<version>
    ledger,     \* master_key_ledger: per version, its status, canary and probe
    rows,       \* llm_api_keys: the key each row is encrypted under, its key_version
    sentinel,   \* whether ~/.ato/.master_key_initialized exists
    cache,      \* MASTER_KEY_CACHE of every desktop process
    lock,       \* which call holds a desktop's database mutex
    calls

store == <<keychain, ledger, rows, sentinel>>
vars == <<store, cache, lock, calls>>

Versions == {"v1", "v2"}

\* The one not retired; v2 is the newest when there are two.
Active == IF ledger["v2"].status = "active" THEN "v2" ELSE "v1"

NoRow == [key |-> NoKey, version |-> "v1"]
NoCache == [account |-> "v1", key |-> NoKey]
Idle == [pc |-> "idle", kind |-> "none", desktop |-> Cli, account |-> "v1",
         key |-> NoKey, sealed |-> NoKey, late |-> FALSE]

At(c, pc) == calls[c].pc = pc
Threads == {"get", "first", "set", "confirm", "stamp"}

\* OsRng: a key nobody has yet.
Fresh == {k \in Keys :
    /\ \A v \in Versions : k \notin {keychain[v], ledger[v].canary, ledger[v].probe}
    /\ \A r \in Rows : k # rows[r].key
    /\ \A d \in Desktops : k # cache[d].key
    /\ \A c \in Calls : k \notin {calls[c].key, calls[c].sealed}}

-----------------------------------------------------------------------------
(* How a machine starts out: nothing yet, or a key and rows from before the
   canary, the probe and the first-run sentinel existed *)

Init ==
    /\ \/ "fresh" \in Installs /\ keychain = [v \in Versions |-> NoKey]
       \/ "upgraded" \in Installs
            /\ \E k \in Keys : keychain = [v \in Versions |-> IF v = "v1" THEN k ELSE NoKey]
    /\ \E probe \in {NoKey, Binary} :
         ledger = [v \in Versions |->
                     [status |-> IF v = "v1" THEN "active" ELSE "absent", canary |-> NoKey,
                      probe |-> IF v = "v1" THEN probe ELSE NoKey]]
    /\ rows = [r \in Rows |-> [NoRow EXCEPT !.key = keychain["v1"]]]
    /\ sentinel = FALSE
    /\ cache = [d \in Desktops |-> NoCache]
    /\ lock = [d \in Desktops |-> NoCall]
    /\ calls = [c \in Calls |-> Idle]

\* The call goes on as rec; when that is the end, it lets go of the mutex.
Go(c, rec) ==
    /\ calls' = [calls EXCEPT ![c] = rec]
    /\ lock' = [d \in Desktops |->
                    IF lock[d] = c /\ rec.pc = "idle" THEN NoCall ELSE lock[d]]

GoTo(c, pc) == Go(c, [calls[c] EXCEPT !.pc = pc])
End(c) == Go(c, Idle)

-----------------------------------------------------------------------------
(* The commands *)

MayBegin(c) ==
    /\ At(c, "idle")
    /\ FirstRunAlone => keychain[Active] # NoKey \/ \A b \in Calls : At(b, "idle")

\* decrypt, from a dispatch (no mutex) or from `reveal`, and in the command line
Read(c, d) ==
    /\ MayBegin(c)
    /\ Go(c, [Idle EXCEPT !.pc = "resolve", !.kind = "read", !.desktop = d])
    /\ UNCHANGED <<store, cache>>

\* a command that takes the desktop's mutex and goes on at pc
Command(c, d, kind, pc) ==
    /\ MayBegin(c)
    /\ lock[d] = NoCall
    /\ lock' = [lock EXCEPT ![d] = c]
    /\ calls' = [calls EXCEPT ![c] = [Idle EXCEPT !.pc = pc, !.kind = kind, !.desktop = d]]
    /\ UNCHANGED <<store, cache>>

Save(c, d) == Command(c, d, "save", "resolve")
Resync(c, d) == Command(c, d, "resync", "resolve")
Rekey(c, d) ==
    /\ RekeyIfApplicable => Active = "v1"
    /\ Command(c, d, "rekey", "mint")

Delete(d, r) ==
    /\ lock[d] = NoCall
    /\ rows[r] # NoRow
    /\ rows' = [rows EXCEPT ![r] = NoRow]
    /\ UNCHANGED <<keychain, ledger, sentinel, cache, lock, calls>>

-----------------------------------------------------------------------------
(* master_key: the cache, checked against the ledger, or the keychain *)

\* Where a call goes on once it has key k. A save encrypts, then decrypts what it
\* has encrypted, resolving the key again, and stores only what it can read back.
After(c, k) ==
    CASE calls[c].kind = "save" /\ calls[c].sealed = NoKey ->
            [calls[c] EXCEPT !.pc = "resolve", !.sealed = k]
      [] calls[c].kind = "save" /\ calls[c].sealed = k -> [calls[c] EXCEPT !.pc = "write"]
      [] calls[c].kind = "resync" -> [calls[c] EXCEPT !.pc = "resync", !.key = k]
      [] OTHER -> Idle

CacheHit(c) ==
    /\ At(c, "resolve")
    /\ calls[c].desktop # Cli
    /\ cache[calls[c].desktop].key # NoKey
    /\ cache[calls[c].desktop].account = Active
    /\ Go(c, After(c, cache[calls[c].desktop].key))
    /\ UNCHANGED <<store, cache>>

\* a call that cannot read the ledger takes the first version's account
CacheMiss(c) ==
    /\ At(c, "resolve")
    /\ calls[c].desktop # Cli /\ ~LookupFails =>
         cache[calls[c].desktop].key = NoKey \/ cache[calls[c].desktop].account # Active
    /\ \E account \in {Active} \cup (IF LookupFails THEN {"v1"} ELSE {}) :
         Go(c, [calls[c] EXCEPT !.pc = "get", !.account = account])
    /\ UNCHANGED <<store, cache>>

GetPassword(c) ==
    /\ At(c, "get")
    /\ Go(c, IF keychain[calls[c].account] = NoKey
             THEN [calls[c] EXCEPT !.pc = "first"]
             ELSE [calls[c] EXCEPT !.pc = "stamp", !.key = keychain[calls[c].account]])
    /\ UNCHANGED <<store, cache>>

\* any keychain error but NoEntry fails the call, and never makes a key
Denied(c) ==
    /\ At(c, "get") \/ At(c, "set") \/ At(c, "confirm")
    /\ End(c)
    /\ UNCHANGED <<store, cache>>

\* NoEntry: a first run, unless the sentinel says there has been one
FirstRun(c) ==
    /\ At(c, "first")
    /\ IF sentinel THEN End(c) ELSE GoTo(c, "set")
    /\ UNCHANGED <<store, cache>>

SetPassword(c) ==
    /\ At(c, "set")
    /\ \E k \in Fresh : keychain' = [keychain EXCEPT ![calls[c].account] = k]
    /\ GoTo(c, "confirm")
    /\ UNCHANGED <<ledger, rows, sentinel, cache>>

\* whoever set last, theirs is the key
Confirm(c) ==
    /\ At(c, "confirm")
    /\ IF keychain[calls[c].account] = NoKey
       THEN End(c)
       ELSE Go(c, [calls[c] EXCEPT !.pc = "stamp", !.key = keychain[calls[c].account]])
    /\ UNCHANGED <<store, cache>>

\* the last thing the keychain thread does; nobody waits for one that is late
Stamp(c) ==
    /\ At(c, "stamp")
    /\ sentinel' = TRUE
    /\ IF calls[c].late THEN End(c) ELSE GoTo(c, "canary")
    /\ UNCHANGED <<keychain, ledger, rows, cache>>

TimeOut(c) ==
    /\ TimeOuts
    /\ calls[c].pc \in Threads
    /\ ~calls[c].late
    /\ calls' = [calls EXCEPT ![c].late = TRUE]
    /\ lock' = [d \in Desktops |-> IF lock[d] = c THEN NoCall ELSE lock[d]]
    /\ UNCHANGED <<store, cache>>

\* ensure_canary_initialized: a read, then a write if there was none
LookForCanary(c) ==
    /\ At(c, "canary")
    /\ GoTo(c, IF ledger[calls[c].account].status = "active"
                    /\ ledger[calls[c].account].canary # NoKey
               THEN "cache" ELSE "plant")
    /\ UNCHANGED <<store, cache>>

\* variant: the canary goes to whatever row is active by now
PlantOnActive(c) ==
    /\ At(c, "plant")
    /\ ledger' = [ledger EXCEPT ![Active].canary = calls[c].key]
    /\ GoTo(c, "cache")
    /\ UNCHANGED <<keychain, rows, sentinel, cache>>

PlantCanary(c) ==
    /\ At(c, "plant")
    /\ ledger' = IF ledger[calls[c].account].status = "active"
                 THEN [ledger EXCEPT ![calls[c].account].canary = calls[c].key]
                 ELSE ledger
    /\ GoTo(c, "cache")
    /\ UNCHANGED <<keychain, rows, sentinel, cache>>

\* variant: the key is cached under the account that is active by now
FillCacheAsActive(c) ==
    /\ At(c, "cache")
    /\ cache' = [d \in Desktops |->
                    IF d = calls[c].desktop
                    THEN [account |-> Active, key |-> calls[c].key] ELSE cache[d]]
    /\ Go(c, After(c, calls[c].key))
    /\ UNCHANGED store

\* variant: the cache of before 2.14.3, a key without its account
FillCacheBare(c) ==
    /\ At(c, "cache")
    /\ cache' = [d \in Desktops |->
                    IF d = calls[c].desktop THEN [key |-> calls[c].key] ELSE cache[d]]
    /\ Go(c, After(c, calls[c].key))
    /\ UNCHANGED store

FillCache(c) ==
    /\ At(c, "cache")
    /\ cache' = [d \in Desktops |->
                    IF d = calls[c].desktop
                    THEN [account |-> calls[c].account, key |-> calls[c].key]
                    ELSE cache[d]]
    /\ Go(c, After(c, calls[c].key))
    /\ UNCHANGED store

-----------------------------------------------------------------------------
(* save_llm_api_key and rotate_llm_api_key *)

\* An insert takes the column's default 'v1', a rotation leaves key_version alone.
WriteRow(c) ==
    /\ At(c, "write")
    /\ \E r \in Rows : rows' = [rows EXCEPT ![r].key = calls[c].sealed]
    /\ End(c)
    /\ UNCHANGED <<keychain, ledger, sentinel, cache>>

-----------------------------------------------------------------------------
(* rekey_master_key_with_keychain *)

\* variant: the new key takes the old one's place at once
MintAndDelete(c) ==
    /\ At(c, "mint")
    /\ \E k \in Fresh :
         /\ keychain' = [v1 |-> NoKey, v2 |-> k]
         /\ Go(c, [calls[c] EXCEPT !.pc = "rekey", !.key = k])
    /\ UNCHANGED <<ledger, rows, sentinel, cache>>

\* the new key is in the keychain before the transaction looks at anything
MintKey(c) ==
    /\ At(c, "mint")
    /\ \E k \in Fresh :
         /\ keychain' = [keychain EXCEPT !["v2"] = k]
         /\ Go(c, [calls[c] EXCEPT !.pc = "rekey", !.key = k])
    /\ UNCHANGED <<ledger, rows, sentinel, cache>>

\* What rekey_inner accepts of the pasted key: it opens the canary, agrees with the
\* probe where there is one, and opens every row of version v1.
ProbeAgrees(old) == ledger["v1"].probe \in {NoKey, old}

Accepted(old) ==
    /\ ledger["v1"].status = "active" /\ ledger["v2"].status = "absent"
    /\ ledger["v1"].canary = old
    /\ ProbeAgrees(old)
    /\ \A r \in Rows : rows[r].version = "v1" => rows[r].key \in {NoKey, old}

\* One transaction: the rows, v1 retired, v2 with its canary; then the cache.
RekeyCommit(c, old) ==
    /\ At(c, "rekey")
    /\ Accepted(old)
    /\ rows' = [r \in Rows |->
                  IF rows[r].version = "v1" /\ rows[r].key # NoKey
                  THEN [key |-> calls[c].key, version |-> "v2"] ELSE rows[r]]
    /\ ledger' = [ledger EXCEPT
                    !["v1"].status = "retired",
                    !["v2"] = [status |-> "active", canary |-> calls[c].key, probe |-> NoKey]]
    /\ cache' = [cache EXCEPT ![calls[c].desktop] = NoCache]
    /\ GoTo(c, "delete")
    /\ UNCHANGED <<keychain, sentinel>>

RekeyRefused(c, old) ==
    /\ At(c, "rekey")
    /\ ~Accepted(old)
    /\ End(c)
    /\ UNCHANGED <<store, cache>>

\* the transaction cannot begin or cannot commit
Busy(c) ==
    /\ At(c, "rekey") \/ At(c, "resync")
    /\ End(c)
    /\ UNCHANGED <<store, cache>>

\* best effort
DeleteOldKey(c) ==
    /\ At(c, "delete")
    /\ keychain' \in {keychain, [keychain EXCEPT !["v1"] = NoKey]}
    /\ GoTo(c, "probe")
    /\ UNCHANGED <<ledger, rows, sentinel, cache>>

\* populate_active_row_with: only a NULL probe is filled
Populated == [ledger EXCEPT ![Active].probe = IF @ = NoKey THEN Binary ELSE @]

\* run_full_probe_cycle; a failed write is ignored
ProbeCycle(c) ==
    /\ At(c, "probe")
    /\ ledger' \in {ledger, Populated}
    /\ End(c)
    /\ UNCHANGED <<keychain, rows, sentinel, cache>>

-----------------------------------------------------------------------------
(* resolve_master_key_drift *)

\* probe_resync: the canary vouches for the key, whose hash becomes the probe
ProbeResync(c) ==
    /\ At(c, "resync")
    /\ ledger' = IF ledger[Active].canary # NoKey /\ ledger[Active].canary = calls[c].key
                 THEN [ledger EXCEPT ![Active].probe = calls[c].key]
                 ELSE ledger
    /\ GoTo(c, "probe")
    /\ UNCHANGED <<keychain, rows, sentinel, cache>>

-----------------------------------------------------------------------------
(* Processes *)

\* A desktop is quit or killed wherever it is, and started again.
Restart(d) ==
    /\ calls' = [c \in Calls |-> IF calls[c].desktop = d THEN Idle ELSE calls[c]]
    /\ lock' = [lock EXCEPT ![d] = NoCall]
    /\ cache' = [cache EXCEPT ![d] = NoCache]
    /\ ledger' \in {ledger, Populated}
    /\ UNCHANGED <<keychain, rows, sentinel>>

\* A command-line process is killed.
Kill(c) ==
    /\ ~At(c, "idle")
    /\ calls[c].desktop = Cli
    /\ End(c)
    /\ UNCHANGED <<store, cache>>

-----------------------------------------------------------------------------
Resolving(c) ==
    \/ CacheHit(c) \/ CacheMiss(c) \/ GetPassword(c) \/ Denied(c) \/ FirstRun(c)
    \/ SetPassword(c) \/ Confirm(c) \/ Stamp(c) \/ TimeOut(c)
    \/ LookForCanary(c) \/ PlantCanary(c) \/ FillCache(c)

Commanding(c) ==
    \/ WriteRow(c) \/ MintKey(c) \/ Busy(c) \/ DeleteOldKey(c) \/ ProbeCycle(c)
    \/ ProbeResync(c)
    \/ \E old \in Keys : RekeyCommit(c, old) \/ RekeyRefused(c, old)

Next ==
    \/ \E c \in Calls, d \in Desktops : Save(c, d) \/ Resync(c, d) \/ Rekey(c, d)
    \/ \E c \in Calls, d \in Desktops \cup {Cli} : Read(c, d)
    \/ \E c \in Calls : Resolving(c) \/ Commanding(c) \/ Kill(c)
    \/ \E d \in Desktops : Restart(d) \/ \E r \in Rows : Delete(d, r)

Spec == Init /\ [][Next]_vars

-----------------------------------------------------------------------------
KeyOrNone == Keys \cup {NoKey}

Pcs == Threads \cup {"idle", "resolve", "canary", "plant", "cache", "write", "mint",
                     "rekey", "delete", "probe", "resync"}

LedgerRow == [status : {"absent", "active", "retired"},
              canary : KeyOrNone, probe : KeyOrNone \cup {Binary}]

CallType == [pc : Pcs, kind : {"none", "read", "save", "rekey", "resync"},
             desktop : Desktops \cup {Cli}, account : Versions,
             key : KeyOrNone, sealed : KeyOrNone, late : BOOLEAN]

\* The type of every variable.
TypeOK ==
    /\ keychain \in [Versions -> KeyOrNone]
    /\ ledger \in [Versions -> LedgerRow]
    /\ rows \in [Rows -> [key : KeyOrNone, version : Versions]]
    /\ sentinel \in BOOLEAN
    /\ cache \in [Desktops -> [account : Versions, key : KeyOrNone]]
    /\ lock \in [Desktops -> Calls \cup {NoCall}]
    /\ calls \in [Calls -> CallType]

\* "your stored keys never get orphaned": every stored row opens under the keychain
\* entry of the version the ledger calls active, wherever a process is killed.
Readable == \A r \in Rows : rows[r].key # NoKey => rows[r].key = keychain[Active]

\* The canary proves what it is used to prove: the active version's canary was made
\* with the key in the active version's keychain entry.
CanaryVouches == ledger[Active].canary # NoKey => ledger[Active].canary = keychain[Active]

\* A cached key that passes the check against the ledger is the keychain's own.
CacheCurrent ==
    \A d \in Desktops :
        cache[d].key # NoKey /\ cache[d].account = Active => cache[d].key = keychain[Active]

-----------------------------------------------------------------------------
(* What comments say, and the code does not do *)

\* What rekey needs from the user is "the OLD master key": given the key that wrote
\* the canary of an active v1, it goes through.
RightKeyAccepted ==
    \A c \in Calls :
        At(c, "rekey") /\ ledger["v1"].status = "active" /\ ledger["v1"].canary # NoKey =>
            Accepted(ledger["v1"].canary)
=============================================================================
