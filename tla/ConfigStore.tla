----------------------------- MODULE ConfigStore -----------------------------
(***************************************************************************)
(* The configuration store: one row per key in user_config, a history of   *)
(* its changes, and a copy of each row in Redis that readers fill and      *)
(* that expires by itself.  A save (PUT /settings, an imported YAML file,  *)
(* a revert to an older row) is one transaction of several statements and  *)
(* empties the copies of its keys while that transaction is still open;    *)
(* a reader looks into Redis, then into the table, then writes what it     *)
(* found back to Redis, in three separate steps.                           *)
(***************************************************************************)
EXTENDS Naturals, Sequences, FiniteSets

CONSTANTS
    ConfigKeys,      \* the keys PUT and import accept
    ConfigValues,    \* values of a key
    Unset,           \* no row: the defaults of the code apply
    Missing,         \* no copy in Redis
    Saves,           \* requests that write
    SaveKind,        \* [Saves -> {"put", "import", "dry_run", "revert"}]
    SaveYaml,        \* [Saves -> Seq(change)], the keys in the file's order
    Reads,           \* reads of one key through _get_typed
    MaxConfigSaves,  \* bound on the requests of Saves one behaviour begins
    MaxConfigFaults  \* bound on Redis errors and dying requests

Changes(keys) == [key : keys, value : ConfigValues]

ASSUME ConfigAssumption ==
    /\ Unset \notin ConfigValues /\ Missing \notin ConfigValues /\ Unset # Missing
    /\ SaveKind \in [Saves -> {"put", "import", "dry_run", "revert"}]
    /\ MaxConfigSaves \in Nat /\ MaxConfigFaults \in Nat

VARIABLES
    configValue,   \* user_config, committed
    configCache,   \* Redis
    configHistory, \* user_config_history in the order of the commits (its
                   \* changed_at is the start of the transaction)
    saves,         \* the writing requests
    reads,         \* the reading ones
    overlapped,    \* keys that two open transactions have both read to write them
    configFaults

configVars ==
    <<configValue, configCache, configHistory, saves, reads, overlapped, configFaults>>

Stored == ConfigValues \cup {Unset}
Row == [key : ConfigKeys, old : Stored, new : ConfigValues]
NoneSeen == [k \in ConfigKeys |-> Unset]
OpenSave == {"read", "upsert", "invalidate", "commit"}

ConfigTypeOK ==
    /\ configValue \in [ConfigKeys -> Stored]
    /\ configCache \in [ConfigKeys -> Stored \cup {Missing}]
    /\ configHistory \in Seq(Row)
    /\ saves \in [Saves -> [at : {"idle", "ended"} \cup OpenSave,
                            todo : Seq(Changes(ConfigKeys)),
                            rows : Seq(Row), old : Stored,
                            seen : [ConfigKeys -> Stored]]]
    /\ reads \in [Reads -> [at : {"idle", "select", "fill", "ended"},
                            key : ConfigKeys, found : Stored]]
    /\ overlapped \subseteq ConfigKeys
    /\ configFaults \in 0..MaxConfigFaults

ConfigInit ==
    /\ configValue = [k \in ConfigKeys |-> Unset]
    /\ configCache = [k \in ConfigKeys |-> Missing]
    /\ configHistory = <<>>
    /\ saves = [s \in Saves |-> [at |-> "idle", todo |-> <<>>, rows |-> <<>>, old |-> Unset,
                                 seen |-> NoneSeen]]
    /\ reads = [r \in Reads |-> [at |-> "idle", key |-> CHOOSE k \in ConfigKeys : TRUE,
                                 found |-> Unset]]
    /\ overlapped = {} /\ configFaults = 0

ConfigFault == configFaults < MaxConfigFaults /\ configFaults' = configFaults + 1

-----------------------------------------------------------------------------
(* A request that writes.                                                  *)

Key(s) == Head(saves[s].todo).key

(* The keys a transaction has written: it holds their row locks.           *)
Wrote(s) == {saves[s].rows[i].key : i \in DOMAIN saves[s].rows}

(* The keys it has read and means to write or has written.                 *)
Touched(s) ==
    Wrote(s) \cup (IF saves[s].at = "upsert" THEN {Key(s)} ELSE {})
             \cup {k \in ConfigKeys : saves[s].seen[k] # Unset}

(* What a statement of s sees: its own write, or else the committed value. *)
Sees(s, k) ==
    IF k \in Wrote(s)
    THEN LET own == {i \in DOMAIN saves[s].rows : saves[s].rows[i].key = k}
         IN saves[s].rows[CHOOSE i \in own : \A j \in own : j <= i].new
    ELSE configValue[k]

(* The changes a request sets out to make.  PUT refuses an unknown key;    *)
(* an import leaves unknown keys out and those whose value is the stored   *)
(* one already; a revert takes the old value of a row of the history, and  *)
(* is refused where there was none.                                        *)
PutChanges(s) == SelectSeq(SaveYaml[s], LAMBDA c : c.key \in ConfigKeys)
ImportChanges(s) ==
    SelectSeq(SaveYaml[s], LAMBDA c : c.key \in ConfigKeys /\ configValue[c.key] # c.value)
RevertChanges(h) ==
    IF configHistory[h].old = Unset THEN <<>>
    ELSE <<[key |-> configHistory[h].key, value |-> configHistory[h].old]>>

KeysOf(changes) == {changes[i].key : i \in DOMAIN changes}

(* A request begins with what it means to change.  Of loaded, the keys     *)
(* whose rows it has loaded, its session keeps the values: a later SELECT  *)
(* of such a row gives the object that is already there, as it is.         *)
Begin(s, changes, loaded) ==
    /\ saves[s].at = "idle"
    /\ Cardinality({t \in Saves : saves[t].at # "idle"}) < MaxConfigSaves
    /\ LET seen == [k \in ConfigKeys |-> IF k \in loaded THEN configValue[k] ELSE Unset]
       IN /\ saves' = [saves EXCEPT ![s].at = IF changes = <<>> THEN "ended" ELSE "read",
                                    ![s].todo = changes, ![s].seen = seen]
          /\ overlapped' = overlapped \cup
                {k \in ConfigKeys : seen[k] # Unset /\ \E t \in Saves \ {s} : k \in Touched(t)}
    /\ UNCHANGED <<configValue, configCache, configHistory, reads, configFaults>>

(* Only an import loads rows before it writes: get_settings lists them all *)
(* (those it leaves as they are never matter again).                       *)
BeginPut(s) == SaveKind[s] = "put" /\ Begin(s, PutChanges(s), {})
BeginImport(s) ==
    SaveKind[s] = "import" /\ Begin(s, ImportChanges(s), KeysOf(ImportChanges(s)))
PreviewImport(s) == SaveKind[s] = "dry_run" /\ Begin(s, <<>>, {})
BeginRevert(s) ==
    /\ SaveKind[s] = "revert"
    /\ \E h \in DOMAIN configHistory : Begin(s, RevertChanges(h), {})

(* What upsert_setting takes for the current value of a key: what the      *)
(* session loaded at the start, although another request may have          *)
(* committed since; without such an object the table says it.  (A write    *)
(* refreshes the object.)                                                  *)
OldValue(s) ==
    IF Key(s) \in Wrote(s) \/ saves[s].seen[Key(s)] = Unset
    THEN Sees(s, Key(s)) ELSE saves[s].seen[Key(s)]

(* Faulty variant of ReadOld: the history row is given the new value.      *)
ReadOldAsNew(s) ==
    /\ saves[s].at = "read"
    /\ saves' = [saves EXCEPT ![s].at = "upsert", ![s].old = Head(saves[s].todo).value]
    /\ overlapped' = overlapped \cup {k \in {Key(s)} : \E t \in Saves \ {s} : k \in Touched(t)}
    /\ UNCHANGED <<configValue, configCache, configHistory, reads, configFaults>>

(* upsert_setting, first half: what it takes for the current value becomes *)
(* the old value of the history row.  No lock is taken.                    *)
ReadOld(s) ==
    /\ saves[s].at = "read"
    /\ saves' = [saves EXCEPT ![s].at = "upsert", ![s].old = OldValue(s)]
    /\ overlapped' = overlapped \cup {k \in {Key(s)} : \E t \in Saves \ {s} : k \in Touched(t)}
    /\ UNCHANGED <<configValue, configCache, configHistory, reads, configFaults>>

WaitsFor(s, t) ==
    /\ saves[s].at = "upsert" /\ t # s
    /\ saves[t].at \in OpenSave /\ Key(s) \in Wrote(t)

(* Second half: the history row is flushed and the row of the key is       *)
(* inserted or updated, once no other transaction has it locked.           *)
Upsert(s) ==
    /\ saves[s].at = "upsert"
    /\ \A t \in Saves : ~WaitsFor(s, t)
    /\ saves' = [saves EXCEPT
         ![s].at = "invalidate",
         ![s].rows = Append(@, [key |-> Key(s), old |-> saves[s].old,
                                new |-> Head(saves[s].todo).value])]
    /\ UNCHANGED <<configValue, configCache, configHistory, reads, overlapped, configFaults>>

(* invalidate: the copy is deleted, or Redis fails, which is logged only.  *)
Invalidate(s) ==
    /\ saves[s].at = "invalidate"
    /\ \/ configCache' = [configCache EXCEPT ![Key(s)] = Missing] /\ UNCHANGED configFaults
       \/ ConfigFault /\ UNCHANGED configCache
    /\ saves' = [saves EXCEPT ![s].at = IF Len(saves[s].todo) = 1 THEN "commit" ELSE "read",
                              ![s].todo = Tail(@)]
    /\ UNCHANGED <<configValue, configHistory, reads, overlapped>>

Ended(s) ==
    [saves EXCEPT ![s].at = "ended", ![s].todo = <<>>, ![s].rows = <<>>, ![s].seen = NoneSeen]

(* get_db commits after the handler has returned.                          *)
CommitSave(s) ==
    /\ saves[s].at = "commit"
    /\ configValue' = [k \in ConfigKeys |-> Sees(s, k)]
    /\ configHistory' = configHistory \o saves[s].rows
    /\ saves' = Ended(s)
    /\ UNCHANGED <<configCache, reads, overlapped, configFaults>>

(* The request dies; get_db or the database rolls the transaction back.    *)
AbortSave(s) ==
    /\ saves[s].at \in OpenSave
    /\ ConfigFault
    /\ saves' = Ended(s)
    /\ UNCHANGED <<configValue, configCache, configHistory, reads, overlapped>>

(* Transactions that wait for one another in a circle: the database aborts *)
(* one of them.                                                            *)
InDeadlock(s) ==
    \E C \in SUBSET Saves : s \in C /\ \A t \in C : \E u \in C : WaitsFor(t, u)
BreakDeadlock(s) ==
    /\ saves[s].at = "upsert" /\ InDeadlock(s)
    /\ saves' = Ended(s)
    /\ UNCHANGED <<configValue, configCache, configHistory, reads, overlapped, configFaults>>

-----------------------------------------------------------------------------
(* _get_typed, once for each of the keys of a snapshot.                    *)

(* A copy in Redis answers; otherwise, and when Redis fails, the table is  *)
(* asked next.                                                             *)
GetCached(r, k) ==
    /\ reads[r].at = "idle"
    /\ \/ /\ configCache[k] # Missing
          /\ reads' = [reads EXCEPT ![r] = [at |-> "ended", key |-> k, found |-> configCache[k]]]
          /\ UNCHANGED configFaults
       \/ /\ \/ configCache[k] = Missing /\ UNCHANGED configFaults
             \/ configCache[k] # Missing /\ ConfigFault
          /\ reads' = [reads EXCEPT ![r] = [at |-> "select", key |-> k, found |-> Unset]]
    /\ UNCHANGED <<configValue, configCache, configHistory, saves, overlapped>>

SelectStored(r) ==
    /\ reads[r].at = "select"
    /\ reads' = [reads EXCEPT ![r].at = "fill", ![r].found = configValue[reads[r].key]]
    /\ UNCHANGED <<configValue, configCache, configHistory, saves, overlapped, configFaults>>

FillCache(r) ==
    /\ reads[r].at = "fill"
    /\ \/ configCache' = [configCache EXCEPT ![reads[r].key] = reads[r].found]
          /\ UNCHANGED configFaults
       \/ ConfigFault /\ UNCHANGED configCache
    /\ reads' = [reads EXCEPT ![r].at = "ended"]
    /\ UNCHANGED <<configValue, configHistory, saves, overlapped>>

(* Faulty variant of ExpireCopy: the copy of a key without a row is kept   *)
(* for ever, as after SET instead of SETEX.                                *)
ExpireSomeCopies(k) ==
    /\ configCache[k] \notin {Missing, Unset}
    /\ configCache' = [configCache EXCEPT ![k] = Missing]
    /\ UNCHANGED <<configValue, configHistory, saves, reads, overlapped, configFaults>>

(* A copy lives for 300 seconds.                                           *)
ExpireCopy(k) ==
    /\ configCache[k] # Missing
    /\ configCache' = [configCache EXCEPT ![k] = Missing]
    /\ UNCHANGED <<configValue, configHistory, saves, reads, overlapped, configFaults>>

-----------------------------------------------------------------------------
SaveStep(s) ==
    ReadOld(s) \/ Upsert(s) \/ Invalidate(s) \/ CommitSave(s) \/ BreakDeadlock(s)
ReadStep(r) == SelectStored(r) \/ FillCache(r)

ConfigNext ==
    \/ \E s \in Saves : BeginPut(s) \/ BeginImport(s) \/ PreviewImport(s) \/ BeginRevert(s)
                        \/ SaveStep(s) \/ AbortSave(s)
    \/ \E r \in Reads : (\E k \in ConfigKeys : GetCached(r, k)) \/ ReadStep(r)
    \/ \E k \in ConfigKeys : ExpireCopy(k)

(* A request that was begun is served to its end, and Redis keeps time.    *)
ConfigFairness ==
    /\ \A s \in Saves : WF_configVars(SaveStep(s))
    /\ \A r \in Reads : WF_configVars(ReadStep(r))
    /\ \A k \in ConfigKeys : WF_configVars(ExpireCopy(k))

ConfigSpec == ConfigInit /\ [][ConfigNext]_configVars /\ ConfigFairness

-----------------------------------------------------------------------------
RowsOf(k) == {i \in DOMAIN configHistory : configHistory[i].key = k}
Newest(I) == CHOOSE i \in I : \A j \in I : j <= i

(* user_config says what the newest row of the history says.               *)
ValueIsNewestRow ==
    \A k \in ConfigKeys :
        configValue[k] = IF RowsOf(k) = {} THEN Unset ELSE configHistory[Newest(RowsOf(k))].new

(* A row starts from where the row before it ended, unless two saves had   *)
(* both read the key and were open at the same time, an import from its    *)
(* very start: reverting it undoes just that save.                         *)
HistoryIsChain ==
    \A k \in ConfigKeys \ overlapped : \A i \in RowsOf(k) :
        LET before == {j \in RowsOf(k) : j < i}
        IN configHistory[i].old = IF before = {} THEN Unset ELSE configHistory[Newest(before)].new

(* Redis never holds what was not committed at some time.                  *)
CopiesWereCommitted ==
    \A k \in ConfigKeys :
        configCache[k] \in {Missing, Unset} \cup {configHistory[i].new : i \in RowsOf(k)}

(* The history explains the store: upsert_setting writes the value and the *)
(* row that records it together, however requests overlap, fail or        *)
(* deadlock.                                                               *)
HistoryExplainsConfig == ValueIsNewestRow /\ HistoryIsChain /\ CopiesWereCommitted

(* Whatever stale copies a failed invalidation or a refill before the      *)
(* commit leaves, once the requests are over every key is read with its    *)
(* stored value: no save hangs and no copy outlives its time (config       *)
(* service: "TTL 300s" is the fallback of a lost invalidation).            *)
ConfigSettles ==
    <>[](/\ \A s \in Saves : saves[s].at \in {"idle", "ended"}
         /\ \A k \in ConfigKeys : configCache[k] \in {Missing, configValue[k]})
=============================================================================
