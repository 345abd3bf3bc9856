--------------------------- MODULE SettingsCache ---------------------------
(***************************************************************************)
(* The settings routes, SettingsService and the cache of settings in the   *)
(* process.                                                                *)
(*                                                                         *)
(* The routes write the cache after the service has flushed its change.    *)
(* Nothing commits the transaction: the session dependency closes it once  *)
(* the response is sent, which rolls it back.  What is committed is thus   *)
(* what migrations and operators have put there.  No await is made while   *)
(* the lock of the cache is held, so each of its operations is one step.   *)
(***************************************************************************)
EXTENDS Integers, FiniteSets

CONSTANTS Keys,       \* settings: a category and a key in it
          Category,   \* their categories
          Values,
          Protected,  \* settings that cannot be deleted
          Committed,  \* committed rows
          Requests,   \* bound: each made at most once
          Redacted, Deleted, Null

SettingRow == [value: Values, encrypted: BOOLEAN, public: BOOLEAN, editable: BOOLEAN]
CacheEntry == [value: Values \cup {Redacted}, encrypted: BOOLEAN]

Every == "every category"
Scopes == {Category[k] : k \in Keys} \cup {Every}
Scope(scope) == {k \in Keys : scope \in {Every, Category[k]}}

Columns == {"value", "encrypted", "public", "editable"}
Settable(set) ==
  /\ DOMAIN set \subseteq Columns
  /\ \E row \in SettingRow : \A c \in DOMAIN set : set[c] = row[c]

WriteOps == {"create", "update", "bulk_update", "delete", "bulk_delete"}
ReadOps == {"reload", "load"}

ValidRequest(r) ==
  \/ r.op = "create" /\ r.keys \in {{k} : k \in Keys} /\ r.row \in SettingRow
  \/ r.op = "update" /\ r.keys \in {{k} : k \in Keys} /\ Settable(r.set)
  \/ r.op = "bulk_update" /\ r.keys \subseteq Keys /\ Settable(r.set)
  \/ r.op = "delete" /\ r.keys \in {{k} : k \in Keys}
  \/ r.op = "bulk_delete" /\ r.keys \subseteq Keys
  \/ r.op \in ReadOps \cup {"clear"} /\ r.scope \in Scopes

\* _validate_encryption_flags and the CHECK of the table.
Coherent(row) == ~(row.encrypted /\ row.public)

ASSUME CommittedAssumption ==
  /\ Committed \in [Keys -> SettingRow \cup {Null}]
  /\ \A k \in Keys : Committed[k] # Null => Coherent(Committed[k])
ASSUME RequestsAssumption == \A r \in Requests : ValidRequest(r)
ASSUME MarkersAssumption ==
  /\ {Null, Deleted} \cap (SettingRow \cup CacheEntry) = {}
  /\ Null # Deleted /\ Redacted \notin Values

VARIABLES cache,    \* _store
          session,  \* the transaction of each request
          dirty     \* for the properties: keys written since their last load

vars == <<cache, session, dirty>>
----------------------------------------------------------------------------
\* wrote: the rows a transaction has written and locked; snapshot: what it
\* has read for the cache.
Fresh(step) ==
  [step |-> step, wrote |-> [k \in Keys |-> Null], snapshot |-> [k \in Keys |-> Null]]

Init ==
  /\ cache = [k \in Keys |-> Null]
  /\ session = [r \in Requests |-> Fresh("idle")]
  /\ dirty = {}

At(r, step) == session[r].step = step
Goto(r, state) == session' = [session EXCEPT ![r] = state]
Free(r, k) == \A q \in Requests \ {r} : session[q].wrote[k] = Null

\* The end of a request, or its failure at any point, rolls it back.
Close(r) ==
  /\ ~At(r, "idle") /\ ~At(r, "ended")
  /\ Goto(r, Fresh("ended"))
  /\ UNCHANGED <<cache, dirty>>
----------------------------------------------------------------------------
(* The service.                                                            *)

\* The row with what an update sets.
Resulting(r, k) ==
  [c \in Columns |-> IF c \in DOMAIN r.set THEN r.set[c] ELSE Committed[k][c]]

\* A request of any other transaction is invisible: it is never committed.
Admits(r) ==
  \A k \in r.keys :
    CASE r.op = "create" -> Committed[k] = Null /\ Coherent(r.row)
      [] r.op \in {"update", "bulk_update"} ->
           Committed[k] # Null /\ Committed[k].editable /\ Coherent(Resulting(r, k))
      [] r.op \in {"delete", "bulk_delete"} -> Committed[k] # Null /\ k \notin Protected

Load(r) ==
  /\ r.op \in WriteOps
  /\ At(r, "idle")
  /\ Admits(r)
  /\ Goto(r, Fresh("write"))
  /\ UNCHANGED <<cache, dirty>>

Written(r, k) ==
  CASE r.op = "create" -> r.row
    [] r.op \in {"update", "bulk_update"} -> Resulting(r, k)
    [] OTHER -> Deleted

\* No UPDATE is made for a row that keeps its values.
Changes(r) == {k \in r.keys : Written(r, k) # Committed[k]}

\* The rows, or the index entry of a new one, are locked until the rollback.
Write(r) ==
  /\ At(r, "write")
  /\ \A k \in Changes(r) : Free(r, k)
  /\ Goto(r, [session[r] EXCEPT
                !.step = IF r.op = "bulk_delete" THEN "snapshot" ELSE "cache",
                !.wrote = [k \in Keys |-> IF k \in Changes(r) THEN Written(r, k) ELSE Null]])
  /\ UNCHANGED <<cache, dirty>>

\* What a transaction sees: the committed rows and its own writes.
Visible(r, k) == IF session[r].wrote[k] = Null THEN Committed[k] ELSE session[r].wrote[k]

\* get_cache_snapshot redacts encrypted values.
SnapshotEntry(row) ==
  IF row \in {Null, Deleted} THEN Null
  ELSE [value |-> IF row.encrypted THEN Redacted ELSE row.value, encrypted |-> row.encrypted]

ScopeOf(r) == Scope(IF r.op = "bulk_delete" THEN Every ELSE r.scope)

Snapshot(r) ==
  /\ At(r, IF r.op \in ReadOps THEN "idle" ELSE "snapshot")
  /\ Goto(r, [session[r] EXCEPT
                !.step = "store",
                !.snapshot = [k \in Keys |-> IF k \in ScopeOf(r)
                                             THEN SnapshotEntry(Visible(r, k)) ELSE Null]])
  /\ UNCHANGED <<cache, dirty>>
----------------------------------------------------------------------------
(* The cache.                                                              *)

\* Mutant: the value of an encrypted setting is cached as it is.
UpdatedEntry_Plain(row) ==
  IF row = Deleted THEN Null ELSE [value |-> row.value, encrypted |-> row.encrypted]

\* update_cache_entry and remove_cache_entry.
UpdatedEntry(row) ==
  IF row = Deleted THEN Null
  ELSE [value |-> IF row.encrypted THEN Redacted ELSE row.value, encrypted |-> row.encrypted]

\* The routes write every entry of a batch without an await in between.
UpdateCache(r) ==
  /\ At(r, "cache")
  /\ cache' = [k \in Keys |-> IF k \in r.keys THEN UpdatedEntry(Visible(r, k))
                              ELSE cache[k]]
  /\ dirty' = dirty \cup r.keys
  /\ Goto(r, [session[r] EXCEPT !.step = "close"])

\* Mutant: a reload keeps the entries that are not in its snapshot.
Stored_NotCleared(r, k) ==
  IF session[r].snapshot[k] # Null THEN session[r].snapshot[k] ELSE cache[k]

\* load_cache adds its snapshot to the cache, reload_cache clears the scope
\* of its own first.
Stored(r, k) ==
  IF session[r].snapshot[k] # Null THEN session[r].snapshot[k]
  ELSE IF r.op # "load" /\ k \in ScopeOf(r) THEN Null
  ELSE cache[k]

\* A key is clean again unless the load found no row for it, or the reload
\* follows deletions that it sees.
Cleaned(r) ==
  IF r.op = "load" THEN {k \in Keys : session[r].snapshot[k] # Null}
  ELSE {k \in ScopeOf(r) : session[r].wrote[k] = Null}

Store(r) ==
  /\ At(r, "store")
  /\ cache' = [k \in Keys |-> Stored(r, k)]
  /\ dirty' = (dirty \ Cleaned(r)) \cup {k \in Keys : session[r].wrote[k] # Null}
  /\ Goto(r, [session[r] EXCEPT !.step = "close"])

Clear(r) ==
  /\ r.op = "clear" /\ At(r, "idle")
  /\ cache' = [k \in Keys |-> IF k \in Scope(r.scope) THEN Null ELSE cache[k]]
  /\ dirty' = dirty \ Scope(r.scope)
  /\ Goto(r, Fresh("ended"))

Next ==
  \E r \in Requests :
    Load(r) \/ Write(r) \/ Snapshot(r) \/ UpdateCache(r) \/ Store(r) \/ Clear(r) \/ Close(r)

Spec == Init /\ [][Next]_vars
----------------------------------------------------------------------------
\* A request that turns the encryption of setting k off.
Reveals(r, k) ==
  /\ r.op \in {"update", "bulk_update"} /\ k \in r.keys
  /\ "encrypted" \in DOMAIN r.set /\ ~r.set["encrypted"]

Served(r) == session[r].step \in {"close", "ended"}
Secret(k) == Committed[k] # Null /\ Committed[k].encrypted
Shown(k) == cache[k] # Null /\ cache[k].value # Redacted

\* What the cache shows of encrypted settings, by the update of an entry or by
\* a load: an entry that is flagged as encrypted is redacted, and so is that of
\* a setting whose committed row is encrypted, unless a request has turned its
\* encryption off and the key has not been loaded or cleared since.
SecretsRedacted ==
  \A k \in Keys :
    /\ cache[k] # Null /\ cache[k].encrypted => ~Shown(k)
    /\ Secret(k) /\ Shown(k) =>
         k \in dirty /\ \E r \in Requests : Reveals(r, k) /\ Served(r)

\* Entries are entries, secrets are redacted as far as that goes, and no
\* setting has two uncommitted writers.
TypeOK ==
  /\ cache \in [Keys -> CacheEntry \cup {Null}]
  /\ SecretsRedacted
  /\ dirty \subseteq Keys
  /\ \A r \in Requests : \A k \in Keys :
       session[r].wrote[k] # Null =>
         /\ session[r].wrote[k] \in SettingRow \cup {Deleted}
         /\ \A q \in Requests \ {r} : session[q].wrote[k] = Null

\* The changes of rolled back requests stay in the cache, but not for ever:
\* a key that has been reloaded, loaded or cleared since it was written shows
\* its committed row, or nothing, even if the snapshot of the reload is older
\* than the entry that it replaces.
CacheRecovers ==
  \A k \in Keys \ dirty : cache[k] \in {Null, SnapshotEntry(Committed[k])}
============================================================================
