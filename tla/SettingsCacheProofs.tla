------------------------ MODULE SettingsCacheProofs ------------------------
(***************************************************************************)
(* What the cache of settings shows, for any settings and requests.        *)
(* CacheRecovers is not inductive: what a clean key shows was prepared     *)
(* steps earlier, so the invariant says what each session holds (Prepared) *)
(* and that two transactions never write the same row (WritesLocked).      *)
(* SecretsRedacted needs both: a clean key shows nothing of a secret, and  *)
(* what a session is about to show was encrypted unless it says otherwise. *)
(***************************************************************************)
EXTENDS SettingsCache, TLAPS

Wrote == SettingRow \cup {Null, Deleted}

SessionState ==
  [step: {"idle", "write", "snapshot", "cache", "store", "close", "ended"},
   wrote: [Keys -> Wrote],
   snapshot: [Keys -> CacheEntry \cup {Null}]]

\* An update that sets columns of a row makes a row.
LEMMA UpdatesAreRows ==
  ASSUME NEW old \in SettingRow, NEW set, Settable(set)
  PROVE  [c \in Columns |-> IF c \in DOMAIN set THEN set[c] ELSE old[c]] \in SettingRow
<1>1. PICK row \in SettingRow : \A c \in DOMAIN set : set[c] = row[c]
  BY DEF Settable
<1> DEFINE new == [c \in Columns |-> IF c \in DOMAIN set THEN set[c] ELSE old[c]]
<1>2. /\ new["value"] \in Values
      /\ new["encrypted"] \in BOOLEAN
      /\ new["public"] \in BOOLEAN
      /\ new["editable"] \in BOOLEAN
  BY <1>1 DEF Columns, SettingRow
<1>3. new = [value |-> new.value, encrypted |-> new.encrypted,
             public |-> new.public, editable |-> new.editable]
  BY DEF Columns
<1> QED
  BY <1>2, <1>3 DEF SettingRow

\* Both ways into the cache redact the entries they flag as encrypted.
NoSecret(entry) == entry # Null /\ entry.encrypted => entry.value = Redacted

\* What is put into the cache is redacted.
LEMMA EntriesAreRedacted ==
  ASSUME NEW row \in SettingRow \cup {Deleted}
  PROVE  /\ UpdatedEntry(row) \in CacheEntry \cup {Null}
         /\ NoSecret(UpdatedEntry(row))
         /\ SnapshotEntry(row) \in CacheEntry \cup {Null}
         /\ NoSecret(SnapshotEntry(row))
<1>1. CASE row = Deleted
  BY <1>1 DEF UpdatedEntry, SnapshotEntry, NoSecret
<1>2. CASE row \in SettingRow
  <2>1. row # Null /\ row # Deleted
    BY <1>2, MarkersAssumption
  <2>2. row.value \in Values /\ row.encrypted \in BOOLEAN
    BY <1>2 DEF SettingRow
  <2> QED
    BY <2>1, <2>2 DEF UpdatedEntry, SnapshotEntry, NoSecret, CacheEntry
<1> QED
  BY <1>1, <1>2

\* The committed row of a key is turned into an entry that shows no secret.
LEMMA CommittedEntries ==
  ASSUME NEW k \in Keys
  PROVE  /\ SnapshotEntry(Committed[k]) \in CacheEntry \cup {Null}
         /\ NoSecret(SnapshotEntry(Committed[k]))
         /\ Secret(k) => SnapshotEntry(Committed[k]).value = Redacted
<1>1. CASE Committed[k] = Null
  BY <1>1 DEF SnapshotEntry, NoSecret, Secret
<1>2. CASE Committed[k] # Null
  <2>1. Committed[k] \in SettingRow /\ Committed[k] \notin {Null, Deleted}
    BY <1>2, CommittedAssumption, MarkersAssumption
  <2> QED
    BY <2>1, EntriesAreRedacted DEF SnapshotEntry, Secret
<1> QED
  BY <1>1, <1>2

\* What an admitted request writes is a row or a deletion.
LEMMA WritesAreRows ==
  ASSUME NEW r \in Requests, r.op \in WriteOps, Admits(r), NEW k \in r.keys
  PROVE  /\ k \in Keys
         /\ Written(r, k) \in SettingRow \cup {Deleted}
         /\ Written(r, k) = Committed[k] => Committed[k] \in SettingRow
<1>1. k \in Keys
  BY RequestsAssumption DEF ValidRequest, WriteOps, ReadOps
<1>2. CASE r.op = "create"
  <2>1. r.row \in SettingRow
    BY <1>2, RequestsAssumption DEF ValidRequest, ReadOps
  <2> QED
    BY <1>1, <1>2, <2>1 DEF Written
<1>3. CASE r.op \in {"update", "bulk_update"}
  <2>1. Settable(r.set)
    BY <1>3, RequestsAssumption DEF ValidRequest, ReadOps
  <2>2. Committed[k] # Null
    BY <1>3 DEF Admits
  <2>3. Committed[k] \in SettingRow
    BY <1>1, <2>2, CommittedAssumption
  <2>4. Resulting(r, k) \in SettingRow
    BY <2>1, <2>3, UpdatesAreRows DEF Resulting
  <2> QED
    BY <1>1, <1>3, <2>3, <2>4 DEF Written
<1>4. CASE r.op \in {"delete", "bulk_delete"}
  <2>1. Committed[k] # Null
    BY <1>4 DEF Admits
  <2> QED
    BY <1>1, <1>4, <2>1, CommittedAssumption DEF Written
<1> QED
  BY <1>2, <1>3, <1>4 DEF WriteOps
----------------------------------------------------------------------------
(* The invariant.                                                          *)

TypeInv ==
  /\ cache \in [Keys -> CacheEntry \cup {Null}]
  /\ session \in [Requests -> SessionState]
  /\ dirty \subseteq Keys

WritesLocked ==
  \A r \in Requests : \A q \in Requests \ {r} : \A k \in Keys :
    session[r].wrote[k] # Null => session[q].wrote[k] = Null

\* A row that would show the value of a secret.
Discloses(k, row) == Secret(k) /\ row # Deleted /\ ~row.encrypted

\* What a request knows at each of its steps: its writes were admitted, the
\* entries it is about to store were redacted, and a snapshot of a key that
\* the transaction has not written shows the committed row.
Prepared(r) ==
  /\ At(r, "idle") => \A k \in Keys : session[r].wrote[k] = Null
  /\ At(r, "write") => r.op \in WriteOps /\ Admits(r)
  /\ At(r, "cache") => /\ r.op \in WriteOps
                       /\ \A k \in r.keys :
                            /\ Visible(r, k) \in SettingRow \cup {Deleted}
                            /\ Discloses(k, Visible(r, k)) => Reveals(r, k)
  /\ At(r, "snapshot") => \A k \in Keys : session[r].wrote[k] \in {Null, Deleted}
  /\ At(r, "store") =>
       \A k \in Keys : session[r].snapshot[k] \in {Null, SnapshotEntry(Committed[k])}

Inv ==
  /\ TypeInv
  /\ SecretsRedacted
  /\ WritesLocked
  /\ \A r \in Requests : Prepared(r)
  /\ CacheRecovers

\* No session serves, nothing is cached: the invariant holds at the start.
LEMMA Initially == Init => Inv
<1> SUFFICES ASSUME Init PROVE Inv
  OBVIOUS
<1>1. TypeInv
  BY DEF Init, TypeInv, Fresh, SessionState, Wrote
<1>2. SecretsRedacted /\ CacheRecovers
  BY DEF Init, SecretsRedacted, Shown, CacheRecovers
<1>3. WritesLocked /\ \A r \in Requests : Prepared(r)
  BY DEF Init, WritesLocked, Prepared, Fresh, At
<1> QED
  BY <1>1, <1>2, <1>3 DEF Inv

\* The new state of one session, if it holds no lock that others hold, keeps
\* the sessions in order.
LEMMA OneSession ==
  ASSUME Inv, NEW r \in Requests, NEW state \in SessionState,
         Goto(r, state),
         \A k \in Keys : state.wrote[k] # Null => Free(r, k),
         Prepared(r)'
  PROVE  /\ session' \in [Requests -> SessionState]
         /\ WritesLocked'
         /\ \A q \in Requests : Prepared(q)'
<1>1. session' \in [Requests -> SessionState]
  BY DEF Inv, TypeInv, Goto
<1>2. /\ session'[r] = state
      /\ \A q \in Requests \ {r} : session'[q] = session[q]
  BY DEF Inv, TypeInv, Goto
<1>3. WritesLocked'
  BY <1>2 DEF Inv, WritesLocked, Free
<1>4. ASSUME NEW q \in Requests \ {r} PROVE Prepared(q)'
  BY <1>2, <1>4 DEF Inv, Prepared, At, Visible
<1> QED
  BY <1>1, <1>3, <1>4

\* A request that was served stays so.
LEMMA ServedForGood ==
  ASSUME Inv, NEW r \in Requests, NEW state, Goto(r, state),
         Served(r) => state.step \in {"close", "ended"}
  PROVE  \A q \in Requests : Served(q) => Served(q)'
<1>1. /\ session'[r] = state
      /\ \A q \in Requests \ {r} : session'[q] = session[q]
  BY DEF Inv, TypeInv, Goto
<1> QED
  BY <1>1 DEF Served

\* An admitted request writes the value of a secret in clear only if it turns
\* its encryption off: an update without the flag keeps that of the row.
LEMMA OnlyUpdatesDisclose ==
  ASSUME NEW r \in Requests, r.op \in WriteOps, Admits(r), NEW k \in r.keys,
         Discloses(k, Written(r, k))
  PROVE  Reveals(r, k)
<1>1. r.op \in {"update", "bulk_update"}
  BY DEF WriteOps, Admits, Written, Discloses, Secret
<1>2. ~Resulting(r, k).encrypted /\ Committed[k].encrypted
  BY <1>1 DEF Written, Discloses, Secret
<1>3. Resulting(r, k).encrypted =
        IF "encrypted" \in DOMAIN r.set THEN r.set["encrypted"] ELSE Committed[k]["encrypted"]
  BY DEF Resulting, Columns
<1> QED
  BY <1>1, <1>2, <1>3 DEF Reveals

\* Every step of every session keeps the invariant.
LEMMA StepKeepsInv == Inv /\ [Next]_vars => Inv'
<1> SUFFICES ASSUME Inv, [Next]_vars PROVE Inv'
  OBVIOUS
<1>s. ASSUME NEW r \in Requests
      PROVE  /\ session[r] \in SessionState
             /\ session[r].wrote \in [Keys -> Wrote]
             /\ session[r].snapshot \in [Keys -> CacheEntry \cup {Null}]
             /\ \A k \in Keys : session[r].wrote[k] # Null => Free(r, k)
             /\ Prepared(r)
  BY DEF Inv, TypeInv, WritesLocked, SessionState, Free
<1>f. ASSUME NEW step \in {"write", "close", "ended"}
      PROVE  /\ Fresh(step) \in SessionState
             /\ \A k \in Keys : Fresh(step).wrote[k] = Null
  BY DEF Fresh, SessionState, Wrote
<1>u. ASSUME NEW r \in Requests, NEW state, Goto(r, state),
             Served(r) => state.step \in {"close", "ended"},
             UNCHANGED <<cache, dirty>>
      PROVE  /\ SecretsRedacted' /\ CacheRecovers'
             /\ cache' \in [Keys -> CacheEntry \cup {Null}] /\ dirty' \subseteq Keys
  <2>1. \A q \in Requests : Served(q) => Served(q)'
    BY <1>u, ServedForGood
  <2>2. SecretsRedacted'
    BY <1>u, <2>1 DEF Inv, SecretsRedacted, Shown
  <2> QED
    BY <1>u, <2>2 DEF Inv, TypeInv, CacheRecovers
<1>1. ASSUME NEW r \in Requests, Load(r) PROVE Inv'
  <2>1. session'[r] = Fresh("write")
    BY <1>1 DEF Load, Goto, Inv, TypeInv
  <2>2. Prepared(r)'
    BY <1>1, <2>1 DEF Load, Prepared, At, Fresh
  <2>3. Goto(r, Fresh("write")) /\ ~Served(r) /\ UNCHANGED <<cache, dirty>>
    BY <1>1 DEF Load, At, Served
  <2> QED
    BY <1>f, <1>u, <2>2, <2>3, OneSession DEF Inv, TypeInv
<1>2. ASSUME NEW r \in Requests, Write(r) PROVE Inv'
  <2> DEFINE step == IF r.op = "bulk_delete" THEN "snapshot" ELSE "cache"
             wrote == [k \in Keys |-> IF k \in Changes(r) THEN Written(r, k) ELSE Null]
             state == [session[r] EXCEPT !.step = step, !.wrote = wrote]
  <2>1. r.op \in WriteOps /\ Admits(r)
    BY <1>2, <1>s DEF Write, Prepared
  <2>2. \A k \in r.keys : k \in Keys /\ Written(r, k) \in SettingRow \cup {Deleted}
    BY <2>1, WritesAreRows
  <2>3. wrote \in [Keys -> Wrote]
    BY <2>2 DEF Wrote, Changes
  <2>4. state \in SessionState
    BY <1>s, <2>3 DEF SessionState
  <2>5. Goto(r, state) /\ ~Served(r) /\ UNCHANGED <<cache, dirty>>
    BY <1>2 DEF Write, At, Served
  <2>6. /\ session'[r] = state
        /\ session'[r].step = step
        /\ session'[r].wrote = wrote
    BY <1>s, <2>5 DEF Goto, Inv, TypeInv, SessionState
  <2>7. \A k \in Keys : state.wrote[k] # Null => Free(r, k)
    BY <1>2, <1>s DEF Write, SessionState
  <2>8. CASE r.op = "bulk_delete"
    <3>1. \A k \in Keys : wrote[k] \in {Null, Deleted}
      BY <2>8 DEF Changes, Written
    <3>2. Prepared(r)'
      BY <2>6, <2>8, <3>1 DEF Prepared, At
    <3> QED
      BY <1>u, <2>4, <2>5, <2>7, <3>2, OneSession DEF Inv, TypeInv
  <2>9. CASE r.op # "bulk_delete"
    <3>1. ASSUME NEW k \in r.keys
          PROVE  LET row == IF wrote[k] = Null THEN Committed[k] ELSE wrote[k]
                 IN  row \in SettingRow \cup {Deleted} /\ (Discloses(k, row) => Reveals(r, k))
      <4>1. CASE Written(r, k) = Committed[k]
        <5>1. wrote[k] = Null /\ Committed[k] \in SettingRow
          BY <2>1, <2>2, <4>1, WritesAreRows DEF Changes
        <5> QED
          BY <2>1, <4>1, <5>1, OnlyUpdatesDisclose
      <4>2. CASE Written(r, k) # Committed[k]
        <5>1. wrote[k] = Written(r, k)
          BY <2>2, <4>2 DEF Changes
        <5> QED
          BY <2>1, <2>2, <5>1, MarkersAssumption, OnlyUpdatesDisclose
      <4> QED
        BY <4>1, <4>2
    <3>2. Prepared(r)'
      BY <2>1, <2>6, <2>9, <3>1 DEF Prepared, At, Visible
    <3> QED
      BY <1>u, <2>4, <2>5, <2>7, <3>2, OneSession DEF Inv, TypeInv
  <2> QED
    BY <2>8, <2>9
<1>3. ASSUME NEW r \in Requests, Snapshot(r) PROVE Inv'
  <2> DEFINE snapshot == [k \in Keys |-> IF k \in ScopeOf(r)
                                         THEN SnapshotEntry(Visible(r, k)) ELSE Null]
             state == [session[r] EXCEPT !.step = "store", !.snapshot = snapshot]
  <2>1. \A k \in Keys : session[r].wrote[k] \in {Null, Deleted}
    BY <1>3, <1>s DEF Snapshot, Prepared
  <2>2. \A k \in Keys : SnapshotEntry(Visible(r, k)) \in {Null, SnapshotEntry(Committed[k])}
    BY <2>1 DEF Visible, SnapshotEntry
  <2>3. snapshot \in [Keys -> CacheEntry \cup {Null}]
    BY <2>2, CommittedEntries
  <2>4. state \in SessionState
    BY <1>s, <2>3 DEF SessionState
  <2>5. Goto(r, state) /\ ~Served(r) /\ UNCHANGED <<cache, dirty>>
    BY <1>3 DEF Snapshot, At, Served
  <2>6. /\ session'[r].step = "store"
        /\ session'[r].snapshot = snapshot
    BY <1>s, <2>5 DEF Goto, Inv, TypeInv, SessionState
  <2>7. Prepared(r)'
    BY <2>2, <2>6 DEF Prepared, At
  <2>8. \A k \in Keys : state.wrote[k] # Null => Free(r, k)
    BY <1>s DEF SessionState
  <2> QED
    BY <1>u, <2>4, <2>5, <2>7, <2>8, OneSession DEF Inv, TypeInv
<1>4. ASSUME NEW r \in Requests, NEW state \in SessionState,
             Goto(r, state), state.step = "close", state.wrote = session[r].wrote
      PROVE  /\ session' \in [Requests -> SessionState]
             /\ WritesLocked'
             /\ \A q \in Requests : Prepared(q)'
  <2>1. session'[r].step = "close"
    BY <1>4 DEF Goto, Inv, TypeInv
  <2>2. Prepared(r)'
    BY <2>1 DEF Prepared, At
  <2> QED
    BY <1>4, <1>s, <2>2, OneSession
<1>5. ASSUME NEW r \in Requests, UpdateCache(r) PROVE Inv'
  <2>1. /\ r.op \in WriteOps
        /\ \A k \in r.keys : /\ Visible(r, k) \in SettingRow \cup {Deleted}
                             /\ Discloses(k, Visible(r, k)) => Reveals(r, k)
    BY <1>5, <1>s DEF UpdateCache, Prepared
  <2>2. \A k \in r.keys : UpdatedEntry(Visible(r, k)) \in CacheEntry \cup {Null}
                          /\ NoSecret(UpdatedEntry(Visible(r, k)))
    BY <2>1, EntriesAreRedacted
  <2>a. cache' \in [Keys -> CacheEntry \cup {Null}]
    BY <1>5, <2>2 DEF UpdateCache, Inv, TypeInv
  <2>b. Goto(r, [session[r] EXCEPT !.step = "close"]) /\ ~Served(r)
    BY <1>5 DEF UpdateCache, At, Served
  <2>c. /\ \A q \in Requests : Served(q) => Served(q)'
        /\ Served(r)'
    BY <1>s, <2>b, ServedForGood DEF Served, SessionState, Goto, Inv, TypeInv
  <2>d. ASSUME NEW k \in Keys
        PROVE  /\ NoSecret(cache'[k])
               /\ Secret(k) /\ Shown(k)' =>
                    k \in dirty' /\ \E q \in Requests : Reveals(q, k) /\ Served(q)'
    <3>1. CASE k \in r.keys
      <4>1. cache'[k] = UpdatedEntry(Visible(r, k)) /\ k \in dirty'
        BY <1>5, <3>1 DEF UpdateCache
      <4>2. Secret(k) /\ Shown(k)' => Discloses(k, Visible(r, k))
        BY <4>1 DEF Shown, UpdatedEntry, Discloses
      <4> QED
        BY <2>1, <2>2, <2>c, <3>1, <4>1, <4>2
    <3>2. CASE k \notin r.keys
      <4>1. cache'[k] = cache[k] /\ (k \in dirty => k \in dirty')
        BY <1>5, <3>2 DEF UpdateCache
      <4> QED
        BY <2>c, <4>1 DEF Inv, SecretsRedacted, Shown, NoSecret
    <3> QED
      BY <3>1, <3>2
  <2>3. SecretsRedacted'
    BY <2>d DEF SecretsRedacted, NoSecret, Shown
  <2>4. dirty' \subseteq Keys
    BY <1>5, <2>1, RequestsAssumption DEF UpdateCache, ValidRequest, WriteOps, ReadOps, Inv, TypeInv
  <2>5. CacheRecovers'
    BY <1>5 DEF UpdateCache, CacheRecovers, Inv, TypeInv
  <2>7. [session[r] EXCEPT !.step = "close"] \in SessionState
        /\ [session[r] EXCEPT !.step = "close"].step = "close"
        /\ [session[r] EXCEPT !.step = "close"].wrote = session[r].wrote
    BY <1>s DEF SessionState
  <2> QED
    BY <1>4, <2>3, <2>4, <2>5, <2>7, <2>a, <2>b DEF Inv, TypeInv
<1>6. ASSUME NEW r \in Requests, Store(r) PROVE Inv'
  <2>1. \A k \in Keys : session[r].snapshot[k] \in {Null, SnapshotEntry(Committed[k])}
    BY <1>6, <1>s DEF Store, Prepared
  <2>2. \A k \in Keys : cache'[k] = Stored(r, k)
    BY <1>6 DEF Store
  <2>3. \A k \in Keys : Stored(r, k) \in CacheEntry \cup {Null}
    BY <2>1, CommittedEntries DEF Stored, Inv, TypeInv
  <2>4. cache' \in [Keys -> CacheEntry \cup {Null}]
    BY <1>6, <2>2, <2>3 DEF Store
  <2>a. Goto(r, [session[r] EXCEPT !.step = "close"]) /\ ~Served(r)
    BY <1>6 DEF Store, At, Served
  <2>b. \A q \in Requests : Served(q) => Served(q)'
    BY <1>s, <2>a, ServedForGood
  <2>c. ASSUME NEW k \in Keys
        PROVE  /\ NoSecret(cache'[k])
               /\ Secret(k) /\ Shown(k)' =>
                    k \in dirty' /\ \E q \in Requests : Reveals(q, k) /\ Served(q)'
    <3>1. CASE cache'[k] \in {Null, SnapshotEntry(Committed[k])}
      BY <3>1, CommittedEntries DEF NoSecret, Shown
    <3>2. CASE cache'[k] \notin {Null, SnapshotEntry(Committed[k])}
      <4>1. cache'[k] = cache[k] /\ k \notin Cleaned(r)
        BY <2>1, <2>2, <3>2 DEF Stored, Cleaned
      <4>2. k \in dirty => k \in dirty'
        BY <1>6, <4>1 DEF Store
      <4> QED
        BY <2>b, <4>1, <4>2 DEF Inv, SecretsRedacted, Shown, NoSecret
    <3> QED
      BY <3>1, <3>2
  <2>d. SecretsRedacted'
    BY <2>c DEF SecretsRedacted, NoSecret, Shown
  <2>5. dirty' \subseteq Keys
    BY <1>6 DEF Store, Inv, TypeInv
  <2>6. ASSUME NEW k \in Keys \ dirty'
        PROVE  cache'[k] \in {Null, SnapshotEntry(Committed[k])}
    <3>1. session[r].wrote[k] = Null /\ (k \notin dirty \/ k \in Cleaned(r))
      BY <1>6, <2>6 DEF Store
    <3>2. CASE k \notin dirty
      BY <2>1, <2>2, <3>2 DEF Stored, Inv, CacheRecovers
    <3>3. CASE k \in Cleaned(r)
      BY <2>1, <2>2, <3>3 DEF Stored, Cleaned
    <3> QED
      BY <3>1, <3>2, <3>3
  <2>7. CacheRecovers'
    BY <2>6 DEF CacheRecovers
  <2>9. [session[r] EXCEPT !.step = "close"] \in SessionState
        /\ [session[r] EXCEPT !.step = "close"].step = "close"
        /\ [session[r] EXCEPT !.step = "close"].wrote = session[r].wrote
    BY <1>s DEF SessionState
  <2> QED
    BY <1>4, <2>4, <2>5, <2>7, <2>9, <2>a, <2>d DEF Inv, TypeInv
<1>7. ASSUME NEW r \in Requests, Goto(r, Fresh("ended"))
      PROVE  /\ session' \in [Requests -> SessionState]
             /\ WritesLocked'
             /\ \A q \in Requests : Prepared(q)'
  <2>1. session'[r].step = "ended"
    BY <1>7 DEF Goto, Fresh, Inv, TypeInv
  <2>2. Prepared(r)'
    BY <2>1 DEF Prepared, At
  <2> QED
    BY <1>7, <1>f, <2>2, OneSession
<1>8. ASSUME NEW r \in Requests, Clear(r) PROVE Inv'
  <2>a. \A q \in Requests : Served(q) => Served(q)'
    BY <1>8, ServedForGood DEF Clear, Fresh
  <2>1. cache' \in [Keys -> CacheEntry \cup {Null}] /\ SecretsRedacted'
    BY <1>8, <2>a DEF Clear, SecretsRedacted, Shown, Inv, TypeInv
  <2>2. dirty' \subseteq Keys
    BY <1>8 DEF Clear, Inv, TypeInv
  <2>3. CacheRecovers'
    BY <1>8 DEF Clear, CacheRecovers, Inv, TypeInv
  <2> QED
    BY <1>7, <1>8, <2>1, <2>2, <2>3 DEF Clear, Inv, TypeInv
<1>9. ASSUME NEW r \in Requests, Close(r) PROVE Inv'
  <2>1. Goto(r, Fresh("ended")) /\ Fresh("ended").step = "ended" /\ UNCHANGED <<cache, dirty>>
    BY <1>9 DEF Close, Fresh
  <2> QED
    BY <1>7, <1>u, <2>1 DEF Inv, TypeInv
<1>10. CASE UNCHANGED vars
  BY <1>10 DEF vars, Inv, TypeInv, SecretsRedacted, Shown, Served, WritesLocked, Prepared, At,
               Visible, CacheRecovers
<1> QED
  BY <1>1, <1>2, <1>3, <1>5, <1>6, <1>8, <1>9, <1>10 DEF Next

\* So it holds in every state of every behaviour.
LEMMA Invariant == Spec => []Inv
  BY Initially, StepKeepsInv, PTL DEF Spec

\* Whatever the settings, the requests and their order: entries are entries,
\* no setting has two uncommitted writers, and no path shows the value of a
\* setting whose committed row is encrypted, except to a key that a request
\* has turned the encryption of off since it was last loaded or cleared.
THEOREM SettingsTypeCorrect == Spec => []TypeOK
<1>1. Inv => TypeOK
  BY DEF Inv, TypeInv, WritesLocked, SessionState, Wrote, TypeOK
<1> QED
  BY <1>1, Invariant, PTL

\* However reloads, updates and rollbacks interleave, a key that was loaded or
\* cleared since it was last written shows its committed row, or nothing.
THEOREM ReloadedCacheAgrees == Spec => []CacheRecovers
<1>1. Inv => CacheRecovers
  BY DEF Inv
<1> QED
  BY <1>1, Invariant, PTL
============================================================================
