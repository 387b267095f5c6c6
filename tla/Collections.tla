----------------------------- MODULE Collections -----------------------------
(***************************************************************************)
(* What persisting the complete collections of one source means: records,  *)
(* their change events and the fetch state move in one atomic step per     *)
(* collection (record_repository.py without sessions, locks and            *)
(* concurrency).  RecordRepository shows that its transactions implement   *)
(* this module.                                                            *)
(***************************************************************************)
EXTENDS Integers, Sequences

CONSTANTS
  Ids,            \* external ids of the source
  Hashes,         \* business fingerprints
  NoHash,         \* fingerprint of a record that does not exist
  Results,        \* complete collections: sequences of [id, hash]
  InactiveAfter   \* INACTIVE_AFTER_SUCCESSFUL_ABSENCES

VARIABLES
  rows,    \* records: fingerprint, missing_count, is_active
  log,     \* change events of each record, oldest first
  latest   \* source_fetch_states: the response last persisted

vars == <<rows, log, latest>>

Row == [hash : Hashes \cup {NoHash}, missing : 0..InactiveAfter, active : BOOLEAN]
Absent == [hash |-> NoHash, missing |-> 0, active |-> FALSE]
Event(kind, hash) == [kind |-> kind, hash |-> hash]

Observed(items) == {items[k].id : k \in DOMAIN items}

(* Faulty variants of definitions below: mistakes the properties must find. *)

\* The threshold is passed, not reached.
MissedOnceMore(row) ==
  [row EXCEPT !.missing = @ + 1, !.active = row.missing + 1 <= InactiveAfter]

\* An event for every sighting.
UpsertEventsAlways(row, hash) ==
  <<Event(IF row.hash = NoHash THEN "created" ELSE "updated", hash)>>

\* An observed record takes the fingerprint of the item and is active.
Upserted(hash) == [hash |-> hash, missing |-> 0, active |-> TRUE]

\* Creation, or an update when the fingerprint differs.
UpsertEvents(row, hash) ==
  IF row.hash = hash THEN <<>>
  ELSE <<Event(IF row.hash = NoHash THEN "created" ELSE "updated", hash)>>

\* What a record has become, and its new events, after each number of items.
Taken(row, items, i) ==
  LET taken[k \in 0..Len(items)] ==
        IF k = 0 THEN [row |-> row, events |-> <<>>]
        ELSE IF items[k].id # i THEN taken[k - 1]
        ELSE [row |-> Upserted(items[k].hash),
              events |-> taken[k - 1].events
                           \o UpsertEvents(taken[k - 1].row, items[k].hash)]
  IN  taken

\* An active record that was not observed counts one more absence.
Missed(row) ==
  [row EXCEPT !.missing = @ + 1, !.active = row.missing + 1 < InactiveAfter]

MissedEvents(row) ==
  IF Missed(row).active THEN <<>> ELSE <<Event("inactive", row.hash)>>

After(row, items, i) ==
  IF i \in Observed(items) THEN Taken(row, items, i)[Len(items)].row
  ELSE IF row.active THEN Missed(row) ELSE row

EventsOf(row, items, i) ==
  IF i \in Observed(items) THEN Taken(row, items, i)[Len(items)].events
  ELSE IF row.active THEN MissedEvents(row) ELSE <<>>

\* A database that earlier collections left.
History(row) ==
  IF row = Absent THEN <<>>
  ELSE <<Event("created", row.hash)>>
       \o IF row.active THEN <<>> ELSE <<Event("inactive", row.hash)>>

Kept ==
  {Absent} \cup {[hash |-> h, missing |-> m, active |-> m < InactiveAfter] :
                    h \in Hashes, m \in 0..InactiveAfter}

Init ==
  /\ rows \in [Ids -> Kept]
  /\ log = [i \in Ids |-> History(rows[i])]
  /\ latest = <<>>

Persist(items) ==
  /\ rows' = [i \in Ids |-> After(rows[i], items, i)]
  /\ log' = [i \in Ids |-> log[i] \o EventsOf(rows[i], items, i)]
  /\ latest' = items

Next == \E items \in Results : Persist(items)

Spec == Init /\ [][Next]_vars

-----------------------------------------------------------------------------
TypeOK ==
  /\ rows \in [Ids -> Row]
  /\ log \in [Ids -> Seq([kind : {"created", "updated", "inactive"}, hash : Hashes])]
  /\ latest \in Results \cup {<<>>}

\* A record is active exactly while it was absent from fewer consecutive
\* collections than the threshold; a record is never deleted.
ActiveUntilThreshold ==
  \A i \in Ids : /\ rows[i].hash # NoHash => (rows[i].active <=> rows[i].missing < InactiveAfter)
                 /\ rows[i].hash = NoHash => rows[i] = Absent

\* A creation or an update: the event carries content.
Content(events) == {k \in DOMAIN events : events[k].kind # "inactive"}
Newest(events, k, before) == k \in Content(events) /\ k < before
                             /\ \A j \in Content(events) : j < before => j <= k

\* The events of a record tell its whole story: it was created once, first,
\* and the last creation or update carries the fingerprint it has now, and
\* every update changed the fingerprint.
LogTellsContent ==
  \A i \in Ids :
    IF rows[i].hash = NoHash THEN log[i] = <<>>
    ELSE /\ log[i] # <<>> /\ log[i][1].kind = "created"
         /\ \E k \in DOMAIN log[i] : /\ Newest(log[i], k, Len(log[i]) + 1)
                                    /\ log[i][k].hash = rows[i].hash
         /\ \A k \in Content(log[i]) \ {1} :
              /\ log[i][k].kind = "updated"
              /\ \E j \in DOMAIN log[i] : /\ Newest(log[i], j, k)
                                         /\ log[i][j].hash # log[i][k].hash

\* An inactive event is written when, and only when, a record turns inactive.
InactiveEventOnTransition ==
  [][\A i \in Ids :
       (\E k \in Len(log[i])+1..Len(log'[i]) : log'[i][k].kind = "inactive")
         <=> (rows[i].active /\ ~rows'[i].active)]_vars

\* A collection may name an id several times; here it says the same each time.
OneContent(items, i) ==
  \A j, k \in DOMAIN items : items[j].id = i /\ items[k].id = i => items[j].hash = items[k].hash

\* Persisting the same response again changes no content, and writes no created
\* or updated event of a record to which it gives one content: only absences may
\* be counted.
RedeliveryIsSilent ==
  [][latest' = latest =>
       \A i \in Ids : /\ rows'[i].hash = rows[i].hash
                      /\ OneContent(latest, i) =>
                           \A k \in Len(log[i])+1..Len(log'[i]) :
                             log'[i][k].kind = "inactive"]_vars
=============================================================================
