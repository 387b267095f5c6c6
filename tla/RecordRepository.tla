--------------------------- MODULE RecordRepository ---------------------------
(***************************************************************************)
(* RecordRepository.persist_collection (record_repository.py) for one      *)
(* source, run by several PostgreSQL transactions at READ COMMITTED, as    *)
(* redelivered tasks and overlapping runs may do.  A transaction works on  *)
(* private drafts of the rows it has locked; advisory, row and fetch-state *)
(* locks are held until it commits or rolls back.  PostgreSQL breaks       *)
(* circular waits by failing one of the transactions.                      *)
(***************************************************************************)
EXTENDS Integers, Sequences, FiniteSets

CONSTANTS
  Ids, Hashes, NoHash, Results, InactiveAfter,   \* as in Collections
  Txns,     \* calls of persist_collection, each in a transaction of its own
  NoTxn,    \* holder of a free lock
  Faults    \* a transaction may fail at any time

ASSUME RepositoryAssumption ==
  /\ NoHash \notin Hashes
  /\ Results \subseteq Seq([id : Ids, hash : Hashes])
  /\ InactiveAfter \in Nat \ {0}
  /\ NoTxn \notin Txns
  /\ Faults \in BOOLEAN

VARIABLES
  rows, log, latest,   \* committed: as in Collections
  stateExists,         \* committed: the fetch-state row of the source exists
  keyLock,             \* advisory lock of an external id
  rowLock,             \* lock of a record row
  stateLock,           \* lock of the fetch-state row, or of its unique key
  pc,
  items,               \* the collection being persisted
  pos,                 \* index of the item being processed
  draft,               \* the rows as this transaction sees or wrote them
  news,                \* its unflushed or uncommitted events
  toLock               \* absent active rows the reconcile query has yet to lock

database == <<rows, log, latest, stateExists>>
locks    == <<keyLock, rowLock, stateLock>>
private  == <<items, pos, draft, news, toLock>>
vars     == <<database, locks, pc, private>>

C == INSTANCE Collections

Done == {"committed", "conflict", "failed"}
Live(t) == pc[t] \notin Done \cup {"idle"}

Init ==
  /\ C!Init
  /\ stateExists \in {\E i \in Ids : rows[i] # C!Absent, TRUE}
  /\ keyLock = [i \in Ids |-> NoTxn]
  /\ rowLock = [i \in Ids |-> NoTxn]
  /\ stateLock = NoTxn
  /\ pc = [t \in Txns |-> "idle"]
  /\ items = [t \in Txns |-> <<>>]
  /\ pos = [t \in Txns |-> 1]
  /\ draft = [t \in Txns |-> [i \in Ids |-> C!Absent]]
  /\ news = [t \in Txns |-> [i \in Ids |-> <<>>]]
  /\ toLock = [t \in Txns |-> {}]

Move(t, from, to) == pc[t] = from /\ pc' = [pc EXCEPT ![t] = to]
Item(t) == items[t][pos[t]]
Grantable(lock, t) == lock \in {NoTxn, t}

Begin(t) ==
  /\ \E r \in Results :
       /\ items' = [items EXCEPT ![t] = r]
       /\ Move(t, "idle", IF r = <<>> THEN "state" ELSE "key")
  /\ UNCHANGED <<database, locks, pos, draft, news, toLock>>

(* Faulty variants of definitions below: mistakes the properties must find. *)

\* First inserts of a key are not serialized.
LockNoKey(t) ==
  /\ Move(t, "key", "row")
  /\ UNCHANGED <<database, locks, private>>

\* The fetch state is read without a lock.
LockNoState(t) ==
  /\ Move(t, "state", "scan")
  /\ UNCHANGED <<database, locks, private>>

\* Every absence is announced as inactive.
MissAnnounced(t) ==
  /\ pc[t] = "reconcile"
  /\ \E i \in toLock[t] :
       /\ Grantable(rowLock[i], t)
       /\ toLock' = [toLock EXCEPT ![t] = @ \ {i}]
       /\ rowLock' = [rowLock EXCEPT ![i] = t]
       /\ draft' = [draft EXCEPT ![t][i] = C!Missed(rows[i])]
       /\ news' = [news EXCEPT ![t][i] = Append(@, C!Event("inactive", rows[i].hash))]
  /\ UNCHANGED <<database, keyLock, stateLock, pc, items, pos>>

\* Advisory locks outlive the transaction.
UnlockRowsOnly(t) ==
  /\ keyLock' = keyLock
  /\ rowLock' = [i \in Ids |-> IF rowLock[i] = t THEN NoTxn ELSE rowLock[i]]
  /\ stateLock' = IF stateLock = t THEN NoTxn ELSE stateLock

\* _lock_record_key
LockKey(t) ==
  /\ Move(t, "key", "row")
  /\ Grantable(keyLock[Item(t).id], t)
  /\ keyLock' = [keyLock EXCEPT ![Item(t).id] = t]
  /\ UNCHANGED <<database, rowLock, stateLock, private>>

\* SELECT ... FOR UPDATE of the record, then insert or update it.  A row this
\* transaction already holds is read as it left it; a row that is not there
\* yet makes nobody wait.
Upsert(t) ==
  LET i    == Item(t).id
      row  == IF rowLock[i] = t THEN draft[t][i] ELSE rows[i]
  IN  /\ Move(t, "row", IF pos[t] = Len(items[t]) THEN "state" ELSE "key")
      /\ rows[i] # C!Absent => Grantable(rowLock[i], t)
      /\ rowLock' = [rowLock EXCEPT ![i] = t]
      /\ draft' = [draft EXCEPT ![t][i] = C!Upserted(Item(t).hash)]
      /\ news' = [news EXCEPT ![t][i] = @ \o C!UpsertEvents(row, Item(t).hash)]
      /\ pos' = [pos EXCEPT ![t] = @ + 1]
      /\ UNCHANGED <<database, keyLock, stateLock, items, toLock>>

\* _update_fetch_state: lock the row, or find none and plan an insert.
LockState(t) ==
  /\ \/ /\ stateExists
        /\ Move(t, "state", "scan")
        /\ Grantable(stateLock, t)
        /\ stateLock' = t
     \/ /\ ~stateExists
        /\ Move(t, "state", "insert")
        /\ UNCHANGED stateLock
  /\ UNCHANGED <<database, keyLock, rowLock, private>>

\* The insert is flushed before the reconcile query; the unique key makes it
\* wait for an insert in flight and fail after a committed one.
InsertState(t) ==
  /\ ~stateExists
  /\ Move(t, "insert", "scan")
  /\ Grantable(stateLock, t)
  /\ stateLock' = t
  /\ UNCHANGED <<database, keyLock, rowLock, private>>

\* _reconcile_missing: the query sees the committed rows of this moment and
\* locks them one by one.
Scan(t) ==
  /\ Move(t, "scan", "reconcile")
  /\ toLock' = [toLock EXCEPT ![t] =
       {i \in Ids \ C!Observed(items[t]) : rows[i].active}]
  /\ UNCHANGED <<database, locks, items, pos, draft, news>>

\* A row that was locked meanwhile is looked at again when it is free; only
\* a row that is still active counts an absence.
Miss(t) ==
  /\ pc[t] = "reconcile"
  /\ \E i \in toLock[t] :
       /\ Grantable(rowLock[i], t)
       /\ toLock' = [toLock EXCEPT ![t] = @ \ {i}]
       /\ IF rows[i].active
            THEN /\ rowLock' = [rowLock EXCEPT ![i] = t]
                 /\ draft' = [draft EXCEPT ![t][i] = C!Missed(rows[i])]
                 /\ news' = [news EXCEPT ![t][i] = @ \o C!MissedEvents(rows[i])]
            ELSE UNCHANGED <<rowLock, draft, news>>
  /\ UNCHANGED <<database, keyLock, stateLock, pc, items, pos>>

Unlock(t) ==
  /\ keyLock' = [i \in Ids |-> IF keyLock[i] = t THEN NoTxn ELSE keyLock[i]]
  /\ rowLock' = [i \in Ids |-> IF rowLock[i] = t THEN NoTxn ELSE rowLock[i]]
  /\ stateLock' = IF stateLock = t THEN NoTxn ELSE stateLock

\* Nothing of a finished transaction is kept but how it ended.
Forget(t) ==
  /\ items' = [items EXCEPT ![t] = <<>>]
  /\ pos' = [pos EXCEPT ![t] = 1]
  /\ draft' = [draft EXCEPT ![t] = [i \in Ids |-> C!Absent]]
  /\ news' = [news EXCEPT ![t] = [i \in Ids |-> <<>>]]
  /\ toLock' = [toLock EXCEPT ![t] = {}]

Commit(t) ==
  /\ toLock[t] = {}
  /\ Move(t, "reconcile", "committed")
  /\ rows' = [i \in Ids |-> IF rowLock[i] = t THEN draft[t][i] ELSE rows[i]]
  /\ log' = [i \in Ids |-> log[i] \o news[t][i]]
  /\ latest' = items[t]
  /\ stateExists' = TRUE
  /\ Unlock(t) /\ Forget(t)

RollBack(t, reason) ==
  /\ pc' = [pc EXCEPT ![t] = reason]
  /\ Unlock(t) /\ Forget(t)
  /\ UNCHANGED database

\* The insert of the fetch state hits a row committed meanwhile: the
\* IntegrityError reaches the caller.
InsertConflict(t) ==
  /\ pc[t] = "insert" /\ stateExists
  /\ RollBack(t, "conflict")

\* The lock holders a transaction waits for.
WaitsFor(t) ==
  (CASE pc[t] = "key" -> {keyLock[Item(t).id]}
     [] pc[t] = "row" -> {rowLock[Item(t).id]}
     [] pc[t] = "state" /\ stateExists -> {stateLock}
     [] pc[t] = "insert" -> {stateLock}
     [] pc[t] = "reconcile" -> {rowLock[i] : i \in toLock[t]}
     [] OTHER -> {}) \ {t, NoTxn}

DeadlockVictim(t) ==
  /\ \E S \in SUBSET Txns :
       /\ t \in S
       /\ \A u \in S : WaitsFor(u) \cap S # {}
       /\ \A u \in S : \E v \in S : u \in WaitsFor(v)
  /\ RollBack(t, "failed")

Fail(t) ==
  /\ Faults /\ Live(t)
  /\ RollBack(t, "failed")

Step(t) ==
  \/ LockKey(t) \/ Upsert(t) \/ LockState(t) \/ InsertState(t) \/ InsertConflict(t)
  \/ Scan(t) \/ Miss(t) \/ Commit(t) \/ DeadlockVictim(t)

Next == \E t \in Txns : Begin(t) \/ Step(t) \/ Fail(t)

Spec == Init /\ [][Next]_vars

\* A worker that began a transaction goes on with it, and PostgreSQL resolves
\* deadlocks.
FairSpec == Spec /\ \A t \in Txns : WF_vars(Step(t))

-----------------------------------------------------------------------------
\* The types of the committed rows and of what the transactions hold.
TypeOK ==
  /\ rows \in [Ids -> C!Row]
  /\ latest \in Results \cup {<<>>}
  /\ stateExists \in BOOLEAN
  /\ keyLock \in [Ids -> Txns \cup {NoTxn}]
  /\ rowLock \in [Ids -> Txns \cup {NoTxn}]
  /\ stateLock \in Txns \cup {NoTxn}
  /\ pc \in [Txns -> Done \cup {"idle", "key", "row", "state", "insert", "scan", "reconcile"}]
  /\ items \in [Txns -> Results \cup {<<>>}]
  /\ pos \in [Txns -> Nat]
  /\ draft \in [Txns -> [Ids -> C!Row]]
  /\ toLock \in [Txns -> SUBSET Ids]

\* The transactions are serializable: whatever the interleaving, the database
\* moves as if each committed collection had been persisted atomically, in
\* commit order.
ImplementsCollections == C!Spec

\* Concurrent transactions leave events that tell each record's content.
LogTellsContent == C!LogTellsContent

\* Absences counted by concurrent transactions decide activity, none twice.
ActiveUntilThreshold == C!ActiveUntilThreshold

\* A response that another transaction has just persisted is silent.
RedeliveryIsSilent == C!RedeliveryIsSilent

\* Two transactions that miss the same record write one inactive event.
InactiveEventOnTransition == C!InactiveEventOnTransition

\* A transaction that has begun ends: it commits or fails, and never waits
\* for ever for the locks of others.
TransactionsEnd == \A t \in Txns : Live(t) ~> (pc[t] \in Done)
=============================================================================
