------------------------ MODULE RecordRepositoryProofs ------------------------
(***************************************************************************)
(* Theorems about the transactions of RecordRepository, for any number of  *)
(* transactions, records and fingerprints and any threshold: what they     *)
(* commit keeps activity and absences together, the locks they rely on are *)
(* theirs until they end, and so they implement Collections, which gives   *)
(* what the events tell and what a redelivery leaves.                      *)
(***************************************************************************)
EXTENDS RecordRepository, Induction

-----------------------------------------------------------------------------
(* Rows.  Drafts become rows, so they satisfy what rows satisfy; a draft of *)
(* an observed record needs an item at the position of the transaction.    *)

Sound(row) ==
  /\ row \in C!Row
  /\ row.hash # NoHash => (row.active <=> row.missing < InactiveAfter)
  /\ row.hash = NoHash => row = C!Absent

CursorIsInside ==
  \A t \in Txns : /\ pc[t] = "idle" => pos[t] = 1
                  /\ pc[t] \in {"key", "row"} => pos[t] \in 1..Len(items[t])

RowsAreSound ==
  /\ \A i \in Ids : Sound(rows[i])
  /\ \A t \in Txns, i \in Ids : Sound(draft[t][i])

Stages == Done \cup {"idle", "key", "row", "state", "insert", "scan", "reconcile"}

\* A record that does not exist is sound.
LEMMA AbsentIsSound == Sound(C!Absent)
  BY RepositoryAssumption DEF Sound, C!Absent, C!Row

\* A record of these fields is sound, when they agree.
LEMMA FieldsAreSound ==
  ASSUME NEW h \in Hashes, NEW m \in 0..InactiveAfter, NEW x \in BOOLEAN,
         x <=> m < InactiveAfter
  PROVE  Sound([hash |-> h, missing |-> m, active |-> x])
<1> DEFINE row == [hash |-> h, missing |-> m, active |-> x]
<1>1. row.hash = h /\ row.missing = m /\ row.active = x
  OBVIOUS
<1>2. row \in C!Row
  BY DEF C!Row
<1>3. h # NoHash
  BY RepositoryAssumption
<1>4. row.active <=> row.missing < InactiveAfter
  BY <1>1
<1> HIDE DEF row
<1>5. row.hash # NoHash => (row.active <=> row.missing < InactiveAfter)
  BY <1>4
<1>6. row.hash = NoHash => row = C!Absent
  BY <1>1, <1>3
<1>7. Sound(row)
  BY <1>2, <1>5, <1>6, Zenon DEF Sound
<1> QED
  BY <1>7 DEF row

\* So is a record that was observed,
LEMMA UpsertedIsSound ==
  ASSUME NEW h \in Hashes
  PROVE  Sound(C!Upserted(h))
<1>1. C!Upserted(h) = [hash |-> h, missing |-> 0, active |-> TRUE]
  BY DEF C!Upserted
<1>2. 0 \in 0..InactiveAfter /\ 0 < InactiveAfter
  BY RepositoryAssumption
<1> QED
  BY <1>1, <1>2, FieldsAreSound

\* and an active record that was absent once more.
LEMMA MissedIsSound ==
  ASSUME NEW row, Sound(row), row.active
  PROVE  Sound(C!Missed(row))
<1>1. row \in C!Row
  BY DEF Sound
<1>2. row.hash # NoHash
  <2>1. C!Absent.active = FALSE
    BY DEF C!Absent
  <2> QED
    BY <2>1 DEF Sound
<1>3. row.missing < InactiveAfter
  BY <1>2 DEF Sound
<1>4. row.missing \in Nat /\ row.missing + 1 \in 0..InactiveAfter
  BY <1>1, <1>3, RepositoryAssumption DEF C!Row
<1>5. row.hash \in Hashes
  BY <1>1, <1>2 DEF C!Row
<1> DEFINE stays == row.missing + 1 < InactiveAfter
<1>6. stays \in BOOLEAN
  OBVIOUS
<1>7. C!Missed(row) = [row EXCEPT !.missing = @ + 1, !.active = stays]
  BY DEF C!Missed
<1>8. (row.missing + 1 < InactiveAfter) <=> stays
  OBVIOUS
<1> HIDE DEF stays
<1>9. C!Missed(row) = [hash |-> row.hash, missing |-> row.missing + 1, active |-> stays]
  BY <1>1, <1>7 DEF C!Row
<1> QED
  BY <1>4, <1>5, <1>6, <1>8, <1>9, FieldsAreSound

\* A collection is a sequence of items.
LEMMA CollectionType ==
  ASSUME NEW r \in Results \cup {<<>>}
  PROVE  r \in Seq([id : Ids, hash : Hashes])
<1>1. CASE r \in Results
  BY <1>1, RepositoryAssumption, Zenon
<1>2. CASE r = <<>>
  BY <1>2
<1> QED
  BY <1>1, <1>2

\* The item at the cursor is one of the collection.
LEMMA ItemType ==
  ASSUME TypeOK, CursorIsInside, NEW t \in Txns, pc[t] \in {"key", "row"}
  PROVE  Item(t).id \in Ids /\ Item(t).hash \in Hashes
<1>1. items[t] \in Seq([id : Ids, hash : Hashes]) /\ pos[t] \in 1..Len(items[t])
  BY CollectionType DEF TypeOK, CursorIsInside
<1>2. items[t][pos[t]] \in [id : Ids, hash : Hashes]
  <2> DEFINE T == [id : Ids, hash : Hashes]
  <2>1. items[t] \in Seq(T)
    BY <1>1
  <2> HIDE DEF T
  <2>2. items[t][pos[t]] \in T
    BY <1>1, <2>1
  <2> QED
    BY <2>2 DEF T
<1> QED
  BY <1>2 DEF Item

\* A transaction that ends gives its locks back and forgets its drafts.
LEMMA EndType ==
  ASSUME TypeOK, CursorIsInside, RowsAreSound, NEW t \in Txns, NEW end \in Done,
         pc' = [pc EXCEPT ![t] = end], Unlock(t), Forget(t)
  PROVE  /\ keyLock' \in [Ids -> Txns \cup {NoTxn}]
         /\ rowLock' \in [Ids -> Txns \cup {NoTxn}]
         /\ stateLock' \in Txns \cup {NoTxn}
         /\ pc' \in [Txns -> Stages]
         /\ items' \in [Txns -> Results \cup {<<>>}]
         /\ pos' \in [Txns -> Nat]
         /\ draft' \in [Txns -> [Ids -> C!Row]]
         /\ toLock' \in [Txns -> SUBSET Ids]
         /\ CursorIsInside'
         /\ \A u \in Txns, i \in Ids : Sound(draft'[u][i])
<1> USE DEF TypeOK, Unlock, Forget
<1>1. pc' \in [Txns -> Stages] /\ CursorIsInside'
  BY DEF CursorIsInside, Done, Stages
<1>2. /\ draft' \in [Txns -> [Ids -> C!Row]]
      /\ \A u \in Txns, i \in Ids : Sound(draft'[u][i])
  <2>1. [i \in Ids |-> C!Absent] \in [Ids -> C!Row]
    BY AbsentIsSound DEF Sound
  <2> QED
    BY <2>1, AbsentIsSound DEF RowsAreSound
<1> QED
  BY <1>1, <1>2

RowsInvariant == TypeOK /\ CursorIsInside /\ RowsAreSound

\* Every step of a transaction keeps the rows and the drafts sound.
LEMMA RowsStep ==
  ASSUME RowsInvariant, [Next]_vars
  PROVE  RowsInvariant'
<1> USE DEF RowsInvariant, database, locks, private
<1>1. ASSUME NEW t \in Txns, Begin(t) PROVE RowsInvariant'
  <2>1. PICK r \in Results : /\ items' = [items EXCEPT ![t] = r]
                             /\ Move(t, "idle", IF r = <<>> THEN "state" ELSE "key")
    BY <1>1 DEF Begin
  <2>2. r # <<>> => 1 \in 1..Len(r)
    <3>1. r \in Seq([id : Ids, hash : Hashes])
      BY CollectionType
    <3> HIDE DEF RowsInvariant
    <3> QED
      BY <3>1
  <2>3. UNCHANGED <<database, locks, pos, draft, news, toLock>>
    BY <1>1 DEF Begin
  <2>4. TypeOK'
    BY <2>1, <2>3 DEF Move, TypeOK
  <2>5. CursorIsInside'
    BY <2>1, <2>2, <2>3 DEF Move, CursorIsInside, TypeOK
  <2> QED
    BY <2>3, <2>4, <2>5 DEF RowsAreSound
<1>2. ASSUME NEW t \in Txns, LockKey(t) PROVE RowsInvariant'
  BY <1>2 DEF LockKey, Move, TypeOK, CursorIsInside, RowsAreSound
<1>3. ASSUME NEW t \in Txns, Upsert(t) PROVE RowsInvariant'
  <2> DEFINE i == Item(t).id
             new == C!Upserted(Item(t).hash)
  <2>1. i \in Ids /\ Sound(new)
    BY <1>3, ItemType, UpsertedIsSound DEF Upsert, Move
  <2>2. /\ draft' = [draft EXCEPT ![t][i] = new]
        /\ rowLock' = [rowLock EXCEPT ![i] = t]
        /\ pos' = [pos EXCEPT ![t] = @ + 1]
        /\ Move(t, "row", IF pos[t] = Len(items[t]) THEN "state" ELSE "key")
        /\ UNCHANGED <<database, keyLock, stateLock, items, toLock>>
    BY <1>3 DEF Upsert
  <2> HIDE DEF i, new
  <2>3. CursorIsInside'
    <3>1. items[t] \in Seq([id : Ids, hash : Hashes]) /\ pos[t] \in 1..Len(items[t])
      BY <2>2, CollectionType DEF Move, TypeOK, CursorIsInside
    <3> QED
      BY <2>2, <3>1 DEF Move, CursorIsInside, TypeOK
  <2>4. RowsAreSound'
    BY <2>1, <2>2 DEF RowsAreSound, TypeOK
  <2>5. draft' \in [Txns -> [Ids -> C!Row]]
    BY <2>1, <2>2 DEF TypeOK, Sound
  <2>6. TypeOK'
    BY <2>1, <2>2, <2>5 DEF TypeOK, Move
  <2> QED
    BY <2>3, <2>4, <2>6
<1>4. ASSUME NEW t \in Txns, LockState(t) \/ InsertState(t) \/ Scan(t) PROVE RowsInvariant'
  <2>1. /\ UNCHANGED <<database, keyLock, rowLock, items, pos, draft>>
        /\ stateLock' \in Txns \cup {NoTxn} /\ toLock' \in [Txns -> SUBSET Ids]
        /\ pc' = [pc EXCEPT ![t] = pc'[t]] /\ pc'[t] \in {"insert", "scan", "reconcile"}
    <3>1. CASE LockState(t)
      BY <3>1 DEF LockState, Move, TypeOK
    <3>2. CASE InsertState(t)
      BY <3>2 DEF InsertState, Move, TypeOK
    <3>3. CASE Scan(t)
      BY <3>3 DEF Scan, Move, TypeOK
    <3> QED
      BY <1>4, <3>1, <3>2, <3>3
  <2>2. TypeOK'
    <3>1. pc' \in [Txns -> Stages]
      BY <2>1 DEF TypeOK, Stages
    <3> QED
      BY <2>1, <3>1 DEF TypeOK, Stages
  <2>3. CursorIsInside'
    BY <2>1 DEF TypeOK, CursorIsInside
  <2>4. RowsAreSound'
    BY <2>1 DEF RowsAreSound
  <2> QED
    BY <2>2, <2>3, <2>4
<1>5. ASSUME NEW t \in Txns, Miss(t) PROVE RowsInvariant'
  <2>1. PICK i \in toLock[t] :
          /\ toLock' = [toLock EXCEPT ![t] = @ \ {i}]
          /\ IF rows[i].active
               THEN /\ rowLock' = [rowLock EXCEPT ![i] = t]
                    /\ draft' = [draft EXCEPT ![t][i] = C!Missed(rows[i])]
               ELSE UNCHANGED <<rowLock, draft>>
    BY <1>5 DEF Miss
  <2>2. i \in Ids /\ UNCHANGED <<database, keyLock, stateLock, pc, items, pos>>
    BY <1>5, <2>1 DEF Miss, TypeOK
  <2>3. rows[i].active => Sound(C!Missed(rows[i]))
    BY <2>2, MissedIsSound DEF RowsAreSound
  <2> DEFINE new == C!Missed(rows[i])
  <2>4. RowsAreSound' /\ draft' \in [Txns -> [Ids -> C!Row]]
    <3>1. CASE rows[i].active
      <4>1. draft' = [draft EXCEPT ![t][i] = new] /\ Sound(new) /\ rows' = rows
        BY <2>1, <2>2, <2>3, <3>1
      <4> HIDE DEF new
      <4>2. new \in C!Row
        BY <4>1 DEF Sound
      <4>3. draft' \in [Txns -> [Ids -> C!Row]]
        BY <2>2, <4>1, <4>2 DEF TypeOK
      <4>4. RowsAreSound'
        BY <2>2, <4>1 DEF RowsAreSound, TypeOK
      <4> QED
        BY <4>3, <4>4
    <3>2. CASE ~rows[i].active
      BY <2>1, <2>2, <3>2 DEF RowsAreSound, TypeOK
    <3> QED
      BY <3>1, <3>2
  <2>6. TypeOK' /\ CursorIsInside'
    BY <2>1, <2>2, <2>4 DEF TypeOK, CursorIsInside
  <2> QED
    BY <2>4, <2>6
<1>6. ASSUME NEW t \in Txns, Commit(t) PROVE RowsInvariant'
  <2>1. /\ rows' = [i \in Ids |-> IF rowLock[i] = t THEN draft[t][i] ELSE rows[i]]
        /\ latest' = items[t] /\ stateExists' = TRUE
        /\ pc' = [pc EXCEPT ![t] = "committed"] /\ Unlock(t) /\ Forget(t)
    BY <1>6 DEF Commit, Move
  <2>2. (\A i \in Ids : Sound(rows'[i])) /\ rows' \in [Ids -> C!Row]
    BY <2>1 DEF RowsAreSound, TypeOK
  <2>3. latest' \in Results \cup {<<>>}
    BY <2>1 DEF TypeOK
  <2> QED
    BY <2>1, <2>2, <2>3, EndType DEF Done, Stages, TypeOK, RowsAreSound
<1>7. ASSUME NEW t \in Txns, InsertConflict(t) \/ DeadlockVictim(t) \/ Fail(t)
      PROVE  RowsInvariant'
  <2>1. PICK end \in Done : pc' = [pc EXCEPT ![t] = end] /\ Unlock(t) /\ Forget(t)
    BY <1>7 DEF InsertConflict, DeadlockVictim, Fail, RollBack, Done
  <2>2. UNCHANGED database
    BY <1>7 DEF InsertConflict, DeadlockVictim, Fail, RollBack
  <2> QED
    BY <2>1, <2>2, EndType DEF Stages, TypeOK, RowsAreSound
<1>8. CASE UNCHANGED vars
  BY <1>8 DEF vars, TypeOK, CursorIsInside, RowsAreSound
<1> QED
  BY <1>1, <1>2, <1>3, <1>4, <1>5, <1>6, <1>7, <1>8 DEF Next, Step

\* What earlier collections left is sound, and no transaction has drafted.
LEMMA InitialRows ==
  ASSUME Init
  PROVE  RowsInvariant
<1>1. ASSUME NEW i \in Ids PROVE Sound(rows[i])
  <2>1. CASE rows[i] = C!Absent
    BY <2>1, AbsentIsSound
  <2>2. CASE rows[i] # C!Absent
    <3>1. PICK h \in Hashes, m \in 0..InactiveAfter :
            rows[i] = [hash |-> h, missing |-> m, active |-> m < InactiveAfter]
      BY <2>2 DEF Init, C!Init, C!Kept
    <3> DEFINE x == m < InactiveAfter
    <3>2. x \in BOOLEAN /\ (x <=> m < InactiveAfter)
      OBVIOUS
    <3>3. rows[i] = [hash |-> h, missing |-> m, active |-> x]
      BY <3>1
    <3> HIDE DEF x
    <3> QED
      BY <3>2, <3>3, FieldsAreSound
  <2> QED
    BY <2>1, <2>2
<1>2. rows \in [Ids -> C!Row]
  <2>1. rows \in [Ids -> C!Kept]
    BY DEF Init, C!Init
  <2> QED
    BY <1>1, <2>1 DEF Sound
<1>3. draft \in [Txns -> [Ids -> C!Row]] /\ \A t \in Txns, i \in Ids : Sound(draft[t][i])
  BY AbsentIsSound DEF Init, Sound
<1>4. latest = <<>> /\ stateExists \in BOOLEAN
  <2>1. C!Init /\ stateExists \in {\E i \in Ids : rows[i] # C!Absent, TRUE}
    BY DEF Init
  <2>2. stateExists \in BOOLEAN
    BY <2>1, Zenon
  <2>3. latest = <<>>
    BY <2>1, Zenon DEF C!Init
  <2> QED
    BY <2>2, <2>3
<1> QED
  BY <1>1, <1>2, <1>3, <1>4
  DEF Init, RowsInvariant, TypeOK, CursorIsInside, RowsAreSound

\* The invariant holds in every state.
LEMMA RowsInvariantHolds == Spec => []RowsInvariant
  BY InitialRows, RowsStep, PTL DEF Spec

\* Rows, drafts and locks stay within their types.
THEOREM RecordsTypeCorrect == Spec => []TypeOK
<1>1. RowsInvariant => TypeOK
  BY DEF RowsInvariant
<1> QED
  BY <1>1, RowsInvariantHolds, PTL

\* However the transactions interleave, fail and wait, a committed record is
\* active exactly while it was absent less often than the threshold
\* (record_repository.py:24-99).
THEOREM AbsencesDecideActivity == Spec => []ActiveUntilThreshold
<1>1. RowsInvariant => ActiveUntilThreshold
  BY DEF RowsInvariant, RowsAreSound, Sound, ActiveUntilThreshold, C!ActiveUntilThreshold
<1> QED
  BY <1>1, RowsInvariantHolds, PTL

-----------------------------------------------------------------------------
(* Locks.  A row that does not exist makes nobody wait; that two first      *)
(* inserts of it do not meet is due to the advisory lock taken before.      *)

LocksAreTheirs ==
  /\ \A t \in Txns : pc[t] = "row" => keyLock[Item(t).id] = t
  /\ \A t \in Txns, i \in Ids :
       rowLock[i] = t /\ rows[i] = C!Absent => keyLock[i] = t
  /\ \A t \in Txns : pc[t] \in {"scan", "reconcile"} => stateLock = t

\* The locks of the others stand when a transaction ends.
LEMMA EndKeepsLocks ==
  ASSUME TypeOK, CursorIsInside, LocksAreTheirs, NEW t \in Txns, NEW end \in Done,
         pc' = [pc EXCEPT ![t] = end], Unlock(t), Forget(t),
         \A i \in Ids : rowLock[i] # t => rows'[i] = rows[i]
  PROVE  LocksAreTheirs'
<1> USE DEF TypeOK, Unlock, Forget
<1>1. pc'[t] \notin {"row", "scan", "reconcile"}
  BY DEF Done
<1>2. ASSUME NEW u \in Txns, pc'[u] = "row" PROVE keyLock'[Item(u)'.id] = u
  <2>1. u # t /\ pc[u] = "row" /\ Item(u)' = Item(u)
    BY <1>1, <1>2 DEF Item
  <2>2. keyLock[Item(u).id] = u
    BY <2>1 DEF LocksAreTheirs
  <2>3. Item(u).id \in Ids
    BY <2>1, ItemType
  <2>4. keyLock'[Item(u).id] = u
    BY <2>1, <2>2, <2>3
  <2> QED
    BY <2>1, <2>4
<1>3. ASSUME NEW u \in Txns, NEW i \in Ids, rowLock'[i] = u, rows'[i] = C!Absent
      PROVE  keyLock'[i] = u
  BY <1>3, RepositoryAssumption DEF LocksAreTheirs
<1>4. ASSUME NEW u \in Txns, pc'[u] \in {"scan", "reconcile"} PROVE stateLock' = u
  BY <1>1, <1>4 DEF LocksAreTheirs
<1> QED
  BY <1>2, <1>3, <1>4 DEF LocksAreTheirs

LocksInvariant == RowsInvariant /\ LocksAreTheirs

\* Every step of a transaction leaves the locks to their holders.
LEMMA LocksStep ==
  ASSUME RowsInvariant, LocksAreTheirs, [Next]_vars
  PROVE  LocksAreTheirs'
<1> USE RepositoryAssumption DEF database, locks, private
<1>0. TypeOK /\ CursorIsInside
  BY DEF RowsInvariant
<1>1. ASSUME NEW t \in Txns, Begin(t) PROVE LocksAreTheirs'
  <2>1. /\ UNCHANGED <<rows, keyLock, rowLock, stateLock, pos>>
        /\ \A u \in Txns : pc'[u] \in {"row", "scan", "reconcile"} =>
             u # t /\ pc'[u] = pc[u] /\ items'[u] = items[u]
    BY <1>0, <1>1 DEF Begin, Move, TypeOK
  <2> QED
    BY <2>1 DEF LocksAreTheirs, Item
<1>2. ASSUME NEW t \in Txns, LockKey(t) PROVE LocksAreTheirs'
  <2> DEFINE i == Item(t).id
  <2>1. /\ i \in Ids /\ keyLock[i] \in {NoTxn, t} /\ pc' = [pc EXCEPT ![t] = "row"]
        /\ keyLock' = [keyLock EXCEPT ![i] = t]
        /\ UNCHANGED <<rows, rowLock, stateLock, items, pos>>
    BY <1>0, <1>2, ItemType DEF LockKey, Move, Grantable
  <2>2. \A u \in Txns : Item(u)' = Item(u)
    BY <2>1 DEF Item
  <2>3. ASSUME NEW u \in Txns, pc'[u] = "row" PROVE keyLock'[Item(u).id] = u
    <3>1. CASE u = t
      BY <1>0, <2>1, <3>1 DEF TypeOK
    <3>2. CASE u # t
      <4>1. pc[u] = "row" /\ Item(u).id \in Ids
        BY <1>0, <2>1, <2>3, <3>2, ItemType DEF TypeOK
      <4>2. keyLock[Item(u).id] = u
        BY <4>1 DEF LocksAreTheirs
      <4> HIDE DEF i
      <4> QED
        BY <1>0, <2>1, <3>2, <4>1, <4>2 DEF TypeOK
    <3> QED
      BY <3>1, <3>2
  <2> HIDE DEF i
  <2>4. ASSUME NEW u \in Txns, NEW j \in Ids, rowLock[j] = u, rows[j] = C!Absent
        PROVE  keyLock'[j] = u
    BY <1>0, <2>1, <2>4 DEF LocksAreTheirs, TypeOK
  <2>5. ASSUME NEW u \in Txns, pc'[u] \in {"scan", "reconcile"} PROVE stateLock = u
    BY <1>0, <2>1, <2>5 DEF LocksAreTheirs, TypeOK
  <2> QED
    BY <2>1, <2>2, <2>3, <2>4, <2>5 DEF LocksAreTheirs
<1>3. ASSUME NEW t \in Txns, Upsert(t) PROVE LocksAreTheirs'
  <2> DEFINE i == Item(t).id
  <2>1. /\ i \in Ids /\ keyLock[i] = t
        /\ rowLock' = [rowLock EXCEPT ![i] = t]
        /\ UNCHANGED <<rows, keyLock, stateLock, items>>
    BY <1>0, <1>3, ItemType DEF Upsert, Move, LocksAreTheirs
  <2>2. \A u \in Txns : pc'[u] \in {"row", "scan", "reconcile"} =>
             u # t /\ pc'[u] = pc[u] /\ pos'[u] = pos[u]
    BY <1>0, <1>3 DEF Upsert, Move, TypeOK
  <2> HIDE DEF i
  <2>3. ASSUME NEW u \in Txns, pc'[u] = "row" PROVE keyLock[Item(u)'.id] = u
    BY <2>1, <2>2, <2>3 DEF Item, LocksAreTheirs
  <2>4. ASSUME NEW u \in Txns, NEW j \in Ids, rowLock'[j] = u, rows[j] = C!Absent
        PROVE  keyLock[j] = u
    BY <1>0, <2>1, <2>4 DEF LocksAreTheirs, TypeOK
  <2>5. ASSUME NEW u \in Txns, pc'[u] \in {"scan", "reconcile"} PROVE stateLock = u
    BY <2>2, <2>5 DEF LocksAreTheirs
  <2> QED
    BY <2>1, <2>3, <2>4, <2>5 DEF LocksAreTheirs
<1>4. ASSUME NEW t \in Txns, LockState(t) \/ InsertState(t) \/ Scan(t) PROVE LocksAreTheirs'
  <2>1. /\ UNCHANGED <<rows, keyLock, rowLock, items, pos>>
        /\ \A u \in Txns : pc'[u] = "row" => pc[u] = "row"
    BY <1>0, <1>4 DEF LockState, InsertState, Scan, Move, TypeOK
  <2>2. ASSUME NEW u \in Txns, pc'[u] \in {"scan", "reconcile"} PROVE stateLock' = u
    BY <1>0, <1>4, <2>2 DEF LockState, InsertState, Scan, Move, Grantable, TypeOK, LocksAreTheirs
  <2> QED
    BY <2>1, <2>2 DEF LocksAreTheirs, Item
<1>5. ASSUME NEW t \in Txns, Miss(t) PROVE LocksAreTheirs'
  <2>1. PICK i \in toLock[t] : \/ rows[i].active /\ rowLock' = [rowLock EXCEPT ![i] = t]
                               \/ UNCHANGED rowLock
    BY <1>5 DEF Miss
  <2>2. UNCHANGED <<rows, keyLock, stateLock, pc, items, pos>> /\ i \in Ids
    BY <1>0, <1>5, <2>1 DEF Miss, TypeOK
  <2>3. rows[i].active => rows[i] # C!Absent
    BY DEF C!Absent
  <2>4. ASSUME NEW u \in Txns, NEW j \in Ids, rowLock'[j] = u, rows[j] = C!Absent
        PROVE  keyLock[j] = u
    BY <1>0, <2>1, <2>2, <2>3, <2>4 DEF LocksAreTheirs, TypeOK
  <2> QED
    BY <2>2, <2>4 DEF LocksAreTheirs, Item
<1>6. ASSUME NEW t \in Txns, Commit(t) PROVE LocksAreTheirs'
  <2>1. /\ pc' = [pc EXCEPT ![t] = "committed"] /\ Unlock(t) /\ Forget(t)
        /\ \A i \in Ids : rowLock[i] # t => rows'[i] = rows[i]
    BY <1>6 DEF Commit, Move
  <2> QED
    BY <1>0, <2>1, EndKeepsLocks DEF Done
<1>7. ASSUME NEW t \in Txns, InsertConflict(t) \/ DeadlockVictim(t) \/ Fail(t)
      PROVE  LocksAreTheirs'
  <2>1. PICK end \in Done : pc' = [pc EXCEPT ![t] = end] /\ Unlock(t) /\ Forget(t)
    BY <1>7 DEF InsertConflict, DeadlockVictim, Fail, RollBack, Done
  <2>2. rows' = rows
    BY <1>7 DEF InsertConflict, DeadlockVictim, Fail, RollBack
  <2> QED
    BY <1>0, <2>1, <2>2, EndKeepsLocks
<1>8. CASE UNCHANGED vars
  BY <1>8 DEF vars, LocksAreTheirs, Item
<1> QED
  BY <1>1, <1>2, <1>3, <1>4, <1>5, <1>6, <1>7, <1>8 DEF Next, Step

\* At first nobody holds a lock.
LEMMA InitialLocks == Init => LocksAreTheirs
  BY RepositoryAssumption DEF Init, LocksAreTheirs

\* The invariant of rows and locks holds in every state.
LEMMA LocksInvariantHolds == Spec => []LocksInvariant
<1>1. Init => LocksAreTheirs
  BY InitialLocks
<1>2. LocksAreTheirs /\ RowsInvariant /\ [Next]_vars => LocksAreTheirs'
  BY LocksStep
<1> QED
  BY <1>1, <1>2, RowsInvariantHolds, PTL DEF Spec, LocksInvariant

\* Absences of a source are counted by one transaction at a time: the fetch
\* state serializes the reconcile queries (record_repository.py:61-62).
OneReconciles ==
  \A t, u \in Txns :
    pc[t] \in {"scan", "reconcile"} /\ pc[u] \in {"scan", "reconcile"} => t = u

\* No two transactions are between their fetch state and their commit.
THEOREM OneTransactionReconciles == Spec => []OneReconciles
<1>1. LocksInvariant => OneReconciles
  BY DEF LocksInvariant, LocksAreTheirs, OneReconciles
<1> QED
  BY <1>1, LocksInvariantHolds, PTL

\* The row a transaction works on is not changed, nor locked, by another
\* before it ends.
KeepsItsRow(t, i) == \/ rowLock'[i] = t /\ rows'[i] = rows[i]
                     \/ pc'[t] \in Done

\* The advisory lock protects a row before it exists, the row lock after.
LEMMA LockedRowStays ==
  ASSUME LocksInvariant, Next, NEW t \in Txns, NEW i \in Ids, rowLock[i] = t
  PROVE  KeepsItsRow(t, i)
<1> USE RepositoryAssumption DEF database, locks, private, KeepsItsRow
<1>0. TypeOK /\ CursorIsInside /\ LocksAreTheirs
  BY DEF LocksInvariant, RowsInvariant
<1>1. ASSUME NEW u \in Txns,
             \/ Begin(u) \/ LockKey(u) \/ LockState(u) \/ InsertState(u) \/ Scan(u)
      PROVE  KeepsItsRow(t, i)
  BY <1>1 DEF Begin, LockKey, LockState, InsertState, Scan
<1>2. ASSUME NEW u \in Txns, Upsert(u) PROVE KeepsItsRow(t, i)
  <2> DEFINE j == Item(u).id
  <2>1. /\ j \in Ids /\ keyLock[j] = u
        /\ rowLock' = [rowLock EXCEPT ![j] = u] /\ rows' = rows
        /\ rows[j] # C!Absent => rowLock[j] \in {NoTxn, u}
    BY <1>0, <1>2, ItemType DEF Upsert, Move, Grantable, LocksAreTheirs
  <2> HIDE DEF j
  <2>2. i = j => u = t
    BY <1>0, <2>1 DEF LocksAreTheirs
  <2> QED
    BY <1>0, <2>1, <2>2 DEF TypeOK
<1>3. ASSUME NEW u \in Txns, Miss(u) PROVE KeepsItsRow(t, i)
  BY <1>0, <1>3 DEF Miss, Grantable, TypeOK
<1>4. ASSUME NEW u \in Txns, Commit(u) PROVE KeepsItsRow(t, i)
  BY <1>0, <1>4 DEF Commit, Move, Unlock, TypeOK, Done
<1>5. ASSUME NEW u \in Txns, InsertConflict(u) \/ DeadlockVictim(u) \/ Fail(u)
      PROVE  KeepsItsRow(t, i)
  BY <1>0, <1>5 DEF InsertConflict, DeadlockVictim, Fail, RollBack, Unlock, TypeOK, Done
<1> QED
  BY <1>1, <1>2, <1>3, <1>4, <1>5 DEF Next, Step

\* No update is lost, nor is a record inserted twice.
NoUpdateIsLost ==
  [][\A t \in Txns, i \in Ids : rowLock[i] = t => KeepsItsRow(t, i)]_vars

\* A locked row stays as it is until its transaction ends
\* (record_repository.py:30-39,80-92).
THEOREM RowsStayLocked == Spec => NoUpdateIsLost
<1>1. LocksInvariant /\ [Next]_vars =>
        [\A t \in Txns, i \in Ids : rowLock[i] = t => KeepsItsRow(t, i)]_vars
  <2> SUFFICES ASSUME LocksInvariant, Next
               PROVE  \A t \in Txns, i \in Ids : rowLock[i] = t => KeepsItsRow(t, i)
    BY Zenon
  <2> QED
    BY LockedRowStays
<1> QED
  BY <1>1, LocksInvariantHolds, PTL DEF Spec, NoUpdateIsLost

-----------------------------------------------------------------------------
(* Collections.  What a collection makes of a record, item by item.         *)

Items == Seq([id : Ids, hash : Hashes])
Events == [kind : {"created", "updated", "inactive"}, hash : Hashes]

\* A record and its new events after one more item.
Taking(item, i, before) ==
  IF item.id # i THEN before
  ELSE [row |-> C!Upserted(item.hash),
        events |-> before.events \o C!UpsertEvents(before.row, item.hash)]

\* The events of one item are of the types they should be.
LEMMA UpsertEventsType ==
  ASSUME NEW row \in C!Row, NEW hash \in Hashes
  PROVE  C!UpsertEvents(row, hash) \in Seq(Events) /\ C!Upserted(hash) \in C!Row
<1>1. C!Upserted(hash) \in C!Row
  BY UpsertedIsSound DEF Sound
<1> DEFINE created == C!Event("created", hash)
           updated == C!Event("updated", hash)
<1>2. created \in Events /\ updated \in Events
  BY DEF Events, C!Event
<1>3. C!UpsertEvents(row, hash) \in {<<>>, <<created>>, <<updated>>}
  BY DEF C!UpsertEvents
<1> HIDE DEF created, updated
<1>4. /\ <<>> \in Seq(Events)
      /\ <<created>> \in Seq(Events)
      /\ <<updated>> \in Seq(Events)
  <2> HIDE DEF Events
  <2>1. <<>> \in Seq(Events)
    OBVIOUS
  <2>2. <<created>> \in Seq(Events)
    BY <1>2
  <2>3. <<updated>> \in Seq(Events)
    BY <1>2
  <2> QED
    BY <2>1, <2>2, <2>3
<1>5. C!UpsertEvents(row, hash) \in Seq(Events)
  BY <1>3, <1>4
<1> QED
  BY <1>1, <1>5

\* The recursion of Taken is what it says: it starts with the record and goes on
\* from item to item.
LEMMA TakenByItem ==
  ASSUME NEW row \in C!Row, NEW all \in Items, NEW i \in Ids
  PROVE  /\ C!Taken(row, all, i)[0] = [row |-> row, events |-> <<>>]
         /\ \A k \in 1..Len(all) :
              C!Taken(row, all, i)[k] = Taking(all[k], i, C!Taken(row, all, i)[k - 1])
         /\ \A k \in 0..Len(all) : C!Taken(row, all, i)[k] \in [row : C!Row, events : Seq(Events)]
<1> DEFINE n == Len(all)
           S == [row : C!Row, events : Seq(Events)]
           start == [row |-> row, events |-> <<>>]
           Onward(k, before) == IF k \in 1..n THEN Taking(all[k], i, before) ELSE before
           step == [k \in Nat |-> [before \in S |-> Onward(k, before)]]
           IsTaken(f) == f = [k \in 0..n |-> IF k = 0 THEN start
                                             ELSE IF all[k].id # i THEN f[k - 1]
                                             ELSE [row |-> C!Upserted(all[k].hash),
                                                   events |-> f[k - 1].events
                                                     \o C!UpsertEvents(f[k - 1].row, all[k].hash)]]
<1>1. n \in Nat /\ \A k \in 1..n : all[k].hash \in Hashes
  <2> DEFINE T == [id : Ids, hash : Hashes]
  <2>1. all \in Seq(T)
    BY DEF Items
  <2> HIDE DEF T
  <2>2. n \in Nat /\ \A k \in 1..n : all[k] \in T
    BY <2>1
  <2> QED
    BY <2>2 DEF T
<1>2. start \in S
  <2>1. <<>> \in Seq(Events)
    OBVIOUS
  <2> QED
    BY <2>1
<1>3. ASSUME NEW k \in Nat, NEW before \in S PROVE Onward(k, before) \in S
  <2>1. CASE k \notin 1..n \/ all[k].id # i
    BY <2>1 DEF Taking
  <2>2. CASE k \in 1..n /\ all[k].id = i
    <3> DEFINE hash == all[k].hash
               events == before.events \o C!UpsertEvents(before.row, hash)
    <3>1. hash \in Hashes /\ before.row \in C!Row /\ before.events \in Seq(Events)
      BY <1>1, <2>2
    <3>2. C!UpsertEvents(before.row, hash) \in Seq(Events) /\ C!Upserted(hash) \in C!Row
      BY <3>1, UpsertEventsType
    <3>3. events \in Seq(Events)
      BY <3>1, <3>2
    <3>4. Onward(k, before) = [row |-> C!Upserted(hash), events |-> events]
      BY <2>2 DEF Taking
    <3> HIDE DEF hash, events, Onward
    <3> QED
      BY <3>2, <3>3, <3>4
  <2> QED
    BY <2>1, <2>2
<1>4. step \in Steps(S)
  <2> HIDE DEF S, Onward
  <2> QED
    BY <1>3 DEF Steps
<1>5. PICK g \in [Nat -> S] : /\ g[0] = start
                             /\ \A k \in Nat : g[k + 1] = step[k + 1][g[k]]
  <2> HIDE DEF S, start, step
  <2> QED
    BY <1>2, <1>4, Iteration DEF Iterates
<1> DEFINE f == [k \in 0..n |-> g[k]]
<1>6. ASSUME NEW k \in 1..n PROVE f[k] = Taking(all[k], i, f[k - 1]) /\ f[k - 1] \in S
  <2>1. k - 1 \in Nat /\ (k - 1) + 1 = k /\ k \in Nat /\ k \in 0..n /\ k - 1 \in 0..n
    BY <1>1
  <2>2. g[k] = step[k][g[k - 1]] /\ g[k - 1] \in S
    <3> HIDE DEF step, S
    <3> QED
      BY <1>5, <2>1
  <2>3. g[k] = Onward(k, g[k - 1])
    <3> HIDE DEF S, Onward
    <3> QED
      BY <2>1, <2>2
  <2> QED
    BY <2>1, <2>2, <2>3
<1> DEFINE Follows(h) == h = [k \in 0..n |-> IF k = 0 THEN start ELSE Taking(all[k], i, h[k - 1])]
<1>7. \A h : IsTaken(h) <=> Follows(h)
  BY DEF Taking
<1>8. C!Taken(row, all, i) = CHOOSE h : IsTaken(h)
  BY DEF C!Taken
<1> HIDE DEF IsTaken
<1>9. PICK h : h = C!Taken(row, all, i) /\ Follows(h)
  <2>1. Follows(f)
    <3>1. 0 \in 0..n /\ f[0] = start
      BY <1>1, <1>5
    <3> HIDE DEF start
    <3>2. \A k \in 0..n : f[k] = IF k = 0 THEN start ELSE Taking(all[k], i, f[k - 1])
      <4>1. \A k \in 0..n : k # 0 => k \in 1..n
        BY <1>1
      <4> HIDE DEF f
      <4> QED
        BY <1>6, <3>1, <4>1
    <3>3. f = [k \in 0..n |-> f[k]]
      OBVIOUS
    <3> HIDE DEF f
    <3> QED
      BY <3>2, <3>3
  <2> HIDE DEF Follows, f
  <2>2. IsTaken(f)
    BY <1>7, <2>1
  <2>3. IsTaken(CHOOSE h : IsTaken(h))
    BY <2>2
  <2> QED
    BY <1>7, <1>8, <2>3
<1>10. /\ h[0] = start
       /\ \A k \in 1..n : h[k] = Taking(all[k], i, h[k - 1])
  <2> HIDE DEF start
  <2>1. 0 \in 0..n /\ \A k \in 1..n : k \in 0..n /\ k # 0
    BY <1>1
  <2> QED
    BY <1>9, <2>1
<1>11. \A k \in 0..n : h[k] \in S
  <2> DEFINE G == {k \in 0..n : h[k] \in S}
  <2>1. 0 \in G
    <3> HIDE DEF S, start
    <3> QED
      BY <1>1, <1>2, <1>10
  <2>2. ASSUME NEW k \in 0..n - 1, k \in G PROVE k + 1 \in G
    <3>1. k + 1 \in 1..n /\ (k + 1) - 1 = k /\ h[k] \in S
      BY <1>1, <2>2
    <3>2. h[k + 1] = Onward(k + 1, h[k])
      BY <1>10, <3>1
    <3> HIDE DEF Onward, S
    <3> QED
      BY <1>1, <1>3, <3>1, <3>2
  <2> HIDE DEF G
  <2>3. 0..n \subseteq G
    BY <1>1, <2>1, <2>2, UpTo
  <2> QED
    BY <2>3 DEF G
<1> QED
  BY <1>9, <1>10, <1>11

\* Items of other records leave a record alone.
LEMMA UntouchedByOthers ==
  ASSUME NEW row \in C!Row, NEW all \in Items, NEW i \in Ids, NEW n \in 0..Len(all),
         \A k \in 1..n : all[k].id # i
  PROVE  C!Taken(row, all, i)[n] = [row |-> row, events |-> <<>>]
<1> DEFINE G == {k \in 0..n : C!Taken(row, all, i)[k] = [row |-> row, events |-> <<>>]}
<1>1. Len(all) \in Nat
  BY DEF Items
<1>2. 0 \in G
  BY <1>1, TakenByItem
<1>3. ASSUME NEW k \in 0..n - 1, k \in G PROVE k + 1 \in G
  <2>1. k + 1 \in 1..n /\ k + 1 \in 1..Len(all) /\ (k + 1) - 1 = k /\ k + 1 \in 0..n
    BY <1>1
  <2>2. C!Taken(row, all, i)[k + 1] = Taking(all[k + 1], i, C!Taken(row, all, i)[k])
    <3>1. PICK f : f = C!Taken(row, all, i)
      OBVIOUS
    <3>2. \A j \in 1..Len(all) : f[j] = Taking(all[j], i, f[j - 1])
      BY <3>1, TakenByItem
    <3>3. f[k + 1] = Taking(all[k + 1], i, f[(k + 1) - 1])
      BY <2>1, <3>2
    <3> QED
      BY <2>1, <3>1, <3>3
  <2> QED
    BY <1>3, <2>1, <2>2 DEF Taking
<1> HIDE DEF G
<1>4. n \in Nat
  BY <1>1
<1>5. 0..n \subseteq G
  BY ONLY <1>2, <1>3, <1>4, UpTo
<1>6. n \in G
  BY <1>4, <1>5
<1> QED
  BY <1>6 DEF G

-----------------------------------------------------------------------------
(* What a transaction has drafted is what the abstract specification makes  *)
(* of the rows as they are committed now.                                   *)

Reached(t, i) == \E k \in 1..pos[t] - 1 : items[t][k].id = i

\* A record an item named is locked and drafted; one that is missed, from the
\* query of active rows on; any other is left to other transactions.
WorkFollowsItems(t, i) ==
  IF Reached(t, i)
    THEN /\ rowLock[i] = t
         /\ C!Taken(rows[i], items[t], i)[pos[t] - 1] =
              [row |-> draft[t][i], events |-> news[t][i]]
         /\ pc[t] = "reconcile" => i \notin toLock[t]
  ELSE IF pc[t] = "reconcile"
    THEN /\ i \in toLock[t] => rows[i].active
         /\ rowLock[i] = t <=> (rows[i].active /\ i \notin toLock[t])
         /\ rowLock[i] = t => /\ draft[t][i] = C!Missed(rows[i])
                              /\ news[t][i] = C!MissedEvents(rows[i])
         /\ rowLock[i] # t => news[t][i] = <<>>
  ELSE rowLock[i] # t /\ news[t][i] = <<>>

\* The items are behind a transaction that goes on to the fetch state.
CursorFollows ==
  \A t \in Txns :
    /\ pc[t] \in {"state", "insert", "scan", "reconcile"} => pos[t] = Len(items[t]) + 1
    /\ pc[t] \in Done => pos[t] = 1
    /\ Live(t) => items[t] \in Results

NewsTyped == news \in [Txns -> [Ids -> Seq(Events)]]

WorkInvariant ==
  /\ LocksInvariant /\ CursorFollows /\ NewsTyped
  /\ \A t \in Txns, i \in Ids : WorkFollowsItems(t, i)

Acts(t) == Begin(t) \/ Step(t) \/ Fail(t)

\* A transaction that is not running has no work.
LEMMA NoWorkOutside ==
  ASSUME WorkInvariant, NEW t \in Txns, pc[t] \in Done \cup {"idle"}
  PROVE  /\ pos[t] = 1
         /\ \A i \in Ids : ~Reached(t, i) /\ rowLock[i] # t /\ news[t][i] = <<>>
<1>1. pos[t] = 1
  BY DEF WorkInvariant, LocksInvariant, RowsInvariant, CursorIsInside, CursorFollows
<1>2. \A i \in Ids : ~Reached(t, i)
  BY <1>1 DEF Reached
<1> QED
  BY <1>1, <1>2 DEF WorkInvariant, WorkFollowsItems, Done

\* The end of a transaction leaves no work of its own.
EndsWork(t, end) == pc' = [pc EXCEPT ![t] = end] /\ Unlock(t) /\ Forget(t)

\* A step of one transaction leaves the work of the others.
LEMMA OthersKeepTheirs ==
  ASSUME WorkInvariant, NEW t \in Txns, Acts(t), NEW u \in Txns \ {t}
  PROVE  /\ pc'[u] = pc[u] /\ items'[u] = items[u] /\ pos'[u] = pos[u]
         /\ draft'[u] = draft[u] /\ news'[u] = news[u] /\ toLock'[u] = toLock[u]
         /\ \A i \in Ids : rowLock'[i] = u => rowLock[i] = u
         /\ pc[u] = "reconcile" => rows' = rows
<1> USE RepositoryAssumption DEF database, locks, private
<1>1. TypeOK /\ NewsTyped /\ LocksAreTheirs /\ CursorIsInside
  BY DEF WorkInvariant, LocksInvariant, RowsInvariant
<1>2. ASSUME NEW end \in Done, EndsWork(t, end)
      PROVE  /\ pc'[u] = pc[u] /\ items'[u] = items[u] /\ pos'[u] = pos[u]
             /\ draft'[u] = draft[u] /\ news'[u] = news[u] /\ toLock'[u] = toLock[u]
             /\ \A i \in Ids : rowLock'[i] = u => rowLock[i] = u
  BY <1>1, <1>2 DEF EndsWork, Unlock, Forget, TypeOK, NewsTyped
<1>3. CASE Begin(t)
  BY <1>1, <1>3 DEF Begin, Move, TypeOK
<1>4. CASE LockKey(t) \/ LockState(t) \/ InsertState(t) \/ Scan(t)
  BY <1>1, <1>4 DEF LockKey, LockState, InsertState, Scan, Move, TypeOK
<1>5. CASE Upsert(t)
  <2> DEFINE i == Item(t).id
             new == C!Upserted(Item(t).hash)
             row == IF rowLock[i] = t THEN draft[t][i] ELSE rows[i]
             more == C!UpsertEvents(row, Item(t).hash)
  <2>1. /\ draft' = [draft EXCEPT ![t][i] = new]
        /\ news' = [news EXCEPT ![t][i] = @ \o more]
        /\ rowLock' = [rowLock EXCEPT ![i] = t]
        /\ pos' = [pos EXCEPT ![t] = @ + 1]
        /\ Move(t, "row", IF pos[t] = Len(items[t]) THEN "state" ELSE "key")
        /\ UNCHANGED <<database, keyLock, stateLock, items, toLock>>
    BY <1>5 DEF Upsert
  <2>2. i \in Ids
    BY <1>1, <2>1, ItemType DEF Move
  <2> HIDE DEF i, new, more, row
  <2> QED
    BY <1>1, <2>1, <2>2 DEF Move, TypeOK, NewsTyped
<1>6. CASE Miss(t)
  BY <1>1, <1>6 DEF Miss, TypeOK, NewsTyped
<1>7. CASE Commit(t)
  <2>1. pc[t] = "reconcile" /\ EndsWork(t, "committed")
    BY <1>7 DEF Commit, Move, EndsWork
  <2>2. pc[u] # "reconcile"
    BY <1>1, <2>1 DEF LocksAreTheirs
  <2> QED
    BY <1>2, <2>1, <2>2 DEF Done
<1>8. CASE InsertConflict(t) \/ DeadlockVictim(t) \/ Fail(t)
  <2>1. rows' = rows /\ \E end \in Done : EndsWork(t, end)
    BY <1>8 DEF InsertConflict, DeadlockVictim, Fail, RollBack, Done, EndsWork
  <2> QED
    BY <1>2, <2>1
<1> QED
  BY <1>3, <1>4, <1>5, <1>6, <1>7, <1>8 DEF Acts, Step

\* So what the others have drafted still follows their items.
LEMMA OthersFollow ==
  ASSUME WorkInvariant, NEW t \in Txns, Acts(t), NEW u \in Txns \ {t}, NEW i \in Ids
  PROVE  WorkFollowsItems(u, i)'
<1>1. /\ pc'[u] = pc[u] /\ items'[u] = items[u] /\ pos'[u] = pos[u]
      /\ draft'[u] = draft[u] /\ news'[u] = news[u] /\ toLock'[u] = toLock[u]
      /\ rowLock'[i] = u => rowLock[i] = u
      /\ pc[u] = "reconcile" => rows' = rows
  BY OthersKeepTheirs
<1>2. rowLock[i] = u => rowLock'[i] = u /\ rows'[i] = rows[i]
  <2> SUFFICES ASSUME rowLock[i] = u PROVE rowLock'[i] = u /\ rows'[i] = rows[i]
    OBVIOUS
  <2>1. Next
    BY DEF Next, Acts
  <2>2. KeepsItsRow(u, i)
    BY <2>1, LockedRowStays DEF WorkInvariant
  <2>3. pc[u] \notin Done
    BY NoWorkOutside
  <2> QED
    BY <1>1, <2>2, <2>3 DEF KeepsItsRow
<1>3. Reached(u, i)' <=> Reached(u, i)
  BY <1>1 DEF Reached
<1>4. WorkFollowsItems(u, i)
  BY DEF WorkInvariant
<1>5. CASE Reached(u, i)
  BY <1>1, <1>2, <1>3, <1>4, <1>5 DEF WorkFollowsItems
<1>6. CASE ~Reached(u, i) /\ pc[u] = "reconcile"
  BY <1>1, <1>2, <1>3, <1>4, <1>6 DEF WorkFollowsItems
<1>7. CASE ~Reached(u, i) /\ pc[u] # "reconcile"
  BY <1>1, <1>3, <1>4, <1>7 DEF WorkFollowsItems
<1> QED
  BY <1>5, <1>6, <1>7

\* The cursor of one transaction.
CursorOf(t) ==
  /\ pc[t] \in {"state", "insert", "scan", "reconcile"} => pos[t] = Len(items[t]) + 1
  /\ pc[t] \in Done => pos[t] = 1
  /\ Live(t) => items[t] \in Results

\* The work of the transaction that acts.
OwnWork(t) == CursorOf(t) /\ NewsTyped /\ \A i \in Ids : WorkFollowsItems(t, i)

\* A transaction that begins has reached nothing.
LEMMA BeginFollows ==
  ASSUME WorkInvariant, NEW t \in Txns, Begin(t)
  PROVE  OwnWork(t)'
<1> USE DEF database, locks, private
<1>1. TypeOK /\ NewsTyped
  BY DEF WorkInvariant, LocksInvariant, RowsInvariant
<1>2. PICK r \in Results : /\ items' = [items EXCEPT ![t] = r]
                           /\ pc[t] = "idle"
                           /\ pc' = [pc EXCEPT ![t] = IF r = <<>> THEN "state" ELSE "key"]
                           /\ UNCHANGED <<rows, rowLock, pos, draft, news, toLock>>
  BY DEF Begin, Move
<1>3. pos[t] = 1 /\ \A i \in Ids : rowLock[i] # t /\ news[t][i] = <<>>
  BY <1>2, NoWorkOutside
<1>4. /\ items'[t] = r /\ pos'[t] = 1 /\ pc'[t] \in {"state", "key"}
      /\ pc'[t] = "state" => r = <<>>
  BY <1>1, <1>2, <1>3 DEF TypeOK
<1>5. CursorOf(t)'
  BY <1>4 DEF CursorOf, Done
<1>6. \A i \in Ids : ~Reached(t, i)'
  BY <1>4 DEF Reached
<1>7. \A i \in Ids : WorkFollowsItems(t, i)'
  BY <1>2, <1>3, <1>4, <1>6 DEF WorkFollowsItems
<1> QED
  BY <1>1, <1>2, <1>5, <1>7 DEF OwnWork, NewsTyped

\* Taking a lock changes no work.
LEMMA LocksFollow ==
  ASSUME WorkInvariant, NEW t \in Txns, LockKey(t) \/ LockState(t) \/ InsertState(t)
  PROVE  OwnWork(t)'
<1> USE DEF database, locks, private
<1>1. TypeOK /\ NewsTyped /\ CursorOf(t)
  BY DEF WorkInvariant, LocksInvariant, RowsInvariant, CursorFollows, CursorOf
<1>2. /\ pc'[t] \in {"row", "scan", "insert"} /\ pc[t] \in {"key", "state", "insert"}
      /\ UNCHANGED <<rows, rowLock, items, pos, draft, news, toLock>>
      /\ pc'[t] # "row" => pc[t] # "key"
  BY <1>1 DEF LockKey, LockState, InsertState, Move, TypeOK
<1>3. CursorOf(t)'
  BY <1>1, <1>2 DEF CursorOf, Live, Done
<1>4. ASSUME NEW i \in Ids PROVE WorkFollowsItems(t, i)'
  <2>1. WorkFollowsItems(t, i)
    BY DEF WorkInvariant
  <2>2. Reached(t, i)' <=> Reached(t, i)
    BY <1>2 DEF Reached
  <2>3. CASE Reached(t, i)
    BY <1>2, <2>1, <2>2, <2>3 DEF WorkFollowsItems
  <2>4. CASE ~Reached(t, i)
    BY <1>2, <2>1, <2>2, <2>4 DEF WorkFollowsItems
  <2> QED
    BY <2>3, <2>4
<1> QED
  BY <1>1, <1>2, <1>3, <1>4 DEF OwnWork, NewsTyped

\* The query names the active rows no item named.
LEMMA ScanFollows ==
  ASSUME WorkInvariant, NEW t \in Txns, Scan(t)
  PROVE  OwnWork(t)'
<1> USE DEF database, locks, private
<1>1. TypeOK /\ NewsTyped /\ CursorOf(t)
  BY DEF WorkInvariant, LocksInvariant, RowsInvariant, CursorFollows, CursorOf
<1>2. /\ pc'[t] = "reconcile" /\ pc[t] = "scan"
      /\ UNCHANGED <<rows, rowLock, items, pos, draft, news>>
      /\ toLock'[t] = {i \in Ids \ C!Observed(items[t]) : rows[i].active}
  BY <1>1 DEF Scan, Move, TypeOK
<1>3. CursorOf(t)'
  BY <1>1, <1>2 DEF CursorOf, Live, Done
<1>4. Len(items[t]) \in Nat /\ DOMAIN items[t] = 1..Len(items[t])
  <2>1. items[t] \in Seq([id : Ids, hash : Hashes])
    BY <1>1, CollectionType DEF TypeOK
  <2> QED
    BY <2>1
<1>5. ASSUME NEW i \in Ids PROVE WorkFollowsItems(t, i)'
  <2>1. WorkFollowsItems(t, i)
    BY DEF WorkInvariant
  <2>2. Reached(t, i)' <=> Reached(t, i)
    BY <1>2 DEF Reached
  <2>3. Reached(t, i) <=> i \in C!Observed(items[t])
    <3>1. pos[t] - 1 = Len(items[t])
      BY <1>1, <1>2, <1>4 DEF CursorOf
    <3> QED
      BY <1>4, <3>1 DEF Reached, C!Observed
  <2>4. CASE Reached(t, i)
    BY <1>2, <2>1, <2>2, <2>3, <2>4 DEF WorkFollowsItems
  <2>5. CASE ~Reached(t, i)
    BY <1>2, <2>1, <2>2, <2>3, <2>5 DEF WorkFollowsItems
  <2> QED
    BY <2>4, <2>5
<1> QED
  BY <1>1, <1>2, <1>3, <1>5 DEF OwnWork, NewsTyped

\* A transaction that ends keeps nothing.
LEMMA EndFollows ==
  ASSUME WorkInvariant, NEW t \in Txns, NEW end \in Done, EndsWork(t, end)
  PROVE  OwnWork(t)'
<1> USE RepositoryAssumption DEF database, locks, private
<1>1. TypeOK /\ NewsTyped
  BY DEF WorkInvariant, LocksInvariant, RowsInvariant
<1>2. /\ pc'[t] \in Done /\ pos'[t] = 1
      /\ \A i \in Ids : rowLock'[i] # t /\ news'[t][i] = <<>>
  BY <1>1 DEF EndsWork, Unlock, Forget, TypeOK, NewsTyped
<1>3. CursorOf(t)'
  BY <1>2 DEF CursorOf, Live, Done
<1>4. \A i \in Ids : ~Reached(t, i)'
  BY <1>2 DEF Reached
<1>5. NewsTyped'
  <2>1. <<>> \in Seq(Events)
    OBVIOUS
  <2>2. [i \in Ids |-> <<>>] \in [Ids -> Seq(Events)]
    BY <2>1
  <2> QED
    BY <1>1, <2>2 DEF EndsWork, Forget, NewsTyped
<1> QED
  BY <1>2, <1>3, <1>4, <1>5 DEF OwnWork, WorkFollowsItems, Done

\* The events of an absence are of the types they should be.
LEMMA MissedEventsType ==
  ASSUME NEW row, Sound(row), row.active
  PROVE  C!MissedEvents(row) \in Seq(Events)
<1>1. row.hash \in Hashes
  <2>1. row.hash # NoHash
    <3>1. C!Absent.active = FALSE
      BY DEF C!Absent
    <3> QED
      BY <3>1 DEF Sound
  <2> QED
    BY <2>1 DEF Sound, C!Row
<1> DEFINE e == C!Event("inactive", row.hash)
<1>2. e \in Events
  BY <1>1 DEF C!Event, Events
<1>3. C!MissedEvents(row) \in {<<>>, <<e>>}
  BY DEF C!MissedEvents
<1> HIDE DEF e
<1>4. <<>> \in Seq(Events) /\ <<e>> \in Seq(Events)
  <2> HIDE DEF Events
  <2>1. <<>> \in Seq(Events)
    OBVIOUS
  <2>2. <<e>> \in Seq(Events)
    BY <1>2
  <2> QED
    BY <2>1, <2>2
<1> QED
  BY <1>3, <1>4

\* Joining with the empty sequence.
LEMMA JoinedWithNothing ==
  ASSUME NEW S, NEW s \in Seq(S)
  PROVE  <<>> \o s = s /\ s \o <<>> = s
OBVIOUS

\* A row that is missed is drafted as the abstract specification counts it.
LEMMA MissFollows ==
  ASSUME WorkInvariant, NEW t \in Txns, Miss(t)
  PROVE  OwnWork(t)'
<1> USE RepositoryAssumption DEF database, locks, private
<1>1. TypeOK /\ NewsTyped /\ CursorOf(t) /\ RowsAreSound
  BY DEF WorkInvariant, LocksInvariant, RowsInvariant, CursorFollows, CursorOf
<1>2. pc[t] = "reconcile" /\ UNCHANGED <<rows, pc, items, pos>>
  BY DEF Miss
<1>3. PICK i \in toLock[t] :
        /\ toLock' = [toLock EXCEPT ![t] = @ \ {i}]
        /\ rows[i].active => /\ rowLock' = [rowLock EXCEPT ![i] = t]
                             /\ draft' = [draft EXCEPT ![t][i] = C!Missed(rows[i])]
                             /\ news' = [news EXCEPT ![t][i] = @ \o C!MissedEvents(rows[i])]
  BY DEF Miss
<1>4. i \in Ids
  BY <1>1, <1>3 DEF TypeOK
<1>5. ~Reached(t, i) /\ rows[i].active /\ rowLock[i] # t /\ news[t][i] = <<>>
  <2>1. WorkFollowsItems(t, i)
    BY <1>4 DEF WorkInvariant
  <2> QED
    BY <1>2, <1>3, <2>1 DEF WorkFollowsItems
<1> DEFINE missed == C!Missed(rows[i])
           more == C!MissedEvents(rows[i])
<1>6. more \in Seq(Events)
  BY <1>1, <1>4, <1>5, MissedEventsType DEF RowsAreSound
<1>7. /\ rowLock' = [rowLock EXCEPT ![i] = t]
      /\ draft' = [draft EXCEPT ![t][i] = missed]
      /\ news' = [news EXCEPT ![t][i] = @ \o more]
  BY <1>3, <1>5
<1> HIDE DEF missed, more
<1>8. news' = [news EXCEPT ![t][i] = more]
  <2>1. news[t][i] \o more = more
    BY <1>5, <1>6, JoinedWithNothing
  <2> HIDE DEF Events
  <2> QED
    BY <1>1, <1>4, <1>7, <2>1 DEF NewsTyped
<1>9. NewsTyped'
  <2> HIDE DEF Events
  <2>1. [news[t] EXCEPT ![i] = more] \in [Ids -> Seq(Events)]
    BY <1>1, <1>6 DEF NewsTyped
  <2> QED
    BY <1>1, <1>8, <2>1 DEF NewsTyped
<1>10. CursorOf(t)'
  BY <1>1, <1>2 DEF CursorOf, Live
<1>11. ASSUME NEW j \in Ids PROVE WorkFollowsItems(t, j)'
  <2>1. WorkFollowsItems(t, j)
    BY DEF WorkInvariant
  <2>2. Reached(t, j)' <=> Reached(t, j)
    BY <1>2 DEF Reached
  <2>3. CASE j = i
    <3>1. rowLock'[i] = t /\ draft'[t][i] = missed /\ i \notin toLock'[t]
      BY <1>1, <1>3, <1>4, <1>7 DEF TypeOK
    <3>2. news'[t][i] = more
      BY <1>1, <1>4, <1>8 DEF NewsTyped
    <3> QED
      BY <1>2, <1>5, <2>2, <2>3, <3>1, <3>2 DEF WorkFollowsItems, missed, more
  <2>4. CASE j # i
    <3>1. /\ rowLock'[j] = rowLock[j] /\ draft'[t][j] = draft[t][j] /\ news'[t][j] = news[t][j]
          /\ j \in toLock'[t] <=> j \in toLock[t]
      BY <1>1, <1>3, <1>4, <1>7, <1>8, <2>4 DEF TypeOK, NewsTyped
    <3>2. CASE Reached(t, j)
      BY <1>2, <2>1, <2>2, <3>1, <3>2 DEF WorkFollowsItems
    <3>3. CASE ~Reached(t, j)
      BY <1>2, <2>1, <2>2, <3>1, <3>3 DEF WorkFollowsItems
    <3> QED
      BY <3>2, <3>3
  <2> QED
    BY <2>3, <2>4
<1> QED
  BY <1>9, <1>10, <1>11 DEF OwnWork

\* An item is taken as the abstract specification takes it.
LEMMA UpsertFollows ==
  ASSUME WorkInvariant, NEW t \in Txns, Upsert(t)
  PROVE  OwnWork(t)'
<1> USE RepositoryAssumption DEF database, locks, private
<1>1. TypeOK /\ NewsTyped /\ CursorOf(t) /\ RowsAreSound /\ CursorIsInside
  BY DEF WorkInvariant, LocksInvariant, RowsInvariant, CursorFollows, CursorOf
<1> DEFINE all == items[t]
           k == pos[t]
           i == Item(t).id
           hash == Item(t).hash
           row == IF rowLock[i] = t THEN draft[t][i] ELSE rows[i]
           more == C!UpsertEvents(row, hash)
<1>2. /\ pc[t] = "row" /\ k \in 1..Len(all) /\ Len(all) \in Nat /\ all \in Items
      /\ i \in Ids /\ hash \in Hashes
  <2>1. pc[t] = "row"
    BY DEF Upsert, Move
  <2>2. all \in Items
    BY <1>1, CollectionType DEF TypeOK, Items
  <2>3. Len(all) \in Nat
    BY <2>2 DEF Items
  <2> QED
    BY <1>1, <2>1, <2>2, <2>3, ItemType DEF CursorIsInside
<1>3. /\ pc' = [pc EXCEPT ![t] = IF k = Len(all) THEN "state" ELSE "key"]
      /\ rowLock' = [rowLock EXCEPT ![i] = t]
      /\ draft' = [draft EXCEPT ![t][i] = C!Upserted(hash)]
      /\ news' = [news EXCEPT ![t][i] = @ \o more]
      /\ pos' = [pos EXCEPT ![t] = @ + 1]
      /\ UNCHANGED <<rows, items, toLock>>
  BY DEF Upsert, Move
<1>4. all[k].id = i /\ all[k].hash = hash
  BY DEF Item
<1> HIDE DEF i, hash, row, more
<1>5. row \in C!Row /\ more \in Seq(Events)
  <2>1. row \in C!Row
    BY <1>1, <1>2 DEF TypeOK, row
  <2> QED
    BY <1>2, <2>1, UpsertEventsType DEF more
<1>6. NewsTyped'
  <2>1. news[t][i] \o more \in Seq(Events)
    <3>1. news[t][i] \in Seq(Events)
      BY <1>1, <1>2 DEF NewsTyped
    <3> QED
      BY <1>5, <3>1
  <2> HIDE DEF Events
  <2> QED
    BY <1>1, <1>2, <1>3, <2>1 DEF NewsTyped
<1>7. /\ pc'[t] \in {"state", "key"} /\ (pc'[t] = "state" => k = Len(all))
      /\ pos'[t] = k + 1 /\ items'[t] = all /\ k \in Nat
  BY <1>1, <1>2, <1>3 DEF TypeOK
<1>8. CursorOf(t)'
  <2>1. all \in Results
    BY <1>1, <1>2 DEF CursorOf, Live, Done
  <2> QED
    BY <1>7, <2>1 DEF CursorOf, Done
<1>9. ASSUME NEW j \in Ids PROVE WorkFollowsItems(t, j)'
  <2>1. WorkFollowsItems(t, j)
    BY DEF WorkInvariant
  <2>2. Reached(t, j)' <=> (Reached(t, j) \/ j = i)
    <3>1. pos'[t] - 1 = k /\ 1..k = (1..k - 1) \cup {k}
      BY <1>2, <1>7
    <3> QED
      BY <1>4, <1>7, <3>1 DEF Reached
  <2>3. PICK f : f = C!Taken(rows[j], all, j)
    OBVIOUS
  <2>4. rows[j] \in C!Row
    BY <1>1 DEF TypeOK
  <2>5. f[k] = Taking(all[k], j, f[k - 1])
    <3>1. \A m \in 1..Len(all) : f[m] = Taking(all[m], j, f[m - 1])
      <4>1. all \in Items
        BY <1>2
      <4>2. PICK content : content = all
        OBVIOUS
      <4>3. content \in Items /\ f = C!Taken(rows[j], content, j)
        BY <2>3, <4>1, <4>2
      <4>4. \A m \in 1..Len(content) : f[m] = Taking(content[m], j, f[m - 1])
        BY ONLY <2>4, <4>3, j \in Ids, TakenByItem
      <4> QED
        BY <4>2, <4>4
    <3> QED
      BY <1>2, <3>1
  <2>6. CASE j = i
    <3>1. f[k - 1] = [row |-> row, events |-> news[t][i]]
      <4>1. CASE Reached(t, j)
        BY <2>1, <2>3, <2>6, <4>1 DEF WorkFollowsItems, row
      <4>2. CASE ~Reached(t, j)
        <5>1. rowLock[i] # t /\ news[t][i] = <<>>
          BY <1>2, <2>1, <2>6, <4>2 DEF WorkFollowsItems
        <5>2. k - 1 \in 0..Len(all) /\ \A m \in 1..k - 1 : all[m].id # j
          BY <1>2, <4>2 DEF Reached
        <5>3. f[k - 1] = [row |-> rows[j], events |-> <<>>]
          BY <1>2, <2>3, <2>4, <5>2, UntouchedByOthers
        <5> QED
          BY <2>6, <5>1, <5>3 DEF row
      <4> QED
        BY <4>1, <4>2
    <3>2. f[k] = [row |-> C!Upserted(hash), events |-> news[t][i] \o more]
      BY <1>4, <2>5, <2>6, <3>1 DEF Taking, more
    <3>3. rowLock'[i] = t /\ draft'[t][i] = C!Upserted(hash) /\ news'[t][i] = news[t][i] \o more
      <4> HIDE DEF Events
      <4> QED
        BY <1>1, <1>2, <1>3 DEF TypeOK, NewsTyped
    <3>4. pos'[t] - 1 = k
      BY <1>7
    <3> QED
      BY <1>3, <1>7, <2>2, <2>3, <2>6, <3>2, <3>3, <3>4 DEF WorkFollowsItems
  <2>7. CASE j # i
    <3>1. rowLock'[j] = rowLock[j] /\ draft'[t][j] = draft[t][j] /\ news'[t][j] = news[t][j]
      <4> HIDE DEF Events
      <4> QED
        BY <1>1, <1>2, <1>3, <2>7 DEF TypeOK, NewsTyped
    <3>2. f[k] = f[k - 1]
      BY <1>4, <2>5, <2>7 DEF Taking
    <3>3. pos'[t] - 1 = k
      BY <1>7
    <3>4. CASE Reached(t, j)
      BY <1>3, <1>7, <2>1, <2>2, <2>3, <3>1, <3>2, <3>3, <3>4 DEF WorkFollowsItems
    <3>5. CASE ~Reached(t, j)
      BY <1>2, <1>7, <2>1, <2>2, <2>7, <3>1, <3>5 DEF WorkFollowsItems
    <3> QED
      BY <3>4, <3>5
  <2> QED
    BY <2>6, <2>7
<1> QED
  BY <1>6, <1>8, <1>9 DEF OwnWork

\* Every step of a transaction keeps the work of all of them after their items.
LEMMA WorkStep ==
  ASSUME WorkInvariant, [Next]_vars
  PROVE  WorkInvariant'
<1>1. LocksInvariant'
  BY RowsStep, LocksStep DEF WorkInvariant, LocksInvariant
<1>2. CASE Next
  <2>1. PICK t \in Txns : Acts(t)
    BY <1>2 DEF Next, Acts
  <2>2. OwnWork(t)'
    <3>1. CASE Begin(t)
      BY <3>1, BeginFollows
    <3>2. CASE LockKey(t) \/ LockState(t) \/ InsertState(t)
      BY <3>2, LocksFollow
    <3>3. CASE Upsert(t)
      BY <3>3, UpsertFollows
    <3>4. CASE Scan(t)
      BY <3>4, ScanFollows
    <3>5. CASE Miss(t)
      BY <3>5, MissFollows
    <3>6. CASE Commit(t) \/ InsertConflict(t) \/ DeadlockVictim(t) \/ Fail(t)
      <4>1. PICK end \in Done : EndsWork(t, end)
        BY <3>6 DEF Commit, Move, InsertConflict, DeadlockVictim, Fail, RollBack, Done, EndsWork
      <4> QED
        BY <4>1, EndFollows
    <3> QED
      BY <2>1, <3>1, <3>2, <3>3, <3>4, <3>5, <3>6 DEF Acts, Step
  <2>3. ASSUME NEW u \in Txns, NEW i \in Ids PROVE WorkFollowsItems(u, i)'
    BY <2>1, <2>2, OthersFollow DEF OwnWork
  <2>4. ASSUME NEW u \in Txns PROVE CursorOf(u)'
    <3>1. CASE u = t
      BY <2>2, <3>1 DEF OwnWork
    <3>2. CASE u # t
      <4>1. pc'[u] = pc[u] /\ items'[u] = items[u] /\ pos'[u] = pos[u]
        BY <2>1, <3>2, OthersKeepTheirs
      <4>2. CursorOf(u)
        BY DEF WorkInvariant, CursorFollows, CursorOf
      <4> QED
        BY <4>1, <4>2 DEF CursorOf, Live
    <3> QED
      BY <3>1, <3>2
  <2>5. CursorFollows'
    BY <2>4 DEF CursorFollows, CursorOf
  <2> QED
    BY <1>1, <2>2, <2>3, <2>5 DEF WorkInvariant, OwnWork
<1>3. CASE UNCHANGED vars
  <2>1. UNCHANGED <<rows, rowLock, pc, items, pos, draft, news, toLock>>
    BY <1>3 DEF vars, database, locks, private
  <2>2. CursorFollows' /\ NewsTyped'
    BY <2>1 DEF WorkInvariant, CursorFollows, NewsTyped, Live
  <2>3. ASSUME NEW u \in Txns, NEW i \in Ids PROVE WorkFollowsItems(u, i)'
    <3>1. WorkFollowsItems(u, i)
      BY DEF WorkInvariant
    <3>2. Reached(u, i)' <=> Reached(u, i)
      BY <2>1 DEF Reached
    <3> QED
      BY <2>1, <3>1, <3>2 DEF WorkFollowsItems
  <2> QED
    BY <1>1, <2>2, <2>3 DEF WorkInvariant
<1> QED
  BY <1>2, <1>3

\* Work follows the items in every state.
LEMMA WorkInvariantHolds == Spec => []WorkInvariant
<1>1. Init => LocksInvariant
  BY InitialRows, InitialLocks DEF LocksInvariant
<1>2. Init => CursorFollows /\ NewsTyped /\ \A t \in Txns, i \in Ids : WorkFollowsItems(t, i)
  <2> SUFFICES ASSUME Init
               PROVE  CursorFollows /\ NewsTyped /\ \A t \in Txns, i \in Ids : WorkFollowsItems(t, i)
    OBVIOUS
  <2>1. \A t \in Txns : pc[t] = "idle" /\ pos[t] = 1 /\ \A i \in Ids : news[t][i] = <<>>
    BY DEF Init
  <2>2. \A t \in Txns, i \in Ids : rowLock[i] # t
    BY RepositoryAssumption DEF Init
  <2>3. CursorFollows
    BY <2>1 DEF CursorFollows, Live, Done
  <2>4. NewsTyped
    <3>1. <<>> \in Seq(Events)
      OBVIOUS
    <3> QED
      BY <3>1 DEF Init, NewsTyped
  <2>5. \A t \in Txns, i \in Ids : ~Reached(t, i)
    BY <2>1 DEF Reached
  <2> QED
    BY <2>1, <2>2, <2>3, <2>4, <2>5 DEF WorkFollowsItems
<1>3. Init => WorkInvariant
  BY <1>1, <1>2 DEF WorkInvariant
<1> QED
  BY <1>3, WorkStep, PTL DEF Spec

-----------------------------------------------------------------------------
(* The refinement.                                                          *)

\* A commit persists the collection of the transaction, as one step.
LEMMA CommitPersists ==
  ASSUME WorkInvariant, NEW t \in Txns, Commit(t)
  PROVE  items[t] \in Results /\ C!Persist(items[t])
<1>1. TypeOK /\ CursorOf(t)
  BY DEF WorkInvariant, LocksInvariant, RowsInvariant, CursorFollows, CursorOf
<1>2. /\ pc[t] = "reconcile" /\ toLock[t] = {} /\ latest' = items[t]
      /\ rows' = [i \in Ids |-> IF rowLock[i] = t THEN draft[t][i] ELSE rows[i]]
      /\ log' = [i \in Ids |-> log[i] \o news[t][i]]
  BY DEF Commit, Move
<1>3. items[t] \in Results /\ pos[t] = Len(items[t]) + 1
  BY <1>1, <1>2 DEF CursorOf, Live, Done
<1>4. Len(items[t]) \in Nat /\ DOMAIN items[t] = 1..Len(items[t])
  <2>1. items[t] \in Seq([id : Ids, hash : Hashes])
    BY <1>1, CollectionType DEF TypeOK
  <2> QED
    BY <2>1
<1>5. pos[t] - 1 = Len(items[t])
  BY <1>3, <1>4
<1>6. ASSUME NEW i \in Ids
      PROVE  /\ (IF rowLock[i] = t THEN draft[t][i] ELSE rows[i]) = C!After(rows[i], items[t], i)
             /\ news[t][i] = C!EventsOf(rows[i], items[t], i)
  <2>1. WorkFollowsItems(t, i)
    BY DEF WorkInvariant
  <2>2. Reached(t, i) <=> i \in C!Observed(items[t])
    BY <1>4, <1>5 DEF Reached, C!Observed
  <2>3. CASE Reached(t, i)
    <3>1. /\ rowLock[i] = t
          /\ C!Taken(rows[i], items[t], i)[Len(items[t])] = [row |-> draft[t][i], events |-> news[t][i]]
      BY <1>5, <2>1, <2>3 DEF WorkFollowsItems
    <3> QED
      BY <2>2, <2>3, <3>1 DEF C!After, C!EventsOf
  <2>4. CASE ~Reached(t, i)
    <3>1. /\ rowLock[i] = t <=> rows[i].active
          /\ rowLock[i] = t => /\ draft[t][i] = C!Missed(rows[i])
                               /\ news[t][i] = C!MissedEvents(rows[i])
          /\ rowLock[i] # t => news[t][i] = <<>>
      BY <1>2, <2>1, <2>4 DEF WorkFollowsItems
    <3> QED
      BY <2>2, <2>4, <3>1 DEF C!After, C!EventsOf
  <2> QED
    BY <2>3, <2>4
<1>7. rows' = [i \in Ids |-> C!After(rows[i], items[t], i)]
  BY <1>2, <1>6
<1>8. log' = [i \in Ids |-> log[i] \o C!EventsOf(rows[i], items[t], i)]
  BY <1>2, <1>6
<1> QED
  BY <1>2, <1>3, <1>7, <1>8 DEF C!Persist

\* Transactions that begin, wait, fail and commit in any order leave what the
\* committed collections leave when they are persisted one after the other, in
\* the order of their commits (record_repository.py:24-106).
THEOREM TransactionsAreSerializable == Spec => ImplementsCollections
<1>1. Init => C!Init
  BY DEF Init
<1>2. WorkInvariant /\ [Next]_vars => [C!Next]_(C!vars)
  <2> SUFFICES ASSUME WorkInvariant, [Next]_vars PROVE C!Next \/ UNCHANGED C!vars
    OBVIOUS
  <2>1. CASE \E t \in Txns : Commit(t)
    BY <2>1, CommitPersists DEF C!Next
  <2>2. CASE ~ \E t \in Txns : Commit(t)
    BY <2>2 DEF C!vars, vars, database, Next, Step, Begin, LockKey, Upsert, LockState,
        InsertState, Scan, Miss, InsertConflict, DeadlockVictim, Fail, RollBack
  <2> QED
    BY <2>1, <2>2
<1> QED
  BY <1>1, <1>2, WorkInvariantHolds, PTL DEF Spec, ImplementsCollections, C!Spec

-----------------------------------------------------------------------------
(* Collections, persisted one after the other: what the events tell.        *)

\* What holds of the record before the first item and stays with every item that
\* names it holds after any number of items.
LEMMA ItemByItem ==
  ASSUME NEW row \in C!Row, NEW all \in Items, NEW i \in Ids, NEW G,
         [row |-> row, events |-> <<>>] \in G,
         \A before \in G : \A k \in 1..Len(all) :
           all[k].id = i => Taking(all[k], i, before) \in G
  PROVE  \A n \in 0..Len(all) : C!Taken(row, all, i)[n] \in G
<1>1. Len(all) \in Nat
  BY DEF Items
<1>2. PICK f : f = C!Taken(row, all, i)
  OBVIOUS
<1>3. /\ f[0] \in G
      /\ \A k \in 1..Len(all) : f[k] = Taking(all[k], i, f[k - 1])
  BY <1>2, TakenByItem
<1> DEFINE Reaching == {k \in 0..Len(all) : f[k] \in G}
<1>4. 0 \in Reaching
  BY <1>1, <1>3
<1>5. ASSUME NEW k \in 0..Len(all) - 1, k \in Reaching PROVE k + 1 \in Reaching
  <2>1. k + 1 \in 1..Len(all) /\ (k + 1) - 1 = k /\ k + 1 \in 0..Len(all) /\ f[k] \in G
    BY <1>1, <1>5
  <2>2. f[k + 1] = Taking(all[k + 1], i, f[k])
    <3>1. f[k + 1] = Taking(all[k + 1], i, f[(k + 1) - 1])
      BY <1>3, <2>1
    <3> QED
      BY <2>1, <3>1
  <2>3. f[k + 1] \in G
    <3>1. CASE all[k + 1].id = i
      BY <2>1, <2>2, <3>1
    <3>2. CASE all[k + 1].id # i
      BY <2>1, <2>2, <3>2 DEF Taking
    <3> QED
      BY <3>1, <3>2
  <2> QED
    BY <2>1, <2>3
<1> HIDE DEF Reaching
<1>6. 0..Len(all) \subseteq Reaching
  BY ONLY <1>1, <1>4, <1>5, UpTo
<1> QED
  BY <1>2, <1>6 DEF Reaching

\* A record that an item names is active, with the fingerprint of one of its items.
LEMMA ObservedIsActive ==
  ASSUME NEW row \in C!Row, NEW all \in Items, NEW i \in C!Observed(all), i \in Ids
  PROVE  /\ C!After(row, all, i).active
         /\ \E j \in DOMAIN all : all[j].id = i /\ C!After(row, all, i).hash = all[j].hash
<1>1. Len(all) \in Nat /\ DOMAIN all = 1..Len(all)
  BY DEF Items
<1>2. PICK f : f = C!Taken(row, all, i)
  OBVIOUS
<1>3. \A k \in 1..Len(all) : f[k] = Taking(all[k], i, f[k - 1])
  BY <1>2, TakenByItem
<1> DEFINE Names(n) == \E j \in 1..n : all[j].id = i
           Tells(n) == /\ f[n].row.active
                       /\ \E j \in 1..n : all[j].id = i /\ f[n].row.hash = all[j].hash
           G == {n \in 0..Len(all) : Names(n) => Tells(n)}
<1>4. 0 \in G
  BY <1>1
<1>5. ASSUME NEW k \in 0..Len(all) - 1, k \in G PROVE k + 1 \in G
  <2>1. k + 1 \in 1..Len(all) /\ (k + 1) - 1 = k /\ k + 1 \in 0..Len(all)
    BY <1>1
  <2>2. f[k + 1] = Taking(all[k + 1], i, f[k])
    <3>1. f[k + 1] = Taking(all[k + 1], i, f[(k + 1) - 1])
      BY <1>3, <2>1
    <3> QED
      BY <2>1, <3>1
  <2>3. CASE all[k + 1].id = i
    <3>1. f[k + 1].row = C!Upserted(all[k + 1].hash)
      BY <2>2, <2>3 DEF Taking
    <3>2. f[k + 1].row.active /\ f[k + 1].row.hash = all[k + 1].hash
      BY <3>1 DEF C!Upserted
    <3> QED
      BY <2>1, <2>3, <3>2
  <2>4. CASE all[k + 1].id # i
    <3>1. f[k + 1] = f[k]
      BY <2>2, <2>4 DEF Taking
    <3>2. Names(k + 1) => Names(k)
      BY <2>4
    <3>3. Tells(k) => Tells(k + 1)
      BY <3>1
    <3> QED
      BY <1>5, <2>1, <3>2, <3>3
  <2> QED
    BY <2>3, <2>4
<1> HIDE DEF G
<1>6. 0..Len(all) \subseteq G
  BY ONLY <1>1, <1>4, <1>5, UpTo
<1>7. Len(all) \in G
  BY <1>1, <1>6
<1>8. Names(Len(all))
  BY <1>1 DEF C!Observed
<1>9. Tells(Len(all))
  BY <1>7, <1>8 DEF G
<1> QED
  BY <1>1, <1>2, <1>9 DEF C!After

\* Joining one more event.
LEMMA JoinedWithOne ==
  ASSUME NEW S, NEW s \in Seq(S), NEW x \in Seq(S), NEW e \in S
  PROVE  /\ s \o (x \o <<e>>) = Append(s \o x, e)
         /\ x \o <<e>> = Append(x, e)
         /\ s \o x \in Seq(S)
OBVIOUS

\* The events an item adds: none, or one that is no absence.
LEMMA UpsertEventsAre ==
  ASSUME NEW row, NEW hash \in Hashes
  PROVE  IF row.hash = hash THEN C!UpsertEvents(row, hash) = <<>>
         ELSE \E e \in Events : /\ C!UpsertEvents(row, hash) = <<e>>
                                /\ e.kind = (IF row.hash = NoHash THEN "created" ELSE "updated")
                                /\ e.hash = hash
<1> DEFINE e == C!Event(IF row.hash = NoHash THEN "created" ELSE "updated", hash)
<1>1. e \in Events /\ e.hash = hash /\ e.kind = (IF row.hash = NoHash THEN "created" ELSE "updated")
  BY DEF C!Event, Events
<1>2. C!UpsertEvents(row, hash) = IF row.hash = hash THEN <<>> ELSE <<e>>
  BY DEF C!UpsertEvents
<1> HIDE DEF e
<1> QED
  BY <1>1, <1>2

\* The events of a record tell its story up to a fingerprint.
Story(events, hash) ==
  IF hash = NoHash THEN events = <<>>
  ELSE /\ events # <<>> /\ events[1].kind = "created"
       /\ \E k \in DOMAIN events : /\ C!Newest(events, k, Len(events) + 1)
                                   /\ events[k].hash = hash
       /\ \A k \in C!Content(events) \ {1} :
            /\ events[k].kind = "updated"
            /\ \E j \in DOMAIN events : /\ C!Newest(events, j, k)
                                        /\ events[j].hash # events[k].hash

\* What is newest among the first events stays so when one is added.
LEMMA NewestStays ==
  ASSUME NEW s \in Seq(Events), NEW e \in Events
  PROVE  /\ \A k \in 1..Len(s) : k \in C!Content(Append(s, e)) <=> k \in C!Content(s)
         /\ \A k \in C!Content(Append(s, e)) : k \in 1..Len(s) \/ k = Len(s) + 1
         /\ \A j \in 1..Len(s), k \in 1..Len(s) + 1 :
              C!Newest(s, j, k) => C!Newest(Append(s, e), j, k)
<1>1. PICK n \in Nat : n = Len(s) /\ DOMAIN s = 1..n
  OBVIOUS
<1>2. PICK a : a = Append(s, e)
  OBVIOUS
<1>3. DOMAIN a = 1..n + 1 /\ \A k \in 1..n : a[k] = s[k]
  BY <1>1, <1>2
<1>4. C!Content(s) = {k \in 1..n : s[k].kind # "inactive"}
  BY <1>1 DEF C!Content
<1>5. C!Content(a) = {k \in 1..n + 1 : a[k].kind # "inactive"}
  BY <1>3 DEF C!Content
<1>6. \A k \in 1..n : k \in C!Content(a) <=> k \in C!Content(s)
  BY <1>3, <1>4, <1>5
<1>7. \A k \in C!Content(a) : k \in 1..n \/ k = n + 1
  BY <1>5
<1>8. ASSUME NEW j \in 1..n, NEW k \in 1..n + 1, C!Newest(s, j, k)
      PROVE  C!Newest(a, j, k)
  <2>1. j \in C!Content(a) /\ j < k
    BY <1>6, <1>8 DEF C!Newest
  <2>2. ASSUME NEW m \in C!Content(a), m < k PROVE m <= j
    <3>1. m \in 1..n
      BY <1>7, <2>2
    <3> QED
      BY <1>6, <1>8, <2>2, <3>1 DEF C!Newest
  <2> QED
    BY <2>1, <2>2 DEF C!Newest
<1> QED
  BY <1>1, <1>2, <1>6, <1>7, <1>8

\* A creation begins a story, an update to another fingerprint goes on with it.
LEMMA StoryGoesOn ==
  ASSUME NEW s \in Seq(Events), NEW old \in Hashes \cup {NoHash}, Story(s, old),
         NEW e \in Events, e.hash # old, e.kind = (IF old = NoHash THEN "created" ELSE "updated")
  PROVE  Story(Append(s, e), e.hash)
<1>1. PICK n \in Nat : n = Len(s) /\ DOMAIN s = 1..n
  OBVIOUS
<1>2. PICK a : a = Append(s, e)
  OBVIOUS
<1>3. /\ DOMAIN a = 1..n + 1 /\ Len(a) = n + 1 /\ a # <<>>
      /\ a[n + 1] = e /\ \A k \in 1..n : a[k] = s[k]
  BY <1>1, <1>2
<1>4. e.hash \in Hashes /\ e.hash # NoHash
  BY RepositoryAssumption DEF Events
<1>5. /\ \A k \in 1..n : k \in C!Content(a) <=> k \in C!Content(s)
      /\ \A k \in C!Content(a) : k \in 1..n \/ k = n + 1
      /\ \A j \in 1..n, k \in 1..n + 1 : C!Newest(s, j, k) => C!Newest(a, j, k)
  BY <1>1, <1>2, NewestStays
<1>6. n + 1 \in C!Content(a)
  BY <1>3 DEF C!Content
<1>7. C!Newest(a, n + 1, n + 2)
  BY <1>1, <1>5, <1>6 DEF C!Newest
<1>8. \E k \in DOMAIN a : C!Newest(a, k, Len(a) + 1) /\ a[k].hash = e.hash
  BY <1>1, <1>3, <1>7
<1>9. CASE old = NoHash
  <2>1. n = 0
    BY <1>1, <1>9 DEF Story
  <2>2. a[1].kind = "created" /\ \A k \in C!Content(a) : k = 1
    BY <1>3, <1>5, <1>9, <2>1
  <2> QED
    BY <1>2, <1>3, <1>4, <1>8, <2>2 DEF Story
<1>10. CASE old # NoHash
  <2>1. /\ s # <<>> /\ s[1].kind = "created"
        /\ \E k \in DOMAIN s : C!Newest(s, k, n + 1) /\ s[k].hash = old
        /\ \A k \in C!Content(s) \ {1} :
             /\ s[k].kind = "updated"
             /\ \E j \in DOMAIN s : C!Newest(s, j, k) /\ s[j].hash # s[k].hash
    BY <1>1, <1>10 DEF Story
  <2>2. 1 \in 1..n
    BY <1>1, <2>1
  <2>3. ASSUME NEW k \in C!Content(a) \ {1}
        PROVE  /\ a[k].kind = "updated"
               /\ \E j \in DOMAIN a : C!Newest(a, j, k) /\ a[j].hash # a[k].hash
    <3>1. CASE k \in 1..n
      <4>1. k \in C!Content(s) \ {1}
        BY <1>5, <3>1
      <4>2. PICK j \in 1..n : C!Newest(s, j, k) /\ s[j].hash # s[k].hash
        BY <1>1, <2>1, <4>1
      <4>3. C!Newest(a, j, k) /\ j \in DOMAIN a /\ a[j] = s[j] /\ a[k] = s[k]
        BY <1>1, <1>3, <1>5, <3>1, <4>2
      <4> QED
        BY <2>1, <4>1, <4>2, <4>3
    <3>2. CASE k = n + 1
      <4>1. PICK j \in 1..n : C!Newest(s, j, n + 1) /\ s[j].hash = old
        BY <1>1, <2>1
      <4>2. C!Newest(a, j, n + 1) /\ j \in DOMAIN a /\ a[j] = s[j]
        BY <1>1, <1>3, <1>5, <4>1
      <4> QED
        BY <1>3, <1>10, <3>2, <4>1, <4>2
    <3> QED
      BY <1>5, <3>1, <3>2
  <2>4. a[1].kind = "created"
    BY <1>3, <2>1, <2>2
  <2> QED
    BY <1>2, <1>3, <1>4, <1>8, <2>3, <2>4 DEF Story
<1> QED
  BY <1>9, <1>10

\* An absence changes nothing of a story.
LEMMA StoryRests ==
  ASSUME NEW s \in Seq(Events), NEW hash \in Hashes, Story(s, hash),
         NEW e \in Events, e.kind = "inactive"
  PROVE  Story(Append(s, e), hash)
<1>1. PICK n \in Nat : n = Len(s) /\ DOMAIN s = 1..n
  OBVIOUS
<1>2. PICK a : a = Append(s, e)
  OBVIOUS
<1>3. /\ DOMAIN a = 1..n + 1 /\ Len(a) = n + 1 /\ a # <<>>
      /\ a[n + 1] = e /\ \A k \in 1..n : a[k] = s[k]
  BY <1>1, <1>2
<1>4. hash # NoHash
  BY RepositoryAssumption
<1>5. /\ \A k \in 1..n : k \in C!Content(a) <=> k \in C!Content(s)
      /\ \A k \in C!Content(a) : k \in 1..n \/ k = n + 1
      /\ \A j \in 1..n, k \in 1..n + 1 : C!Newest(s, j, k) => C!Newest(a, j, k)
  BY <1>1, <1>2, NewestStays
<1>6. \A k \in C!Content(a) : k \in 1..n
  BY <1>3, <1>5 DEF C!Content
<1>7. /\ s # <<>> /\ s[1].kind = "created"
      /\ \E k \in DOMAIN s : C!Newest(s, k, n + 1) /\ s[k].hash = hash
      /\ \A k \in C!Content(s) \ {1} :
           /\ s[k].kind = "updated"
           /\ \E j \in DOMAIN s : C!Newest(s, j, k) /\ s[j].hash # s[k].hash
  BY <1>1, <1>4 DEF Story
<1>8. a[1].kind = "created"
  <2>1. 1 \in 1..n
    BY <1>1, <1>7
  <2> QED
    BY <1>3, <1>7, <2>1
<1>9. \E k \in DOMAIN a : C!Newest(a, k, Len(a) + 1) /\ a[k].hash = hash
  <2>1. PICK k \in 1..n : C!Newest(s, k, n + 1) /\ s[k].hash = hash
    BY <1>1, <1>7
  <2>2. C!Newest(a, k, n + 1) /\ a[k].hash = hash /\ k \in DOMAIN a
    BY <1>1, <1>3, <1>5, <2>1
  <2>3. C!Newest(a, k, n + 2)
    <3>1. \A m \in C!Content(a) : m < n + 1
      BY <1>1, <1>6
    <3>2. k < n + 2
      BY <1>1
    <3> QED
      BY <2>2, <3>1, <3>2 DEF C!Newest
  <2> QED
    BY <1>1, <1>3, <2>2, <2>3
<1>10. ASSUME NEW k \in C!Content(a) \ {1}
       PROVE  /\ a[k].kind = "updated"
              /\ \E j \in DOMAIN a : C!Newest(a, j, k) /\ a[j].hash # a[k].hash
  <2>1. k \in C!Content(s) \ {1} /\ k \in 1..n
    BY <1>5, <1>6
  <2>2. PICK j \in 1..n : C!Newest(s, j, k) /\ s[j].hash # s[k].hash
    BY <1>1, <1>7, <2>1
  <2>3. C!Newest(a, j, k) /\ j \in DOMAIN a /\ a[j] = s[j] /\ a[k] = s[k]
    BY <1>1, <1>3, <1>5, <2>1, <2>2
  <2> QED
    BY <1>7, <2>1, <2>2, <2>3
<1> QED
  BY <1>2, <1>3, <1>4, <1>8, <1>9, <1>10 DEF Story

\* What an item adds to the events of a record goes on with its story.
LEMMA ItemGoesOn ==
  ASSUME NEW s \in Seq(Events), NEW row \in C!Row, NEW x \in Seq(Events), NEW hash \in Hashes,
         Story(s \o x, row.hash)
  PROVE  Story(s \o (x \o C!UpsertEvents(row, hash)), hash)
<1>1. s \o x \in Seq(Events) /\ x \o <<>> = x
  OBVIOUS
<1>2. CASE row.hash = hash
  BY <1>1, <1>2, UpsertEventsAre
<1>3. CASE row.hash # hash
  <2>1. PICK e \in Events : /\ C!UpsertEvents(row, hash) = <<e>>
                            /\ e.kind = (IF row.hash = NoHash THEN "created" ELSE "updated")
                            /\ e.hash = hash
    BY <1>3, UpsertEventsAre
  <2>2. s \o (x \o <<e>>) = Append(s \o x, e)
    BY JoinedWithOne
  <2>3. row.hash \in Hashes \cup {NoHash}
    BY DEF C!Row
  <2>4. Story(Append(s \o x, e), e.hash)
    BY <1>1, <1>3, <2>1, <2>3, StoryGoesOn
  <2> QED
    BY <2>1, <2>2, <2>4
<1> QED
  BY <1>2, <1>3

\* So does what a collection adds.
LEMMA CollectionGoesOn ==
  ASSUME NEW row, Sound(row), NEW all \in Items, NEW i \in Ids,
         NEW s \in Seq(Events), Story(s, row.hash)
  PROVE  /\ C!EventsOf(row, all, i) \in Seq(Events)
         /\ s \o C!EventsOf(row, all, i) \in Seq(Events)
         /\ Story(s \o C!EventsOf(row, all, i), C!After(row, all, i).hash)
<1>1. row \in C!Row
  BY DEF Sound
<1>2. Len(all) \in Nat
  BY DEF Items
<1>3. C!EventsOf(row, all, i) \in Seq(Events)
  <2>1. CASE i \in C!Observed(all)
    <3>1. \A k \in 0..Len(all) : C!Taken(row, all, i)[k] \in [row : C!Row, events : Seq(Events)]
      BY <1>1, TakenByItem
    <3>2. Len(all) \in 0..Len(all)
      BY <1>2
    <3>3. C!Taken(row, all, i)[Len(all)] \in [row : C!Row, events : Seq(Events)]
      BY <3>1, <3>2, Zenon
    <3> QED
      BY <2>1, <3>3 DEF C!EventsOf
  <2>2. CASE i \notin C!Observed(all) /\ row.active
    BY <2>2, MissedEventsType DEF C!EventsOf
  <2>3. CASE i \notin C!Observed(all) /\ ~row.active
    <3>1. C!EventsOf(row, all, i) = <<>>
      BY <2>3 DEF C!EventsOf
    <3> QED
      BY <3>1
  <2> QED
    BY <2>1, <2>2, <2>3
<1>4. s \o C!EventsOf(row, all, i) \in Seq(Events)
  <2> HIDE DEF Events
  <2> QED
    BY <1>3
<1>5. Story(s \o C!EventsOf(row, all, i), C!After(row, all, i).hash)
  <2>1. CASE i \in C!Observed(all)
    <3> DEFINE S == [row : C!Row, events : Seq(Events)]
               G == {b \in S : Story(s \o b.events, b.row.hash)}
    <3>1. [row |-> row, events |-> <<>>] \in G
      <4>1. <<>> \in Seq(Events) /\ s \o <<>> = s
        BY JoinedWithNothing
      <4> QED
        BY <1>1, <4>1
    <3>2. ASSUME NEW before \in G, NEW k \in 1..Len(all), all[k].id = i
          PROVE  Taking(all[k], i, before) \in G
      <4>1. PICK h : h = all[k].hash
        OBVIOUS
      <4>2. h \in Hashes
        <5> DEFINE T == [id : Ids, hash : Hashes]
        <5>1. all \in Seq(T)
          BY DEF Items
        <5> HIDE DEF T
        <5>2. all[k] \in T
          BY <1>2, <5>1
        <5> QED
          BY <4>1, <5>2 DEF T
      <4>3. before.row \in C!Row /\ before.events \in Seq(Events) /\ Story(s \o before.events, before.row.hash)
        OBVIOUS
      <4>4. PICK x : x = before.events \o C!UpsertEvents(before.row, h)
        OBVIOUS
      <4>5. C!UpsertEvents(before.row, h) \in Seq(Events) /\ C!Upserted(h) \in C!Row
        BY <4>2, <4>3, UpsertEventsType
      <4>6. x \in Seq(Events)
        BY <4>3, <4>4, <4>5
      <4>7. Story(s \o x, h)
        BY <4>2, <4>3, <4>4, ItemGoesOn
      <4>8. Taking(all[k], i, before) = [row |-> C!Upserted(h), events |-> x]
        BY <3>2, <4>1, <4>4 DEF Taking
      <4>9. C!Upserted(h).hash = h
        BY DEF C!Upserted
      <4>10. PICK new : new = C!Upserted(h)
        OBVIOUS
      <4> QED
        BY <4>5, <4>6, <4>7, <4>8, <4>9, <4>10
    <3> HIDE DEF G
    <3>3. C!Taken(row, all, i)[Len(all)] \in G
      BY <1>1, <1>2, <3>1, <3>2, ItemByItem
    <3> QED
      BY <2>1, <3>3 DEF G, C!After, C!EventsOf
  <2>2. CASE i \notin C!Observed(all) /\ row.active
    <3>1. C!After(row, all, i) = C!Missed(row) /\ C!EventsOf(row, all, i) = C!MissedEvents(row)
      BY <2>2 DEF C!After, C!EventsOf
    <3>2. C!Missed(row).hash = row.hash
      BY <1>1 DEF C!Missed, C!Row
    <3>3. row.hash \in Hashes
      <4>1. row.hash # NoHash
        <5>1. C!Absent.active = FALSE
          BY DEF C!Absent
        <5> QED
          BY <2>2, <5>1 DEF Sound
      <4> QED
        BY <1>1, <4>1 DEF C!Row
    <3>4. CASE C!MissedEvents(row) = <<>>
      <4>1. s \o <<>> = s
        BY JoinedWithNothing
      <4> QED
        BY <3>1, <3>2, <3>4, <4>1
    <3>5. CASE C!MissedEvents(row) # <<>>
      <4>1. PICK e : e = C!Event("inactive", row.hash)
        OBVIOUS
      <4>2. e \in Events /\ e.kind = "inactive"
        BY <3>3, <4>1 DEF C!Event, Events
      <4>3. C!MissedEvents(row) = <<e>>
        BY <3>5, <4>1 DEF C!MissedEvents
      <4>4. s \o <<e>> = Append(s, e)
        BY <4>2, JoinedWithOne
      <4>5. Story(Append(s, e), row.hash)
        BY <3>3, <4>2, StoryRests
      <4> QED
        BY <3>1, <3>2, <4>3, <4>4, <4>5
    <3> QED
      BY <3>4, <3>5
  <2>3. CASE i \notin C!Observed(all) /\ ~row.active
    <3>1. C!After(row, all, i) = row /\ C!EventsOf(row, all, i) = <<>>
      BY <2>3 DEF C!After, C!EventsOf
    <3>2. s \o <<>> = s
      BY JoinedWithNothing
    <3> QED
      BY <3>1, <3>2
  <2> QED
    BY <2>1, <2>2, <2>3
<1> QED
  BY <1>3, <1>4, <1>5

Stories == /\ log \in [Ids -> Seq(Events)]
           /\ \A i \in Ids : Story(log[i], rows[i].hash)

\* Nobody writes an event of a committed record but by a commit.
LEMMA OnlyCommitsPersist ==
  ASSUME WorkInvariant, [Next]_vars, ~UNCHANGED C!vars
  PROVE  \E r \in Results : C!Persist(r) /\ r \in Items
<1>1. \E t \in Txns : Commit(t)
  BY DEF C!vars, vars, database, Next, Step, Begin, LockKey, Upsert, LockState,
      InsertState, Scan, Miss, InsertConflict, DeadlockVictim, Fail, RollBack
<1>2. PICK t \in Txns : items[t] \in Results /\ C!Persist(items[t])
  BY <1>1, CommitPersists
<1> QED
  BY <1>2, CollectionType DEF Items

\* What earlier collections left tells its story.
LEMMA HistoryTells ==
  ASSUME NEW row \in C!Kept
  PROVE  C!History(row) \in Seq(Events) /\ Story(C!History(row), row.hash)
<1>1. CASE row = C!Absent
  <2>1. row.hash = NoHash /\ C!History(row) = <<>>
    BY <1>1 DEF C!Absent, C!History
  <2> QED
    BY <2>1 DEF Story
<1>2. CASE row # C!Absent
  <2>1. PICK h \in Hashes : row.hash = h
    BY <1>2 DEF C!Kept
  <2>2. PICK c, x : c = C!Event("created", h) /\ x = C!Event("inactive", h)
    OBVIOUS
  <2>3. /\ c \in Events /\ c.kind = "created" /\ c.hash = h
        /\ x \in Events /\ x.kind = "inactive" /\ x.hash = h
    BY <2>2 DEF C!Event, Events
  <2>4. C!History(row) = <<c>> \o IF row.active THEN <<>> ELSE <<x>>
    BY <1>2, <2>1, <2>2 DEF C!History
  <2>5. /\ <<>> \in Seq(Events) /\ Append(<<>>, c) = <<c>> /\ <<c>> \in Seq(Events)
        /\ <<c>> \o <<>> = <<c>> /\ <<c>> \o <<x>> = Append(<<c>>, x)
        /\ Append(<<c>>, x) \in Seq(Events)
    <3> HIDE DEF Events
    <3>1. <<>> \in Seq(Events) /\ Append(<<>>, c) = <<c>>
      OBVIOUS
    <3>2. <<c>> \in Seq(Events)
      BY <2>3
    <3> QED
      BY <2>3, <3>1, <3>2, JoinedWithOne, JoinedWithNothing
  <2>6. Story(<<>>, NoHash) /\ h # NoHash
    BY RepositoryAssumption DEF Story
  <2>7. Story(<<c>>, h)
    BY <2>3, <2>5, <2>6, StoryGoesOn
  <2>8. Story(Append(<<c>>, x), h)
    BY <2>3, <2>5, <2>7, StoryRests
  <2> QED
    BY <2>1, <2>4, <2>5, <2>7, <2>8
<1> QED
  BY <1>1, <1>2

\* The story is told in every state.
LEMMA StoriesHold == Spec => []Stories
<1>1. Init => Stories
  <2> SUFFICES ASSUME Init PROVE Stories
    OBVIOUS
  <2>1. rows \in [Ids -> C!Kept] /\ log = [i \in Ids |-> C!History(rows[i])]
    BY DEF Init, C!Init
  <2> QED
    BY <2>1, HistoryTells DEF Stories
<1>2. Stories /\ WorkInvariant /\ [Next]_vars => Stories'
  <2> SUFFICES ASSUME Stories, WorkInvariant, [Next]_vars PROVE Stories'
    OBVIOUS
  <2>1. CASE UNCHANGED C!vars
    BY <2>1 DEF C!vars, Stories
  <2>2. CASE ~UNCHANGED C!vars
    <3>1. PICK r \in Items : C!Persist(r)
      BY <2>2, OnlyCommitsPersist
    <3>2. ASSUME NEW i \in Ids
          PROVE  log'[i] \in Seq(Events) /\ Story(log'[i], rows'[i].hash)
      <4>1. Sound(rows[i])
        BY DEF WorkInvariant, LocksInvariant, RowsInvariant, RowsAreSound
      <4>2. log[i] \in Seq(Events) /\ Story(log[i], rows[i].hash)
        BY DEF Stories
      <4>3. /\ rows'[i] = C!After(rows[i], r, i)
            /\ log'[i] = log[i] \o C!EventsOf(rows[i], r, i)
        BY <3>1 DEF C!Persist
      <4> QED
        BY <4>1, <4>2, <4>3, CollectionGoesOn
    <3>3. log' = [i \in Ids |-> log'[i]]
      BY <3>1 DEF C!Persist
    <3>4. log' \in [Ids -> Seq(Events)]
      BY <3>2, <3>3
    <3> QED
      BY <3>2, <3>4 DEF Stories
  <2> QED
    BY <2>1, <2>2
<1> QED
  BY <1>1, <1>2, WorkInvariantHolds, PTL DEF Spec

\* However transactions interleave, the committed events of a record tell its
\* content: it is created once and first, every update changes it, and the last one
\* carries the fingerprint it has now (record_repository.py:40-60).
THEOREM EventsTellContent == Spec => []LogTellsContent
<1>1. Stories => LogTellsContent
  BY DEF Stories, Story, LogTellsContent, C!LogTellsContent
<1> QED
  BY <1>1, StoriesHold, PTL

\* What old becomes to be new is added.
Adds(old, new, added) ==
  /\ \A k \in Len(old) + 1..Len(new) : \E m \in DOMAIN added : new[k] = added[m]
  /\ \A m \in DOMAIN added : \E k \in Len(old) + 1..Len(new) : new[k] = added[m]

\* A joining adds its second part.
LEMMA AddedEvents ==
  ASSUME NEW S, NEW s \in Seq(S), NEW x \in Seq(S), NEW z, z = s \o x
  PROVE  Adds(s, z, x)
<1>1. /\ Len(s) \in Nat /\ Len(x) \in Nat /\ DOMAIN x = 1..Len(x)
      /\ Len(z) = Len(s) + Len(x) /\ \A m \in 1..Len(x) : z[Len(s) + m] = x[m]
  OBVIOUS
<1>2. ASSUME NEW k \in Len(s) + 1..Len(z) PROVE \E m \in DOMAIN x : z[k] = x[m]
  <2>1. k - Len(s) \in DOMAIN x /\ Len(s) + (k - Len(s)) = k
    BY <1>1
  <2>2. z[Len(s) + (k - Len(s))] = x[k - Len(s)]
    BY <1>1, <2>1
  <2> QED
    BY <2>1, <2>2
<1>3. ASSUME NEW m \in DOMAIN x PROVE \E k \in Len(s) + 1..Len(z) : z[k] = x[m]
  <2>1. Len(s) + m \in Len(s) + 1..Len(z)
    BY <1>1
  <2> QED
    BY <1>1, <2>1
<1> QED
  BY <1>2, <1>3 DEF Adds

\* No item adds an absence.
LEMMA ItemsAddContent ==
  ASSUME NEW row \in C!Row, NEW all \in Items, NEW i \in C!Observed(all), i \in Ids
  PROVE  \A m \in DOMAIN C!EventsOf(row, all, i) : C!EventsOf(row, all, i)[m].kind # "inactive"
<1>1. Len(all) \in Nat
  BY DEF Items
<1> DEFINE S == [row : C!Row, events : Seq(Events)]
           Adding(x) == \A m \in DOMAIN x : x[m].kind # "inactive"
           G == {b \in S : Adding(b.events)}
<1>2. [row |-> row, events |-> <<>>] \in G
  <2>1. <<>> \in Seq(Events) /\ Adding(<<>>)
    OBVIOUS
  <2> QED
    BY <2>1
<1>3. ASSUME NEW before \in G, NEW k \in 1..Len(all), all[k].id = i
      PROVE  Taking(all[k], i, before) \in G
  <2>1. PICK h : h = all[k].hash
    OBVIOUS
  <2>2. h \in Hashes
    <3> DEFINE T == [id : Ids, hash : Hashes]
    <3>1. all \in Seq(T)
      BY DEF Items
    <3> HIDE DEF T
    <3>2. all[k] \in T
      BY <1>1, <3>1
    <3> QED
      BY <2>1, <3>2 DEF T
  <2>3. PICK x : x = before.events
    OBVIOUS
  <2>4. before.row \in C!Row /\ x \in Seq(Events) /\ Adding(x)
    BY <2>3
  <2>5. PICK y : y = x \o C!UpsertEvents(before.row, h)
    OBVIOUS
  <2>6. y \in Seq(Events) /\ Adding(y)
    <3>1. CASE before.row.hash = h
      <4>1. y = x
        BY <2>2, <2>4, <2>5, <3>1, UpsertEventsAre, JoinedWithNothing
      <4> QED
        BY <2>4, <4>1
    <3>2. CASE before.row.hash # h
      <4>1. PICK e \in Events : /\ C!UpsertEvents(before.row, h) = <<e>>
                                /\ e.kind = (IF before.row.hash = NoHash THEN "created" ELSE "updated")
        BY <2>2, <3>2, UpsertEventsAre
      <4>2. y = Append(x, e) /\ e.kind # "inactive"
        BY <2>4, <2>5, <4>1, JoinedWithOne
      <4> HIDE DEF Events
      <4>3. y \in Seq(Events) /\ DOMAIN y = 1..Len(x) + 1 /\ Len(x) \in Nat /\ DOMAIN x = 1..Len(x)
        BY <2>4, <4>2
      <4>4. y[Len(x) + 1] = e /\ \A m \in 1..Len(x) : y[m] = x[m]
        BY <2>4, <4>2
      <4>5. \A m \in DOMAIN y : m \in 1..Len(x) \/ m = Len(x) + 1
        BY <4>3
      <4> QED
        BY <2>4, <4>2, <4>3, <4>4, <4>5
    <3> QED
      BY <3>1, <3>2
  <2>7. PICK new : new = C!Upserted(h)
    OBVIOUS
  <2>8. new \in C!Row
    BY <2>2, <2>4, <2>7, UpsertEventsType
  <2>9. Taking(all[k], i, before) = [row |-> new, events |-> y]
    BY <1>3, <2>1, <2>3, <2>5, <2>7 DEF Taking
  <2> QED
    BY <2>6, <2>8, <2>9
<1> HIDE DEF G
<1>4. \A n \in 0..Len(all) : C!Taken(row, all, i)[n] \in G
  BY <1>2, <1>3, ItemByItem
<1>5. C!Taken(row, all, i)[Len(all)] \in G
  BY <1>1, <1>4
<1> QED
  BY <1>5 DEF G, C!EventsOf

\* A record turns inactive exactly when an inactive event is added.
LEMMA InactiveIsAnnounced ==
  ASSUME NEW row, Sound(row), NEW all \in Items, NEW i \in Ids
  PROVE  (\E m \in DOMAIN C!EventsOf(row, all, i) : C!EventsOf(row, all, i)[m].kind = "inactive")
           <=> (row.active /\ ~C!After(row, all, i).active)
<1>1. row \in C!Row
  BY DEF Sound
<1>2. CASE i \in C!Observed(all)
  BY <1>1, <1>2, ItemsAddContent, ObservedIsActive
<1>3. CASE i \notin C!Observed(all) /\ ~row.active
  <2>1. C!EventsOf(row, all, i) = <<>>
    BY <1>3 DEF C!EventsOf
  <2> QED
    BY <1>3, <2>1
<1>4. CASE i \notin C!Observed(all) /\ row.active
  <2>1. C!After(row, all, i) = C!Missed(row) /\ C!EventsOf(row, all, i) = C!MissedEvents(row)
    BY <1>4 DEF C!After, C!EventsOf
  <2>2. CASE C!Missed(row).active
    <3>1. C!MissedEvents(row) = <<>>
      BY <2>2 DEF C!MissedEvents
    <3> QED
      BY <2>1, <2>2, <3>1
  <2>3. CASE ~C!Missed(row).active
    <3>1. PICK e : e = C!Event("inactive", row.hash)
      OBVIOUS
    <3>2. C!MissedEvents(row) = <<e>> /\ e.kind = "inactive"
      BY <2>3, <3>1 DEF C!MissedEvents, C!Event
    <3>3. 1 \in DOMAIN <<e>> /\ <<e>>[1] = e
      OBVIOUS
    <3> QED
      BY <1>4, <2>1, <2>3, <3>2, <3>3
  <2> QED
    BY <2>2, <2>3
<1> QED
  BY <1>2, <1>3, <1>4

\* A record that turns inactive leaves one event of it, and only then is such an
\* event written, though several transactions may have missed it
\* (record_repository.py:87-99).
THEOREM InactiveIsTold == Spec => InactiveEventOnTransition
<1> DEFINE Told == \A i \in Ids :
             (\E k \in Len(log[i])+1..Len(log'[i]) : log'[i][k].kind = "inactive")
               <=> (rows[i].active /\ ~rows'[i].active)
<1>1. Stories /\ WorkInvariant /\ [Next]_vars => [Told]_(C!vars)
  <2> SUFFICES ASSUME Stories, WorkInvariant, [Next]_vars, ~UNCHANGED C!vars
               PROVE  Told
    BY Zenon
  <2>1. PICK r \in Items : C!Persist(r)
    BY OnlyCommitsPersist
  <2>2. ASSUME NEW i \in Ids
        PROVE  (\E k \in Len(log[i])+1..Len(log'[i]) : log'[i][k].kind = "inactive")
                 <=> (rows[i].active /\ ~rows'[i].active)
    <3>1. Sound(rows[i]) /\ log[i] \in Seq(Events) /\ Story(log[i], rows[i].hash)
      BY DEF WorkInvariant, LocksInvariant, RowsInvariant, RowsAreSound, Stories
    <3>2. /\ rows'[i] = C!After(rows[i], r, i)
          /\ log'[i] = log[i] \o C!EventsOf(rows[i], r, i)
      BY <2>1 DEF C!Persist
    <3>3. PICK x : x = C!EventsOf(rows[i], r, i)
      OBVIOUS
    <3>4. x \in Seq(Events)
      BY <3>1, <3>3, CollectionGoesOn
    <3>5. (\E m \in DOMAIN x : x[m].kind = "inactive") <=> (rows[i].active /\ ~rows'[i].active)
      BY <3>1, <3>2, <3>3, InactiveIsAnnounced
    <3>6. PICK old, new : old = log[i] /\ new = log'[i]
      OBVIOUS
    <3>7. new = old \o x /\ old \in Seq(Events)
      BY <3>1, <3>2, <3>3, <3>6
    <3>8. Adds(old, new, x)
      BY <3>4, <3>7, AddedEvents
    <3>9. (\E k \in Len(old)+1..Len(new) : new[k].kind = "inactive")
            <=> (\E m \in DOMAIN x : x[m].kind = "inactive")
      <4>1. ASSUME NEW k \in Len(old)+1..Len(new), new[k].kind = "inactive"
            PROVE  \E m \in DOMAIN x : x[m].kind = "inactive"
        <5>1. PICK m \in DOMAIN x : new[k] = x[m]
          BY <3>8, Zenon DEF Adds
        <5> QED
          BY <4>1, <5>1
      <4>2. ASSUME NEW m \in DOMAIN x, x[m].kind = "inactive"
            PROVE  \E k \in Len(old)+1..Len(new) : new[k].kind = "inactive"
        <5>1. PICK k \in Len(old)+1..Len(new) : new[k] = x[m]
          BY <3>8, Zenon DEF Adds
        <5> QED
          BY <4>2, <5>1
      <4> QED
        BY <4>1, <4>2
    <3> QED
      BY <3>5, <3>6, <3>9
  <2> QED
    BY <2>2
<1> QED
  BY <1>1, StoriesHold, WorkInvariantHolds, PTL
  DEF Spec, InactiveEventOnTransition, C!InactiveEventOnTransition

-----------------------------------------------------------------------------
(* A response that is persisted again.                                      *)

\* The last item that names a record decides what it becomes, whatever it was.
LEMMA LastItemDecides ==
  ASSUME NEW row \in C!Row, NEW other \in C!Row, NEW all \in Items,
         NEW i \in C!Observed(all), i \in Ids
  PROVE  C!After(row, all, i) = C!After(other, all, i)
<1>1. Len(all) \in Nat /\ DOMAIN all = 1..Len(all)
  BY DEF Items
<1>2. PICK f, g : f = C!Taken(row, all, i) /\ g = C!Taken(other, all, i)
  OBVIOUS
<1>3. /\ \A k \in 1..Len(all) : f[k] = Taking(all[k], i, f[k - 1])
      /\ \A k \in 1..Len(all) : g[k] = Taking(all[k], i, g[k - 1])
  BY <1>2, TakenByItem
<1> DEFINE Names(n) == \E j \in 1..n : all[j].id = i
           G == {n \in 0..Len(all) : Names(n) => f[n].row = g[n].row}
<1>4. 0 \in G
  BY <1>1
<1>5. ASSUME NEW k \in 0..Len(all) - 1, k \in G PROVE k + 1 \in G
  <2>1. k + 1 \in 1..Len(all) /\ (k + 1) - 1 = k /\ k + 1 \in 0..Len(all)
    BY <1>1
  <2>2. f[k + 1] = Taking(all[k + 1], i, f[k]) /\ g[k + 1] = Taking(all[k + 1], i, g[k])
    <3>1. /\ f[k + 1] = Taking(all[k + 1], i, f[(k + 1) - 1])
          /\ g[k + 1] = Taking(all[k + 1], i, g[(k + 1) - 1])
      BY <1>3, <2>1
    <3> QED
      BY <2>1, <3>1
  <2>3. CASE all[k + 1].id = i
    <3>1. f[k + 1].row = C!Upserted(all[k + 1].hash) /\ g[k + 1].row = C!Upserted(all[k + 1].hash)
      BY <2>2, <2>3 DEF Taking
    <3> QED
      BY <2>1, <3>1
  <2>4. CASE all[k + 1].id # i
    <3>1. f[k + 1] = f[k] /\ g[k + 1] = g[k]
      BY <2>2, <2>4 DEF Taking
    <3>2. Names(k + 1) => Names(k)
      BY <2>4
    <3> QED
      BY <1>5, <2>1, <3>1, <3>2
  <2> QED
    BY <2>3, <2>4
<1> HIDE DEF G
<1>6. 0..Len(all) \subseteq G
  BY ONLY <1>1, <1>4, <1>5, UpTo
<1>7. Len(all) \in G
  BY <1>1, <1>6
<1>8. Names(Len(all))
  BY <1>1 DEF C!Observed
<1>9. f[Len(all)].row = g[Len(all)].row
  BY <1>7, <1>8 DEF G
<1> QED
  BY <1>2, <1>9 DEF C!After

\* The records named by the response persisted last have the content it gives them.
LatestIsStored ==
  \A i \in C!Observed(latest) \cap Ids :
    \E before \in C!Row : rows[i].hash = C!After(before, latest, i).hash

\* An item that tells a record what it is adds nothing.
LEMMA NothingNew ==
  ASSUME NEW row \in C!Row, NEW all \in Items, NEW i \in C!Observed(all), i \in Ids,
         \A k \in DOMAIN all : all[k].id = i => all[k].hash = row.hash
  PROVE  C!EventsOf(row, all, i) = <<>>
<1>1. Len(all) \in Nat /\ DOMAIN all = 1..Len(all)
  BY DEF Items
<1> DEFINE G == {b \in [row : C!Row, events : Seq(Events)] :
                   b.row.hash = row.hash /\ b.events = <<>>}
<1>2. [row |-> row, events |-> <<>>] \in G
  <2>1. <<>> \in Seq(Events)
    OBVIOUS
  <2> QED
    BY <2>1
<1>3. ASSUME NEW before \in G, NEW k \in 1..Len(all), all[k].id = i
      PROVE  Taking(all[k], i, before) \in G
  <2>1. PICK h : h = all[k].hash
    OBVIOUS
  <2>2. h \in Hashes /\ h = row.hash
    <3> DEFINE T == [id : Ids, hash : Hashes]
    <3>1. all \in Seq(T)
      BY DEF Items
    <3> HIDE DEF T
    <3>2. all[k] \in T
      BY <1>1, <3>1
    <3> QED
      BY <1>1, <1>3, <2>1, <3>2 DEF T
  <2>3. before.row \in C!Row /\ before.row.hash = h /\ before.events = <<>>
    BY <2>2
  <2>4. C!UpsertEvents(before.row, h) = <<>>
    BY <2>2, <2>3, UpsertEventsAre
  <2>5. before.events \o C!UpsertEvents(before.row, h) = <<>>
    BY <2>3, <2>4
  <2>6. PICK new : new = C!Upserted(h)
    OBVIOUS
  <2>7. new \in C!Row /\ new.hash = h /\ <<>> \in Seq(Events)
    <3>1. new \in C!Row
      BY <2>2, <2>3, <2>6, UpsertEventsType
    <3>2. new.hash = h
      BY <2>6 DEF C!Upserted
    <3> QED
      BY <3>1, <3>2
  <2>8. Taking(all[k], i, before) = [row |-> new, events |-> <<>>]
    BY <1>3, <2>1, <2>5, <2>6 DEF Taking
  <2> QED
    BY <2>2, <2>7, <2>8
<1> HIDE DEF G
<1>4. \A n \in 0..Len(all) : C!Taken(row, all, i)[n] \in G
  BY <1>2, <1>3, ItemByItem
<1>5. C!Taken(row, all, i)[Len(all)] \in G
  BY <1>1, <1>4
<1> QED
  BY <1>5 DEF G, C!EventsOf

\* A record that no item names keeps its content and adds nothing but an absence.
LEMMA AbsenceIsSilent ==
  ASSUME NEW row \in C!Row, NEW all \in Items, NEW i \in Ids \ C!Observed(all)
  PROVE  /\ C!After(row, all, i).hash = row.hash
         /\ \A m \in DOMAIN C!EventsOf(row, all, i) : C!EventsOf(row, all, i)[m].kind = "inactive"
<1>1. C!After(row, all, i).hash = row.hash
  BY DEF C!After, C!Missed, C!Row
<1>2. PICK e : e = C!Event("inactive", row.hash)
  OBVIOUS
<1>3. C!EventsOf(row, all, i) \in {<<>>, <<e>>} /\ e.kind = "inactive"
  BY <1>2 DEF C!EventsOf, C!MissedEvents, C!Event
<1>4. \A m \in DOMAIN <<e>> : <<e>>[m] = e
  OBVIOUS
<1> QED
  BY <1>1, <1>3, <1>4

\* After a collection, every record it names has the content it names.
LEMMA PersistStores ==
  ASSUME WorkInvariant, NEW r \in Results, r \in Items, C!Persist(r)
  PROVE  LatestIsStored'
<1>1. latest' = r
  BY DEF C!Persist
<1>2. ASSUME NEW i \in C!Observed(r) \cap Ids
      PROVE  \E before \in C!Row : rows'[i].hash = C!After(before, r, i).hash
  <2>1. rows[i] \in C!Row
    BY DEF WorkInvariant, LocksInvariant, RowsInvariant, TypeOK
  <2>2. rows'[i] = C!After(rows[i], r, i)
    BY DEF C!Persist
  <2> QED
    BY <2>1, <2>2
<1> QED
  BY <1>1, <1>2 DEF LatestIsStored

\* Persisting again the response persisted last changes no content, and writes no
\* creation or update of a record to which the response gives one content: a task
\* delivered twice counts absences at most (record_repository.py:24-106).
THEOREM RedeliveriesAreSilent == Spec => RedeliveryIsSilent
<1> DEFINE Silent == latest' = latest =>
             \A i \in Ids : /\ rows'[i].hash = rows[i].hash
                            /\ C!OneContent(latest, i) =>
                                 \A k \in Len(log[i])+1..Len(log'[i]) : log'[i][k].kind = "inactive"
<1>1. Init => LatestIsStored
  <2> SUFFICES ASSUME Init PROVE LatestIsStored
    OBVIOUS
  <2>1. latest = <<>>
    BY DEF Init, C!Init
  <2> QED
    BY <2>1 DEF LatestIsStored, C!Observed
<1>2. LatestIsStored /\ WorkInvariant /\ [Next]_vars => LatestIsStored'
  <2> SUFFICES ASSUME LatestIsStored, WorkInvariant, [Next]_vars PROVE LatestIsStored'
    OBVIOUS
  <2>1. CASE UNCHANGED C!vars
    BY <2>1 DEF C!vars, LatestIsStored
  <2>2. CASE ~UNCHANGED C!vars
    BY <2>2, OnlyCommitsPersist, PersistStores
  <2> QED
    BY <2>1, <2>2
<1>3. LatestIsStored /\ Stories /\ WorkInvariant /\ [Next]_vars => [Silent]_(C!vars)
  <2> SUFFICES ASSUME LatestIsStored, Stories, WorkInvariant, [Next]_vars, ~UNCHANGED C!vars
               PROVE  Silent
    BY Zenon
  <2>1. PICK r \in Results : C!Persist(r) /\ r \in Items
    BY OnlyCommitsPersist
  <2>2. ASSUME latest' = latest, NEW i \in Ids
        PROVE  /\ rows'[i].hash = rows[i].hash
               /\ C!OneContent(latest, i) =>
                    \A k \in Len(log[i])+1..Len(log'[i]) : log'[i][k].kind = "inactive"
    <3>1. latest = r
      BY <2>1, <2>2 DEF C!Persist
    <3>2. Sound(rows[i]) /\ log[i] \in Seq(Events) /\ Story(log[i], rows[i].hash)
      BY DEF WorkInvariant, LocksInvariant, RowsInvariant, RowsAreSound, Stories
    <3>3. rows[i] \in C!Row
      BY <3>2 DEF Sound
    <3>4. PICK x : x = C!EventsOf(rows[i], r, i)
      OBVIOUS
    <3>5. /\ rows'[i] = C!After(rows[i], r, i)
          /\ log'[i] = log[i] \o x
      BY <2>1, <3>4 DEF C!Persist
    <3>6. x \in Seq(Events)
      BY <2>1, <3>2, <3>4, CollectionGoesOn
    <3>7. /\ rows'[i].hash = rows[i].hash
          /\ C!OneContent(r, i) => \A m \in DOMAIN x : x[m].kind = "inactive"
      <4>1. CASE i \in C!Observed(r)
        <5>1. PICK before \in C!Row : rows[i].hash = C!After(before, r, i).hash
          BY <3>1, <4>1 DEF LatestIsStored
        <5>2. C!After(rows[i], r, i) = C!After(before, r, i)
          BY <2>1, <3>3, <4>1, LastItemDecides
        <5>3. PICK j \in DOMAIN r : r[j].id = i /\ rows[i].hash = r[j].hash
          BY <2>1, <4>1, <5>1, ObservedIsActive
        <5>4. ASSUME C!OneContent(r, i) PROVE x = <<>>
          <6>1. \A k \in DOMAIN r : r[k].id = i => r[k].hash = rows[i].hash
            BY <5>3, <5>4 DEF C!OneContent
          <6> QED
            BY <2>1, <3>3, <3>4, <4>1, <6>1, NothingNew
        <5> QED
          BY <3>5, <5>1, <5>2, <5>4
      <4>2. CASE i \notin C!Observed(r)
        BY <2>1, <3>3, <3>4, <3>5, <4>2, AbsenceIsSilent
      <4> QED
        BY <4>1, <4>2
    <3>8. PICK old, new : old = log[i] /\ new = log'[i]
      OBVIOUS
    <3>9. new = old \o x /\ old \in Seq(Events)
      BY <3>2, <3>5, <3>8
    <3>10. Adds(old, new, x)
      BY <3>6, <3>9, AddedEvents
    <3>11. C!OneContent(r, i) => \A k \in Len(old)+1..Len(new) : new[k].kind = "inactive"
      <4> HAVE C!OneContent(r, i)
      <4> TAKE k \in Len(old)+1..Len(new)
      <4>1. PICK m \in DOMAIN x : new[k] = x[m]
        BY <3>10, Zenon DEF Adds
      <4> QED
        BY <3>7, <4>1
    <3> QED
      BY <3>1, <3>7, <3>8, <3>11
  <2> QED
    BY <2>2, Zenon
<1> QED
  BY <1>1, <1>2, <1>3, StoriesHold, WorkInvariantHolds, PTL
  DEF Spec, RedeliveryIsSilent, C!RedeliveryIsSilent
=============================================================================
