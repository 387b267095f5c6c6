--------------------------- MODULE FailureSnapshots ---------------------------
(***************************************************************************)
(* Failure snapshots (failure_snapshots.py): failed runs write one file    *)
(* each and note its path in their CrawlRun; cleanups, which may overlap,  *)
(* list the directory and remove what has expired file by file.            *)
(***************************************************************************)
EXTENDS Integers, FiniteSets

CONSTANTS
  SnapshotRuns,  \* failed runs
  Cleaners,      \* executions of cleanup_failure_snapshots_task
  Retention,     \* FAILURE_SNAPSHOT_RETENTION_DAYS
  LastDay        \* bound: time ends here

ASSUME SnapshotsAssumption ==
  Retention \in Nat \ {0} /\ LastDay \in Nat /\ "none" \notin SnapshotRuns

VARIABLES
  day,       \* now
  written,   \* the day a run wrote its file, its mtime; Never before
  present,   \* runs whose file is in the directory
  attached,  \* runs whose snapshot_path names the file
  cutoff,    \* of a cleanup; NotRunning outside
  listed,    \* what a cleanup has listed and not looked at
  expired    \* the file it is about to unlink; "none" otherwise

snapshotVars == <<day, written, present, attached, cutoff, listed, expired>>

Days == 0..LastDay
NotRunning == LastDay + 1
Never == -1

SnapshotsInit ==
  /\ day = 0 /\ attached = {}
  /\ written = [r \in SnapshotRuns |-> Never] /\ present = {}
  /\ cutoff = [c \in Cleaners |-> NotRunning]
  /\ listed = [c \in Cleaners |-> {}] /\ expired = [c \in Cleaners |-> "none"]

DayPasses ==
  /\ day < LastDay /\ day' = day + 1
  /\ UNCHANGED <<written, present, attached, cutoff, listed, expired>>

\* write(): a name of its own for every run.  A snapshot that is too large is
\* refused before anything is written.
WriteSnapshot(r) ==
  /\ written[r] = Never
  /\ written' = [written EXCEPT ![r] = day] /\ present' = present \cup {r}
  /\ UNCHANGED <<day, attached, cutoff, listed, expired>>

\* attach_snapshot_path, after write() returned.
Attach(r) ==
  /\ written[r] # Never /\ r \notin attached
  /\ attached' = attached \cup {r}
  /\ UNCHANGED <<day, written, present, cutoff, listed, expired>>

Running(c) == cutoff[c] # NotRunning
EndCleanup(c) ==
  /\ cutoff' = [cutoff EXCEPT ![c] = NotRunning]
  /\ listed' = [listed EXCEPT ![c] = {}]
  /\ expired' = [expired EXCEPT ![c] = "none"]

\* cleanup_expired_snapshots: the cutoff is fixed, the directory is listed.
BeginCleanup(c) ==
  /\ ~Running(c)
  /\ cutoff' = [cutoff EXCEPT ![c] = day - Retention]
  /\ listed' = [listed EXCEPT ![c] = present]
  /\ UNCHANGED <<day, written, present, attached, expired>>

Expired(c, r) == written[r] < cutoff[c]

(* A faulty variant of LookAt: a mistake the property must find. *)

\* A file that has expired ends the loop after the first was seen.
LookAtOne(c, r) ==
  /\ Running(c) /\ r \in listed[c] /\ expired[c] = "none"
  /\ listed' = [listed EXCEPT ![c] = {}]
  /\ expired' = [expired EXCEPT ![c] = IF r \in present /\ Expired(c, r) THEN r ELSE "none"]
  /\ UNCHANGED <<day, written, present, attached, cutoff>>

\* is_file() and stat(): a file that is gone is passed over.
LookAt(c, r) ==
  /\ Running(c) /\ r \in listed[c] /\ expired[c] = "none"
  /\ listed' = [listed EXCEPT ![c] = @ \ {r}]
  /\ expired' = [expired EXCEPT ![c] = IF r \in present /\ Expired(c, r) THEN r ELSE "none"]
  /\ UNCHANGED <<day, written, present, attached, cutoff>>

\* unlink()
Remove(c) ==
  /\ expired[c] \in present /\ present' = present \ {expired[c]}
  /\ expired' = [expired EXCEPT ![c] = "none"]
  /\ UNCHANGED <<day, written, attached, cutoff, listed>>

\* stat() or unlink() meets a file that another cleanup has removed, or fails
\* for another reason: the task fails and leaves the rest of its list.
CleanupFails(c) ==
  /\ Running(c)
  /\ listed[c] # {} \/ expired[c] # "none"
  /\ EndCleanup(c)
  /\ UNCHANGED <<day, written, present, attached>>

CleanupReturns(c) ==
  /\ Running(c) /\ listed[c] = {} /\ expired[c] = "none"
  /\ EndCleanup(c)
  /\ UNCHANGED <<day, written, present, attached>>

SnapshotsNext ==
  \/ DayPasses
  \/ \E r \in SnapshotRuns : WriteSnapshot(r) \/ Attach(r)
  \/ \E c \in Cleaners :
       \/ BeginCleanup(c) \/ Remove(c) \/ CleanupFails(c) \/ CleanupReturns(c)
       \/ \E r \in SnapshotRuns : LookAt(c, r)

SnapshotsSpec == SnapshotsInit /\ [][SnapshotsNext]_snapshotVars

-----------------------------------------------------------------------------
\* A cleanup that returns has left nothing behind that had expired when it
\* began, even if others removed files meanwhile.
CleanupIsComplete ==
  [][\A c \in Cleaners : CleanupReturns(c) =>
       \A r \in present : ~Expired(c, r)]_snapshotVars
=============================================================================
