----------------------------- MODULE SourceLease -----------------------------
(***************************************************************************)
(* One collection attempt per task under the Redis lease of its source:    *)
(* run_with_source_lease (tasks.py) with RedisLease and LeaseHeartbeat     *)
(* (locking.py), under the soft and hard time limits of queueing.py.       *)
(*                                                                         *)
(* Three kinds of actors interleave: the main thread of every run, the     *)
(* heartbeat thread of every run, and the passing of time (lease expiry in *)
(* Redis, time limits in the worker).  Time is relative: the remaining     *)
(* life of a lease, the age of a run, the wait of a heartbeat.  One unit   *)
(* of time is whatever LeaseTtl, RenewEvery, SoftLimit and HardLimit are   *)
(* counted in (15 or 30 seconds in the models).                            *)
(***************************************************************************)
EXTENDS Integers, Sequences

CONSTANTS
  Sources,       \* source ids: one lease key lock:source:<id> each
  Runs,          \* calls of run_with_source_lease; a run stands for its token
  SourceOf,      \* the source a run was started for
  NoRun,         \* owner of an absent lease key
  LeaseTtl,      \* LOCK_TTL_SECONDS
  RenewEvery,    \* ttl_seconds / 3
  SoftLimit,     \* task_soft_time_limit
  HardLimit,     \* task_time_limit
  Limited,       \* the worker enforces its time limits
  Prompt,        \* threads run without delay: none sleeps past its due time
  RedisFaults,   \* a lease command may raise, applied by Redis or not
  MetricFaults,  \* record_run may raise, counted by Redis or not
  SoftPoints     \* control points where the soft limit may interrupt

ControlPoints ==
  {"idle", "acquire", "acquired", "started", "operate", "recordOk", "except",
   "recordFail", "stop", "join", "release", "skip",
   "returned", "raised", "skipped", "killed"}

Ended == {"returned", "raised", "skipped", "killed"}

ASSUME ConstantsAssumption ==
  /\ SourceOf \in [Runs -> Sources]
  /\ NoRun \notin Runs
  /\ LeaseTtl \in Nat /\ RenewEvery \in Nat /\ SoftLimit \in Nat /\ HardLimit \in Nat
  /\ 0 < RenewEvery /\ RenewEvery < LeaseTtl
  /\ SoftLimit <= HardLimit
  /\ {Limited, Prompt, RedisFaults, MetricFaults} \subseteq BOOLEAN
  /\ SoftPoints \subseteq ControlPoints

VARIABLES
  pc,        \* control point of the main thread of a run
  outcome,   \* how the try block ended: what the run returns or raises
  age,       \* time since the task function was entered, up to HardLimit
  softSent,  \* the soft limit signal was delivered
  owner,     \* Redis: token stored under the lease key of a source
  ttl,       \* Redis: remaining life of that key, 0 when absent
  beat,      \* heartbeat thread of a run
  wait,      \* time before the heartbeat's wait times out
  stopSet,   \* the heartbeat's stop event
  events,    \* terminal run events emitted, in order
  metrics    \* terminal outcomes counted by the metric store, in order

leaseVars == <<owner, ttl>>
beatVars  == <<beat, wait, stopSet>>
limitVars == <<age, softSent>>
logVars   == <<events, metrics>>
vars == <<pc, outcome, leaseVars, beatVars, limitVars, logVars>>

Live(r) == pc[r] \notin Ended \cup {"idle"}
Beating(r) == beat[r] \in {"waiting", "renewing"}

Init ==
  /\ pc = [r \in Runs |-> "idle"]
  /\ outcome = [r \in Runs |-> "none"]
  /\ age = [r \in Runs |-> 0]
  /\ softSent = [r \in Runs |-> FALSE]
  /\ owner = [s \in Sources |-> NoRun]
  /\ ttl = [s \in Sources |-> 0]
  /\ beat = [r \in Runs |-> "off"]
  /\ wait = [r \in Runs |-> 0]
  /\ stopSet = [r \in Runs |-> FALSE]
  /\ events = [r \in Runs |-> <<>>]
  /\ metrics = [r \in Runs |-> <<>>]

Move(r, from, to) == pc[r] = from /\ pc' = [pc EXCEPT ![r] = to]
Emit(r, e)  == events' = [events EXCEPT ![r] = Append(@, e)]
Count(r, o) == metrics' = [metrics EXCEPT ![r] = Append(@, o)]

-----------------------------------------------------------------------------
(* Faulty variants of definitions below: mistakes the properties must find. *)

\* SET without NX.
SetAlways(r) ==
  /\ owner' = [owner EXCEPT ![SourceOf[r]] = r]
  /\ ttl' = [ttl EXCEPT ![SourceOf[r]] = LeaseTtl]

\* Release deletes the key without comparing the token.
DeleteAlways(r) ==
  /\ owner' = [owner EXCEPT ![SourceOf[r]] = NoRun]
  /\ ttl' = [ttl EXCEPT ![SourceOf[r]] = 0]

\* The result of acquire() is ignored.
AcquireAnyway(r) ==
  /\ owner[SourceOf[r]] # NoRun
  /\ Move(r, "acquire", "acquired")
  /\ UNCHANGED <<outcome, leaseVars, beatVars, limitVars, logVars>>

\* The result is lost when the metric has been recorded.
RecordSuccessDropsResult(r) ==
  /\ Move(r, "recordOk", "stop")
  /\ Count(r, "succeeded")
  /\ UNCHANGED <<outcome, leaseVars, beatVars, limitVars, events>>

\* stop() returns without joining the heartbeat thread.
DoNotJoin(r) ==
  /\ Move(r, "join", "release")
  /\ UNCHANGED <<outcome, leaseVars, beatVars, limitVars, logVars>>

\* The loop of the heartbeat does not look at the stop event.
BeatDueAnyway(r) ==
  /\ beat[r] = "waiting" /\ wait[r] = 0
  /\ beat' = [beat EXCEPT ![r] = "renewing"]
  /\ UNCHANGED <<pc, outcome, leaseVars, wait, stopSet, limitVars, logVars>>

\* The worker has no hard limit.
NeverKill(r) ==
  /\ Limited /\ Live(r) /\ age[r] > HardLimit
  /\ UNCHANGED vars

-----------------------------------------------------------------------------
(* The three atomic Redis commands of a lease; a run is its own token.     *)

\* SET key token NX EX ttl, when the key is absent.
SetIfAbsent(r) ==
  /\ owner[SourceOf[r]] = NoRun
  /\ owner' = [owner EXCEPT ![SourceOf[r]] = r]
  /\ ttl' = [ttl EXCEPT ![SourceOf[r]] = LeaseTtl]

\* RENEW_SCRIPT: extend the key only while it stores this token.
ExpireIfOwned(r) ==
  /\ ttl' = IF owner[SourceOf[r]] = r
              THEN [ttl EXCEPT ![SourceOf[r]] = LeaseTtl] ELSE ttl
  /\ owner' = owner

\* RELEASE_SCRIPT: delete the key only while it stores this token.
DeleteIfOwned(r) ==
  IF owner[SourceOf[r]] = r
    THEN /\ owner' = [owner EXCEPT ![SourceOf[r]] = NoRun]
         /\ ttl' = [ttl EXCEPT ![SourceOf[r]] = 0]
    ELSE UNCHANGED leaseVars

-----------------------------------------------------------------------------
(* The main thread of a run.                                               *)

\* A worker process enters run_with_source_lease for an accepted task.
Begin(r) ==
  /\ Move(r, "idle", "acquire")
  /\ UNCHANGED <<outcome, leaseVars, beatVars, limitVars, logVars>>

Acquire(r) ==
  /\ Move(r, "acquire", "acquired")
  /\ SetIfAbsent(r)
  /\ UNCHANGED <<outcome, beatVars, limitVars, logVars>>

\* The lease is taken: run_skipped is emitted, then counted by RecordSkip.
AcquireRefused(r) ==
  /\ owner[SourceOf[r]] # NoRun
  /\ Move(r, "acquire", "skip")
  /\ Emit(r, "run_skipped")
  /\ UNCHANGED <<outcome, leaseVars, beatVars, limitVars, metrics>>

\* The SET raised; Redis may have applied it before the reply was lost.
AcquireFails(r) ==
  /\ RedisFaults
  /\ Move(r, "acquire", "raised")
  /\ SetIfAbsent(r) \/ UNCHANGED leaseVars
  /\ UNCHANGED <<outcome, beatVars, limitVars, logVars>>

RecordSkip(r) ==
  /\ \/ Move(r, "skip", "skipped") /\ Count(r, "skipped")
     \/ /\ MetricFaults
        /\ Move(r, "skip", "raised")
        /\ Count(r, "skipped") \/ UNCHANGED metrics
  /\ UNCHANGED <<outcome, leaseVars, beatVars, limitVars, events>>

StartHeartbeat(r) ==
  /\ Move(r, "acquired", "started")
  /\ beat' = [beat EXCEPT ![r] = "waiting"]
  /\ wait' = [wait EXCEPT ![r] = RenewEvery]
  /\ UNCHANGED <<outcome, leaseVars, stopSet, limitVars, logVars>>

\* The main thread enters the try block and calls operation().
StartOperation(r) ==
  /\ Move(r, "started", "operate")
  /\ UNCHANGED <<outcome, leaseVars, beatVars, limitVars, logVars>>

OperationReturns(r) ==
  /\ Move(r, "operate", "recordOk")
  /\ Emit(r, "run_finished")
  /\ UNCHANGED <<outcome, leaseVars, beatVars, limitVars, metrics>>

OperationRaises(r) ==
  /\ Move(r, "operate", "except")
  /\ UNCHANGED <<outcome, leaseVars, beatVars, limitVars, logVars>>

\* The success metric is recorded inside the try block: when the store
\* raises, the except clause handles the run as a failed one.
RecordSuccess(r) ==
  /\ \/ /\ Move(r, "recordOk", "stop")
        /\ Count(r, "succeeded")
        /\ outcome' = [outcome EXCEPT ![r] = "returned"]
     \/ /\ MetricFaults
        /\ Move(r, "recordOk", "except")
        /\ Count(r, "succeeded") \/ UNCHANGED metrics
        /\ UNCHANGED outcome
  /\ UNCHANGED <<leaseVars, beatVars, limitVars, events>>

EmitFailure(r) ==
  /\ Move(r, "except", "recordFail")
  /\ Emit(r, "run_failed")
  /\ outcome' = [outcome EXCEPT ![r] = "raised"]
  /\ UNCHANGED <<leaseVars, beatVars, limitVars, metrics>>

RecordFailure(r) ==
  /\ Move(r, "recordFail", "stop")
  /\ Count(r, "failed") \/ (MetricFaults /\ UNCHANGED metrics)
  /\ UNCHANGED <<outcome, leaseVars, beatVars, limitVars, events>>

\* finally: heartbeat.stop() sets the event, joins the thread, and only
\* then is the lease released.
StopHeartbeat(r) ==
  /\ Move(r, "stop", "join")
  /\ stopSet' = [stopSet EXCEPT ![r] = TRUE]
  /\ UNCHANGED <<outcome, leaseVars, beat, wait, limitVars, logVars>>

JoinHeartbeat(r) ==
  /\ beat[r] = "dead"
  /\ Move(r, "join", "release")
  /\ UNCHANGED <<outcome, leaseVars, beatVars, limitVars, logVars>>

Release(r) ==
  /\ Move(r, "release", outcome[r])
  /\ DeleteIfOwned(r)
  /\ UNCHANGED <<outcome, beatVars, limitVars, logVars>>

ReleaseFails(r) ==
  /\ RedisFaults
  /\ Move(r, "release", "raised")
  /\ DeleteIfOwned(r) \/ UNCHANGED leaseVars
  /\ UNCHANGED <<outcome, beatVars, limitVars, logVars>>

-----------------------------------------------------------------------------
(* The heartbeat thread of a run.                                          *)

\* stop_event.wait(interval) timed out: the thread is about to renew.
BeatDue(r) ==
  /\ beat[r] = "waiting" /\ wait[r] = 0 /\ ~stopSet[r]
  /\ beat' = [beat EXCEPT ![r] = "renewing"]
  /\ UNCHANGED <<pc, outcome, leaseVars, wait, stopSet, limitVars, logVars>>

BeatStops(r) ==
  /\ beat[r] = "waiting" /\ stopSet[r]
  /\ beat' = [beat EXCEPT ![r] = "dead"]
  /\ UNCHANGED <<pc, outcome, leaseVars, wait, stopSet, limitVars, logVars>>

\* The thread waits again while it owns the lease and returns otherwise.
Renew(r) ==
  /\ beat[r] = "renewing"
  /\ ExpireIfOwned(r)
  /\ IF owner[SourceOf[r]] = r
       THEN /\ beat' = [beat EXCEPT ![r] = "waiting"]
            /\ wait' = [wait EXCEPT ![r] = RenewEvery]
       ELSE /\ beat' = [beat EXCEPT ![r] = "dead"]
            /\ wait' = wait
  /\ UNCHANGED <<pc, outcome, stopSet, limitVars, logVars>>

\* An exception of renew() ends the thread; nothing tells the main thread.
RenewFails(r) ==
  /\ RedisFaults
  /\ beat[r] = "renewing"
  /\ ExpireIfOwned(r) \/ UNCHANGED leaseVars
  /\ beat' = [beat EXCEPT ![r] = "dead"]
  /\ UNCHANGED <<pc, outcome, wait, stopSet, limitVars, logVars>>

-----------------------------------------------------------------------------
(* The worker: time limits and process death; the clock.                   *)

\* SoftTimeLimitExceeded is raised once, at whatever point the main thread
\* has reached: a lease command or a metric in flight may have reached Redis,
\* and only the try block handles the exception.
SoftInterrupt(r) ==
  /\ Limited /\ ~softSent[r] /\ age[r] >= SoftLimit
  /\ pc[r] \in SoftPoints
  /\ softSent' = [softSent EXCEPT ![r] = TRUE]
  /\ \/ \E p \in {"acquire", "acquired", "started", "stop", "join", "release", "skip"} :
          Move(r, p, "raised")
     \/ \E p \in {"operate", "recordOk"} : Move(r, p, "except")
     \/ \E p \in {"except", "recordFail"} : Move(r, p, "stop")
  /\ \/ UNCHANGED leaseVars
     \/ pc[r] = "acquire" /\ SetIfAbsent(r)
     \/ pc[r] = "release" /\ DeleteIfOwned(r)
  /\ \/ UNCHANGED metrics
     \/ pc[r] = "skip" /\ Count(r, "skipped")
     \/ pc[r] = "recordOk" /\ Count(r, "succeeded")
     \/ pc[r] = "recordFail" /\ Count(r, "failed")
  /\ outcome' = [outcome EXCEPT ![r] = "raised"]
  /\ UNCHANGED <<age, beatVars, events>>

\* The process dies with every thread in it.
ProcessDies(r) ==
  /\ pc' = [pc EXCEPT ![r] = IF Live(r) THEN "killed" ELSE @]
  /\ beat' = [beat EXCEPT ![r] = "dead"]
  /\ UNCHANGED <<outcome, leaseVars, wait, stopSet, limitVars, logVars>>

HardKill(r) ==
  /\ Limited /\ Live(r) /\ age[r] = HardLimit
  /\ ProcessDies(r)

Crash(r) ==
  /\ Live(r) \/ Beating(r)
  /\ ProcessDies(r)

\* Time may not pass a hard limit before the pool has killed its process,
\* nor, when threads are prompt, a step that is due.
TimeMayPass ==
  /\ Limited => \A r \in Runs : Live(r) => age[r] < HardLimit
  /\ Prompt => \A r \in Runs :
       /\ pc[r] # "acquired"
       /\ beat[r] # "renewing"
       /\ beat[r] = "waiting" => wait[r] > 0

Tick ==
  /\ TimeMayPass
  /\ ttl' = [s \in Sources |-> IF ttl[s] > 0 THEN ttl[s] - 1 ELSE 0]
  /\ owner' = [s \in Sources |-> IF ttl[s] > 1 THEN owner[s] ELSE NoRun]
  /\ age' = [r \in Runs |-> IF Live(r) /\ age[r] < HardLimit
                              THEN age[r] + 1 ELSE age[r]]
  /\ wait' = [r \in Runs |-> IF wait[r] > 0 THEN wait[r] - 1 ELSE 0]
  /\ UNCHANGED <<pc, outcome, softSent, beat, stopSet, logVars>>

-----------------------------------------------------------------------------
\* The statements of the main thread that need nothing but the processor.
MainStep(r) ==
  \/ Acquire(r) \/ AcquireRefused(r) \/ AcquireFails(r) \/ RecordSkip(r)
  \/ StartHeartbeat(r) \/ StartOperation(r)
  \/ RecordSuccess(r) \/ EmitFailure(r) \/ RecordFailure(r)
  \/ StopHeartbeat(r) \/ JoinHeartbeat(r) \/ Release(r) \/ ReleaseFails(r)

BeatStep(r) == BeatDue(r) \/ BeatStops(r) \/ Renew(r) \/ RenewFails(r)

Next ==
  \/ \E r \in Runs : \/ Begin(r) \/ OperationReturns(r) \/ OperationRaises(r)
                     \/ MainStep(r) \/ BeatStep(r)
                     \/ SoftInterrupt(r) \/ HardKill(r) \/ Crash(r)
  \/ Tick

Spec == Init /\ [][Next]_vars

\* Threads are scheduled, the pool kills at the hard limit and time passes.
\* Nothing says that an operation ends by itself or that a task arrives.
FairSpec ==
  /\ Spec
  /\ \A r \in Runs : /\ WF_vars(MainStep(r))
                     /\ WF_vars(BeatStep(r))
                     /\ WF_vars(HardKill(r))
  /\ WF_vars(Tick)

-----------------------------------------------------------------------------
TypeOK ==
  /\ pc \in [Runs -> ControlPoints]
  /\ outcome \in [Runs -> {"none", "returned", "raised"}]
  /\ age \in [Runs -> 0..HardLimit]
  /\ softSent \in [Runs -> BOOLEAN]
  /\ owner \in [Sources -> Runs \cup {NoRun}]
  /\ ttl \in [Sources -> 0..LeaseTtl]
  /\ beat \in [Runs -> {"off", "waiting", "renewing", "dead"}]
  /\ wait \in [Runs -> 0..RenewEvery]
  /\ stopSet \in [Runs -> BOOLEAN]
  /\ events \in [Runs -> Seq({"run_finished", "run_failed", "run_skipped"})]
  /\ metrics \in [Runs -> Seq({"succeeded", "failed", "skipped"})]

\* The operation runs only while the lease of its source stores the token of
\* this very run (tasks.py:110, "only while its Redis lease is held"): the
\* lease does not lapse under an operation that is still running, whatever
\* the heartbeat does.
OperationHoldsLease ==
  \A r \in Runs : pc[r] = "operate" => owner[SourceOf[r]] = r

\* A run that returned its result stopped its renewals before it released:
\* no thread of it can touch the lease any more, its lease is gone, and it is
\* on the books exactly once, as a success (tasks.py:136-168).
ReturnedRunIsSettled ==
  \A r \in Runs : pc[r] = "returned" =>
    /\ ~Beating(r)
    /\ owner[SourceOf[r]] # r
    /\ events[r] = <<"run_finished">> /\ metrics[r] = <<"succeeded">>

\* A lease that is held ends in only two ways: it lapses after its whole
\* remaining life passed unrenewed, or the run that owns it releases it.  A
\* late run never deletes or takes over the lease of a later owner
\* (locking.py:9-20, the token comparison in both scripts).
OnlyOwnerEndsLease ==
  [][\A s \in Sources : \A r \in Runs :
       owner[s] = r /\ owner'[s] # r =>
         /\ owner'[s] = NoRun
         /\ \/ ttl[s] = 1 /\ TimeMayPass /\ UNCHANGED pc
            \/ pc[r] = "release" /\ pc'[r] \in {"returned", "raised"}]_vars

\* A run is not accounted as both finished and failed, and not counted twice:
\* one terminal event and one terminal metric per run, as the observability
\* plan has it ("once per terminal ...").
OneTerminalRecord ==
  \A r \in Runs : Len(events[r]) <= 1 /\ Len(metrics[r]) <= 1

\* A source is not blocked for good by a run that is over: its lease is
\* deleted or lapses once the run returned, raised or died with its process.
LeaseIsRecovered ==
  \A r \in Runs :
    (pc[r] \in Ended /\ owner[SourceOf[r]] = r) ~> (owner[SourceOf[r]] # r)

\* Every run that a limited worker began ends: it returns, raises, is skipped
\* or is killed, so neither the join of the heartbeat nor a hanging operation
\* can hold a worker slot for ever.
EveryRunEnds == \A r \in Runs : Live(r) ~> (pc[r] \in Ended)

-----------------------------------------------------------------------------
\* What callers are promised, see module SourceExclusion.
Phase(p) ==
  CASE p \in {"idle", "acquire", "acquired", "started"} -> "waiting"
    [] p = "operate" -> "running"
    [] OTHER -> "over"

Exclusion == INSTANCE SourceExclusion
  WITH phase <- [q \in Runs |-> Phase(pc[q])]

\* The lease implements the exclusion of runs per source.
ImplementsExclusion == Exclusion!Spec
=============================================================================
