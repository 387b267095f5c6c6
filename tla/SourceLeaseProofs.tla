-------------------------- MODULE SourceLeaseProofs --------------------------
(***************************************************************************)
(* Theorems about SourceLease for any number of runs and sources and any   *)
(* value of the time constants.                                            *)
(***************************************************************************)
EXTENDS SourceLease, TLAPS

-----------------------------------------------------------------------------
(* Type correctness.  A run leaves by the outcome its try block settled, so *)
(* the types are inductive only together with: past that block, there is   *)
(* an outcome.                                                             *)

OutcomeSettled ==
  \A r \in Runs : pc[r] \in {"recordFail", "stop", "join", "release"} =>
                     outcome[r] # "none"

\* The log of a run stays a sequence of event names when one is emitted.
LEMMA EmitType ==
  ASSUME events \in [Runs -> Seq({"run_finished", "run_failed", "run_skipped"})],
         NEW r \in Runs, NEW e \in {"run_finished", "run_failed", "run_skipped"},
         Emit(r, e)
  PROVE  events' \in [Runs -> Seq({"run_finished", "run_failed", "run_skipped"})]
BY DEF Emit

\* The same of the outcomes the metric store has counted.
LEMMA CountType ==
  ASSUME metrics \in [Runs -> Seq({"succeeded", "failed", "skipped"})],
         NEW r \in Runs, NEW o \in {"succeeded", "failed", "skipped"},
         Count(r, o)
  PROVE  metrics' \in [Runs -> Seq({"succeeded", "failed", "skipped"})]
BY DEF Count

\* Every lease command leaves well-typed keys in Redis.
LEMMA CommandType ==
  ASSUME TypeOK, NEW r \in Runs,
         SetIfAbsent(r) \/ ExpireIfOwned(r) \/ DeleteIfOwned(r) \/ UNCHANGED leaseVars
  PROVE  /\ owner' \in [Sources -> Runs \cup {NoRun}]
         /\ ttl' \in [Sources -> 0..LeaseTtl]
<1>1. SourceOf[r] \in Sources /\ LeaseTtl \in 0..LeaseTtl /\ 0 \in 0..LeaseTtl
  BY ConstantsAssumption
<1>2. CASE SetIfAbsent(r)
  BY <1>1, <1>2 DEF TypeOK, SetIfAbsent
<1>3. CASE ExpireIfOwned(r)
  BY <1>1, <1>3 DEF TypeOK, ExpireIfOwned
<1>4. CASE DeleteIfOwned(r)
  <2>1. CASE owner[SourceOf[r]] = r
    BY <1>1, <1>4, <2>1 DEF TypeOK, DeleteIfOwned
  <2>2. CASE owner[SourceOf[r]] # r
    BY <1>4, <2>2 DEF TypeOK, DeleteIfOwned, leaseVars
  <2> QED
    BY <2>1, <2>2
<1>5. CASE UNCHANGED leaseVars
  BY <1>5 DEF TypeOK, leaseVars
<1> QED
  BY <1>2, <1>3, <1>4, <1>5

\* A move of the main thread stays within the control points.
LEMMA MoveType ==
  ASSUME pc \in [Runs -> ControlPoints], NEW r \in Runs,
         NEW from, NEW to \in ControlPoints, Move(r, from, to)
  PROVE  pc' \in [Runs -> ControlPoints]
BY DEF Move

\* The main thread of a run keeps every variable within its type.
LEMMA MainType ==
  ASSUME TypeOK, OutcomeSettled, NEW r \in Runs,
         Begin(r) \/ OperationReturns(r) \/ OperationRaises(r) \/ MainStep(r)
  PROVE  TypeOK'
<1> USE DEF TypeOK, leaseVars, beatVars, limitVars, logVars
<1>1. CASE Begin(r)
  BY <1>1, MoveType DEF Begin, ControlPoints
<1>2. CASE Acquire(r)
  BY <1>2, MoveType, CommandType DEF Acquire, ControlPoints
<1>3. CASE AcquireRefused(r)
  BY <1>3, MoveType, EmitType DEF AcquireRefused, ControlPoints
<1>4. CASE AcquireFails(r)
  BY <1>4, MoveType, CommandType DEF AcquireFails, ControlPoints
<1>5. CASE RecordSkip(r)
  BY <1>5, MoveType, CountType DEF RecordSkip, ControlPoints
<1>6. CASE StartHeartbeat(r)
  BY <1>6, MoveType, ConstantsAssumption DEF StartHeartbeat, ControlPoints
<1>7. CASE StartOperation(r)
  BY <1>7, MoveType DEF StartOperation, ControlPoints
<1>8. CASE OperationReturns(r)
  BY <1>8, MoveType, EmitType DEF OperationReturns, ControlPoints
<1>9. CASE OperationRaises(r)
  BY <1>9, MoveType DEF OperationRaises, ControlPoints
<1>10. CASE RecordSuccess(r)
  BY <1>10, MoveType, CountType DEF RecordSuccess, ControlPoints
<1>11. CASE EmitFailure(r)
  BY <1>11, MoveType, EmitType DEF EmitFailure, ControlPoints
<1>12. CASE RecordFailure(r)
  BY <1>12, MoveType, CountType DEF RecordFailure, ControlPoints
<1>13. CASE StopHeartbeat(r)
  BY <1>13, MoveType DEF StopHeartbeat, ControlPoints
<1>14. CASE JoinHeartbeat(r)
  BY <1>14, MoveType DEF JoinHeartbeat, ControlPoints
<1>15. CASE Release(r)
  <2>1. Move(r, "release", outcome[r]) /\ DeleteIfOwned(r)
    BY <1>15 DEF Release
  <2>2. pc' \in [Runs -> ControlPoints]
    BY <2>1 DEF Move, ControlPoints, OutcomeSettled
  <2> QED
    BY <1>15, <2>1, <2>2, CommandType DEF Release
<1>16. CASE ReleaseFails(r)
  BY <1>16, MoveType, CommandType DEF ReleaseFails, ControlPoints
<1> QED
  BY <1>1, <1>2, <1>3, <1>4, <1>5, <1>6, <1>7, <1>8, <1>9, <1>10, <1>11,
     <1>12, <1>13, <1>14, <1>15, <1>16 DEF MainStep

\* So do the heartbeat thread, the time limits and the death of its process.
LEMMA ThreadType ==
  ASSUME TypeOK, NEW r \in Runs,
         BeatStep(r) \/ SoftInterrupt(r) \/ HardKill(r) \/ Crash(r)
  PROVE  TypeOK'
<1> USE DEF TypeOK, leaseVars, beatVars, limitVars, logVars
<1>1. CASE BeatDue(r)
  BY <1>1 DEF BeatDue
<1>2. CASE BeatStops(r)
  BY <1>2 DEF BeatStops
<1>3. CASE Renew(r)
  <2>1. /\ owner' \in [Sources -> Runs \cup {NoRun}]
        /\ ttl' \in [Sources -> 0..LeaseTtl]
    BY <1>3, CommandType DEF Renew
  <2>2. RenewEvery \in 0..RenewEvery
    BY ConstantsAssumption
  <2>3. beat' \in [Runs -> {"off", "waiting", "renewing", "dead"}]
    <3>1. \E to \in {"waiting", "dead"} : beat' = [beat EXCEPT ![r] = to]
      BY <1>3 DEF Renew
    <3> QED
      BY <3>1
  <2>4. wait' \in [Runs -> 0..RenewEvery]
    BY <1>3, <2>2 DEF Renew
  <2> QED
    BY <1>3, <2>1, <2>3, <2>4 DEF Renew
<1>4. CASE RenewFails(r)
  BY <1>4, CommandType DEF RenewFails
<1>5. CASE SoftInterrupt(r)
  <2>1. pc' \in [Runs -> ControlPoints]
    <3>1. \E to \in {"raised", "except", "stop"} : pc' = [pc EXCEPT ![r] = to]
      BY <1>5 DEF SoftInterrupt, Move
    <3> QED
      BY <3>1 DEF ControlPoints
  <2>2. /\ owner' \in [Sources -> Runs \cup {NoRun}]
        /\ ttl' \in [Sources -> 0..LeaseTtl]
    <3>1. SetIfAbsent(r) \/ DeleteIfOwned(r) \/ UNCHANGED leaseVars
      BY <1>5 DEF SoftInterrupt
    <3> QED
      BY <3>1, CommandType
  <2>3. metrics' \in [Runs -> Seq({"succeeded", "failed", "skipped"})]
    BY <1>5, CountType DEF SoftInterrupt
  <2> QED
    BY <1>5, <2>1, <2>2, <2>3 DEF SoftInterrupt
<1>6. CASE HardKill(r) \/ Crash(r)
  <2>1. ProcessDies(r)
    BY <1>6 DEF HardKill, Crash
  <2>2. pc' \in [Runs -> ControlPoints] /\ beat' \in [Runs -> {"off", "waiting", "renewing", "dead"}]
    BY <2>1 DEF ProcessDies, ControlPoints
  <2> QED
    BY <2>1, <2>2 DEF ProcessDies
<1> QED
  BY <1>1, <1>2, <1>3, <1>4, <1>5, <1>6 DEF BeatStep

\* The clock counts leases and waits down to zero and ages up to the limit.
LEMMA TickType ==
  ASSUME TypeOK, Tick
  PROVE  TypeOK'
<1> USE DEF TypeOK, Tick, logVars
<1>1. age' \in [Runs -> 0..HardLimit]
  BY ConstantsAssumption
<1>2. ttl' \in [Sources -> 0..LeaseTtl] /\ wait' \in [Runs -> 0..RenewEvery]
  BY ConstantsAssumption
<1> QED
  BY <1>1, <1>2

\* Only the two clauses of the try statement lead past it.
LEMMA OutcomeStep ==
  ASSUME TypeOK, OutcomeSettled, [Next]_vars
  PROVE  OutcomeSettled'
<1> USE DEF OutcomeSettled, TypeOK
<1>1. ASSUME NEW r \in Runs, Begin(r) \/ OperationReturns(r) \/ OperationRaises(r)
      PROVE  OutcomeSettled'
  BY <1>1 DEF Begin, OperationReturns, OperationRaises, Move
<1>2. ASSUME NEW r \in Runs, MainStep(r)
      PROVE  OutcomeSettled'
  BY <1>2 DEF MainStep, Acquire, AcquireRefused, AcquireFails, RecordSkip,
     StartHeartbeat, StartOperation, RecordSuccess, EmitFailure, RecordFailure,
     StopHeartbeat, JoinHeartbeat, Release, ReleaseFails, Move
<1>3. ASSUME NEW r \in Runs, BeatStep(r) \/ HardKill(r) \/ Crash(r)
      PROVE  OutcomeSettled'
  BY <1>3 DEF BeatStep, BeatDue, BeatStops, Renew, RenewFails, HardKill, Crash,
     ProcessDies
<1>4. ASSUME NEW r \in Runs, SoftInterrupt(r)
      PROVE  OutcomeSettled'
  BY <1>4 DEF SoftInterrupt, Move
<1>5. CASE Tick \/ UNCHANGED vars
  BY <1>5 DEF Tick, vars
<1> QED
  BY <1>1, <1>2, <1>3, <1>4, <1>5 DEF Next

\* The inductive form of type correctness.
LEMMA TypeInvariant == Spec => [](TypeOK /\ OutcomeSettled)
<1> DEFINE Inv == TypeOK /\ OutcomeSettled
<1>1. Init => Inv
  BY ConstantsAssumption DEF Init, TypeOK, OutcomeSettled, ControlPoints
<1>2. Inv /\ [Next]_vars => Inv'
  <2> SUFFICES ASSUME Inv, [Next]_vars PROVE TypeOK'
    BY OutcomeStep
  <2>1. CASE UNCHANGED vars
    BY <2>1 DEF TypeOK, vars, leaseVars, beatVars, limitVars, logVars
  <2> QED
    BY <2>1, MainType, ThreadType, TickType DEF Next
<1> QED
  BY <1>1, <1>2, PTL DEF Spec

\* Every reachable state is well typed, for any runs, sources and times.
THEOREM TypeCorrect == Spec => []TypeOK
BY TypeInvariant, PTL

-----------------------------------------------------------------------------
(* The lease outlives the operation, when the hard limit is below the TTL. *)
(* The heartbeat plays no part: a run that got its lease at some age has a *)
(* lease that lives at least TTL - age longer, and it is killed before.    *)

Holders == {"acquired", "started", "operate", "recordOk", "except",
            "recordFail", "stop", "join", "release"}

LeaseOutlivesRun ==
  \A r \in Runs : pc[r] \in Holders =>
    /\ owner[SourceOf[r]] = r
    /\ ttl[SourceOf[r]] + age[r] >= LeaseTtl

\* The step of another run cannot touch a lease that is held, since every
\* command compares the token or wants the key absent.
LEMMA CommandKeepsLease ==
  ASSUME TypeOK, NEW q \in Runs, NEW r \in Runs, q # r,
         SetIfAbsent(q) \/ ExpireIfOwned(q) \/ DeleteIfOwned(q) \/ UNCHANGED leaseVars,
         owner[SourceOf[r]] = r
  PROVE  owner'[SourceOf[r]] = r /\ ttl'[SourceOf[r]] = ttl[SourceOf[r]]
BY ConstantsAssumption
   DEF TypeOK, SetIfAbsent, ExpireIfOwned, DeleteIfOwned, leaseVars

\* A step of the main thread of any run.
LEMMA MainKeepsLease ==
  ASSUME TypeOK, LeaseOutlivesRun, NEW q \in Runs,
         Begin(q) \/ OperationReturns(q) \/ OperationRaises(q) \/ MainStep(q)
  PROVE  LeaseOutlivesRun'
<1> SUFFICES ASSUME NEW r \in Runs, pc'[r] \in Holders
             PROVE  /\ owner'[SourceOf[r]] = r
                    /\ ttl'[SourceOf[r]] + age'[r] >= LeaseTtl
  BY DEF LeaseOutlivesRun
<1> USE DEF TypeOK, Move
<1>1. age' = age
  BY DEF Begin, OperationReturns, OperationRaises, MainStep, Acquire,
     AcquireRefused, AcquireFails, RecordSkip, StartHeartbeat, StartOperation,
     RecordSuccess, EmitFailure, RecordFailure, StopHeartbeat, JoinHeartbeat,
     Release, ReleaseFails, limitVars
<1>2. CASE q # r
  <2>1. pc[r] \in Holders
    BY <1>2 DEF Begin, OperationReturns, OperationRaises, MainStep, Acquire,
       AcquireRefused, AcquireFails, RecordSkip, StartHeartbeat, StartOperation,
       RecordSuccess, EmitFailure, RecordFailure, StopHeartbeat, JoinHeartbeat,
       Release, ReleaseFails
  <2>2. SetIfAbsent(q) \/ DeleteIfOwned(q) \/ UNCHANGED leaseVars
    BY DEF Begin, OperationReturns, OperationRaises, MainStep, Acquire,
       AcquireRefused, AcquireFails, RecordSkip, StartHeartbeat, StartOperation,
       RecordSuccess, EmitFailure, RecordFailure, StopHeartbeat, JoinHeartbeat,
       Release, ReleaseFails
  <2> QED
    BY <1>1, <1>2, <2>1, <2>2, CommandKeepsLease DEF LeaseOutlivesRun
<1>3. CASE q = r /\ Acquire(r)
  <2>1. SourceOf[r] \in Sources /\ LeaseTtl \in Nat
    BY ConstantsAssumption
  <2>2. owner'[SourceOf[r]] = r /\ ttl'[SourceOf[r]] = LeaseTtl
    BY <1>3, <2>1 DEF Acquire, SetIfAbsent
  <2>3. age[r] \in Nat
    BY ConstantsAssumption
  <2> QED
    BY <1>1, <2>1, <2>2, <2>3
<1>4. CASE q = r /\ ~Acquire(r)
  <2>1. pc[r] \in Holders /\ UNCHANGED leaseVars
    BY <1>4 DEF Holders, Begin, OperationReturns, OperationRaises, MainStep,
       AcquireRefused, AcquireFails, RecordSkip, StartHeartbeat, StartOperation,
       RecordSuccess, EmitFailure, RecordFailure, StopHeartbeat, JoinHeartbeat,
       Release, ReleaseFails
  <2> QED
    BY <1>1, <2>1 DEF LeaseOutlivesRun, leaseVars
<1> QED
  BY <1>2, <1>3, <1>4

\* A step of a heartbeat, a time limit or the death of a process.
LEMMA ThreadKeepsLease ==
  ASSUME TypeOK, LeaseOutlivesRun, NEW q \in Runs,
         BeatStep(q) \/ SoftInterrupt(q) \/ HardKill(q) \/ Crash(q)
  PROVE  LeaseOutlivesRun'
<1> SUFFICES ASSUME NEW r \in Runs, pc'[r] \in Holders
             PROVE  /\ owner'[SourceOf[r]] = r
                    /\ ttl'[SourceOf[r]] + age'[r] >= LeaseTtl
  BY DEF LeaseOutlivesRun
<1> USE DEF TypeOK
<1>1. age' = age
  BY DEF BeatStep, BeatDue, BeatStops, Renew, RenewFails, SoftInterrupt,
     HardKill, Crash, ProcessDies, limitVars
<1>2. CASE BeatStep(q)
  <2>1. pc' = pc
    BY <1>2 DEF BeatStep, BeatDue, BeatStops, Renew, RenewFails
  <2>2. ExpireIfOwned(q) \/ UNCHANGED leaseVars
    BY <1>2 DEF BeatStep, BeatDue, BeatStops, Renew, RenewFails
  <2>3. owner' = owner /\ ttl'[SourceOf[r]] >= ttl[SourceOf[r]]
    <3>1. /\ SourceOf \in [Runs -> Sources] /\ LeaseTtl \in Nat
          /\ ttl \in [Sources -> 0..LeaseTtl]
      BY ConstantsAssumption
    <3>2. CASE UNCHANGED leaseVars
      BY <3>1, <3>2 DEF leaseVars
    <3>3. CASE ExpireIfOwned(q) /\ owner[SourceOf[q]] = q
      <4>1. ttl' = [ttl EXCEPT ![SourceOf[q]] = LeaseTtl] /\ owner' = owner
        BY <3>3 DEF ExpireIfOwned
      <4>2. ttl[SourceOf[r]] \in 0..LeaseTtl
        BY <3>1
      <4> QED
        BY <3>1, <4>1, <4>2
    <3>4. CASE ExpireIfOwned(q) /\ owner[SourceOf[q]] # q
      BY <3>1, <3>4 DEF ExpireIfOwned
    <3> QED
      BY <2>2, <3>2, <3>3, <3>4
  <2>4. ttl[SourceOf[r]] \in Nat /\ ttl'[SourceOf[r]] \in Nat /\ age[r] \in Nat
    <3>1. /\ ttl' \in [Sources -> 0..LeaseTtl] /\ SourceOf[r] \in Sources
          /\ LeaseTtl \in Nat /\ HardLimit \in Nat
      BY <2>2, CommandType, ConstantsAssumption
    <3> QED
      BY <3>1
  <2>5. /\ owner[SourceOf[r]] = r /\ ttl[SourceOf[r]] + age[r] >= LeaseTtl
        /\ LeaseTtl \in Nat
    BY <2>1, ConstantsAssumption DEF LeaseOutlivesRun
  <2>6. owner'[SourceOf[r]] = r /\ age'[r] = age[r]
    BY <1>1, <2>3, <2>5
  <2> HIDE DEF TypeOK
  <2> QED
    BY <2>3, <2>4, <2>5, <2>6
<1>3. CASE SoftInterrupt(q)
  <2>1. CASE q = r
    <3>1. pc[r] \in Holders /\ UNCHANGED leaseVars
      BY <1>3, <2>1 DEF SoftInterrupt, Move, Holders
    <3> QED
      BY <1>1, <3>1 DEF LeaseOutlivesRun, leaseVars
  <2>2. CASE q # r
    <3>1. pc[r] \in Holders
      BY <1>3, <2>2 DEF SoftInterrupt, Move
    <3>2. SetIfAbsent(q) \/ DeleteIfOwned(q) \/ UNCHANGED leaseVars
      BY <1>3 DEF SoftInterrupt
    <3> QED
      BY <1>1, <2>2, <3>1, <3>2, CommandKeepsLease DEF LeaseOutlivesRun
  <2> QED
    BY <2>1, <2>2
<1>4. CASE HardKill(q) \/ Crash(q)
  <2>1. pc[r] \in Holders /\ UNCHANGED leaseVars
    BY <1>4 DEF HardKill, Crash, ProcessDies, Holders, Live, Ended
  <2> QED
    BY <1>1, <2>1 DEF LeaseOutlivesRun, leaseVars
<1> QED
  BY <1>2, <1>3, <1>4

\* The clock: a holder is younger than the hard limit, so its lease has more
\* than one unit left and what the lease loses its age gains.
LEMMA TickKeepsLease ==
  ASSUME Limited, HardLimit < LeaseTtl, TypeOK, LeaseOutlivesRun, Tick
  PROVE  LeaseOutlivesRun'
<1> SUFFICES ASSUME NEW r \in Runs, pc[r] \in Holders
             PROVE  /\ owner'[SourceOf[r]] = r
                    /\ ttl'[SourceOf[r]] + age'[r] >= LeaseTtl
  BY DEF LeaseOutlivesRun, Tick
<1> DEFINE s == SourceOf[r]
<1>1. s \in Sources /\ LeaseTtl \in Nat /\ HardLimit \in Nat
  BY ConstantsAssumption
<1>2. ttl[s] \in Nat /\ age[r] \in Nat
  BY <1>1 DEF TypeOK
<1>3. owner[s] = r /\ ttl[s] + age[r] >= LeaseTtl
  BY DEF LeaseOutlivesRun
<1>4. Live(r)
  BY DEF Live, Ended, Holders
<1>5. age[r] < HardLimit
  BY <1>4 DEF Tick, TimeMayPass
<1>6. age'[r] = age[r] + 1
  BY <1>4, <1>5 DEF Tick
<1>7. ttl[s] > 1
  BY <1>1, <1>2, <1>3, <1>5
<1>8. ttl'[s] = ttl[s] - 1 /\ owner'[s] = owner[s]
  BY <1>1, <1>2, <1>7 DEF Tick
<1> QED
  BY <1>1, <1>2, <1>3, <1>6, <1>8

\* The invariant for every reachable state of a limited worker.
THEOREM LeaseOutlivesEveryRun ==
  ASSUME Limited, HardLimit < LeaseTtl
  PROVE  Spec => []LeaseOutlivesRun
<1>1. Init => LeaseOutlivesRun
  BY DEF Init, LeaseOutlivesRun, Holders
<1>2. TypeOK /\ LeaseOutlivesRun /\ [Next]_vars => LeaseOutlivesRun'
  <2>1. ASSUME LeaseOutlivesRun, UNCHANGED vars
        PROVE  LeaseOutlivesRun'
    BY <2>1 DEF LeaseOutlivesRun, vars, leaseVars, limitVars
  <2> QED
    BY <2>1, MainKeepsLease, ThreadKeepsLease, TickKeepsLease DEF Next
<1> QED
  BY <1>1, <1>2, TypeCorrect, PTL DEF Spec

\* While an operation runs, its own token is stored under the lease key of its
\* source, whatever the heartbeat and Redis do (tasks.py:110).
THEOREM OperationIsCovered ==
  ASSUME Limited, HardLimit < LeaseTtl
  PROVE  Spec => []OperationHoldsLease
<1>1. LeaseOutlivesRun => OperationHoldsLease
  BY DEF LeaseOutlivesRun, OperationHoldsLease, Holders
<1> QED
  BY <1>1, LeaseOutlivesEveryRun, PTL

-----------------------------------------------------------------------------
(* The lease implements the exclusion of runs per source.                  *)

\* A step that leaves every phase, or moves the phase of one run forward.
LEMMA PhaseStep ==
  ASSUME TypeOK, NEW r \in Runs, NEW to \in ControlPoints,
         pc' = [pc EXCEPT ![r] = to],
         Phase(to) = Phase(pc[r]) \/ (Phase(pc[r]) # "over" /\ Phase(to) = "over")
  PROVE  [Exclusion!Next]_[q \in Runs |-> Phase(pc[q])]
<1>1. CASE Phase(to) = Phase(pc[r])
  <2>1. \A q \in Runs : Phase(pc'[q]) = Phase(pc[q])
    BY <1>1 DEF TypeOK
  <2> QED
    BY <2>1
<1>2. CASE Phase(pc[r]) # "over" /\ Phase(to) = "over"
  <2>1. Phase(pc[r]) \in {"waiting", "running"}
    BY <1>2 DEF Phase
  <2>2. \A q \in Runs : Phase(pc'[q]) = IF q = r THEN "over" ELSE Phase(pc[q])
    BY <1>2 DEF TypeOK
  <2>3. Exclusion!End(r)
    BY <2>1, <2>2 DEF Exclusion!End
  <2> QED
    BY <2>3 DEF Exclusion!Next
<1> QED
  BY <1>1, <1>2

\* A run enters its operation holding the lease, so no other run of the
\* source, which would hold the same lease, is in its own.
LEMMA StartStep ==
  ASSUME TypeOK, LeaseOutlivesRun, NEW r \in Runs, StartOperation(r)
  PROVE  [Exclusion!Next]_[q \in Runs |-> Phase(pc[q])]
<1>1. pc[r] = "started" /\ pc' = [pc EXCEPT ![r] = "operate"]
  BY DEF StartOperation, Move
<1>2. Phase(pc[r]) = "waiting"
  BY <1>1 DEF Phase
<1>3. ASSUME NEW q \in Runs, SourceOf[q] = SourceOf[r]
      PROVE  Phase(pc[q]) # "running"
  <2>1. Phase(pc[q]) = "running" => pc[q] = "operate"
    BY DEF Phase
  <2>2. pc[q] = "operate" => owner[SourceOf[q]] = q
    BY DEF LeaseOutlivesRun, Holders
  <2>3. owner[SourceOf[r]] = r
    BY <1>1 DEF LeaseOutlivesRun, Holders
  <2> QED
    BY <1>1, <1>3, <2>1, <2>2, <2>3
<1>4. \A q \in Runs : Phase(pc'[q]) = IF q = r THEN "running" ELSE Phase(pc[q])
  BY <1>1 DEF TypeOK, Phase
<1>5. Exclusion!Start(r)
  BY <1>2, <1>3, <1>4 DEF Exclusion!Start
<1> QED
  BY <1>5 DEF Exclusion!Next

\* The operations of one source never overlap and none runs twice: what a
\* limited worker does is a behavior of SourceExclusion.
THEOREM LeaseImplementsExclusion ==
  ASSUME Limited, HardLimit < LeaseTtl
  PROVE  Spec => ImplementsExclusion
<1>1. Init => Exclusion!Init
  <2> SUFFICES ASSUME Init PROVE \A r \in Runs : Phase(pc[r]) = "waiting"
    BY DEF Exclusion!Init
  <2> QED
    BY DEF Init, Phase
<1>2. TypeOK /\ TypeOK' /\ LeaseOutlivesRun /\ [Next]_vars
        => [Exclusion!Next]_[q \in Runs |-> Phase(pc[q])]
  <2> SUFFICES ASSUME TypeOK, TypeOK', LeaseOutlivesRun, [Next]_vars
               PROVE  [Exclusion!Next]_[q \in Runs |-> Phase(pc[q])]
    OBVIOUS
  <2>1. ASSUME NEW r \in Runs, StartOperation(r)
        PROVE  [Exclusion!Next]_[q \in Runs |-> Phase(pc[q])]
    BY <2>1, StartStep
  <2>2. ASSUME pc' = pc
        PROVE  [Exclusion!Next]_[q \in Runs |-> Phase(pc[q])]
    BY <2>2
  <2>3. ASSUME NEW r \in Runs, NEW from, NEW to, Move(r, from, to),
               from \in {"idle", "acquire", "acquired"} =>
                 to \in {"acquire", "acquired", "started", "skip", "raised", "killed"},
               from = "started" => to \in {"raised", "killed"},
               from = "operate" => to \in {"recordOk", "except", "killed"},
               from \notin {"idle", "acquire", "acquired", "started", "operate"} =>
                 to \notin {"idle", "acquire", "acquired", "started", "operate"}
        PROVE  [Exclusion!Next]_[q \in Runs |-> Phase(pc[q])]
    <3>1. pc[r] = from /\ pc' = [pc EXCEPT ![r] = to] /\ pc'[r] = to
      BY <2>3 DEF Move, TypeOK
    <3>2. to \in ControlPoints
      BY <3>1 DEF TypeOK
    <3>3. Phase(to) = Phase(pc[r]) \/ (Phase(pc[r]) # "over" /\ Phase(to) = "over")
      BY <2>3, <3>1 DEF Phase
    <3> QED
      BY <3>1, <3>2, <3>3, PhaseStep
  <2>4. ASSUME NEW r \in Runs,
               Begin(r) \/ OperationReturns(r) \/ OperationRaises(r)
        PROVE  [Exclusion!Next]_[q \in Runs |-> Phase(pc[q])]
    BY <2>3, <2>4 DEF Begin, OperationReturns, OperationRaises
  <2>5. ASSUME NEW r \in Runs, MainStep(r)
        PROVE  [Exclusion!Next]_[q \in Runs |-> Phase(pc[q])]
    <3>1. CASE Acquire(r) \/ AcquireRefused(r) \/ AcquireFails(r) \/ RecordSkip(r)
      BY <3>1, <2>3 DEF Acquire, AcquireRefused, AcquireFails, RecordSkip
    <3>2. CASE StartHeartbeat(r) \/ RecordSuccess(r) \/ EmitFailure(r)
      BY <3>2, <2>3 DEF StartHeartbeat, RecordSuccess, EmitFailure
    <3>3. CASE RecordFailure(r) \/ StopHeartbeat(r) \/ JoinHeartbeat(r)
      BY <3>3, <2>3 DEF RecordFailure, StopHeartbeat, JoinHeartbeat
    <3>4. CASE ReleaseFails(r)
      BY <3>4, <2>3 DEF ReleaseFails
    <3>5. CASE Release(r)
      <4>1. Move(r, "release", outcome[r])
        BY <3>5 DEF Release
      <4>2. outcome[r] \in {"none", "returned", "raised"}
        BY DEF TypeOK
      <4> QED
        BY <4>1, <4>2, <2>3
    <3> QED
      BY <2>5, <3>1, <3>2, <3>3, <3>4, <3>5, <2>1 DEF MainStep
  <2>6. ASSUME NEW r \in Runs, BeatStep(r)
        PROVE  [Exclusion!Next]_[q \in Runs |-> Phase(pc[q])]
    BY <2>6, <2>2 DEF BeatStep, BeatDue, BeatStops, Renew, RenewFails
  <2>7. ASSUME NEW r \in Runs, SoftInterrupt(r)
        PROVE  [Exclusion!Next]_[q \in Runs |-> Phase(pc[q])]
    BY <2>7, <2>3 DEF SoftInterrupt
  <2>8. ASSUME NEW r \in Runs, HardKill(r) \/ Crash(r)
        PROVE  [Exclusion!Next]_[q \in Runs |-> Phase(pc[q])]
    <3>1. CASE Live(r)
      <4>1. Move(r, pc[r], "killed")
        BY <2>8, <3>1 DEF HardKill, Crash, ProcessDies, Move
      <4> QED
        BY <3>1, <4>1, <2>3 DEF Live
    <3>2. CASE ~Live(r)
      <4>1. pc' = pc
        BY <2>8, <3>2 DEF HardKill, Crash, ProcessDies, TypeOK
      <4> QED
        BY <4>1, <2>2
    <3> QED
      BY <3>1, <3>2
  <2>9. CASE Tick \/ UNCHANGED vars
    BY <2>9, <2>2 DEF Tick, vars
  <2> QED
    BY <2>1, <2>4, <2>5, <2>6, <2>7, <2>8, <2>9 DEF Next
<1>3. Spec => Exclusion!Init /\ [][Exclusion!Next]_[q \in Runs |-> Phase(pc[q])]
  BY <1>1, <1>2, TypeCorrect, LeaseOutlivesEveryRun, PTL DEF Spec
<1> QED
  BY <1>3, PTL DEF ImplementsExclusion, Exclusion!Spec

-----------------------------------------------------------------------------
(* A lease ends by its owner or by lapsing, with or without time limits.   *)

\* Redis drops a key the moment its remaining life is over.
StoredKeysLive == \A s \in Sources : owner[s] # NoRun => ttl[s] > 0

\* Every step leaves a stored key some time to live.
LEMMA StoredKeysStep ==
  ASSUME TypeOK, StoredKeysLive, [Next]_vars
  PROVE  StoredKeysLive'
<1>1. ASSUME NEW r \in Runs,
             \/ SetIfAbsent(r) \/ ExpireIfOwned(r) \/ DeleteIfOwned(r)
             \/ UNCHANGED leaseVars
      PROVE  StoredKeysLive'
  <2>1. /\ SourceOf[r] \in Sources /\ LeaseTtl > 0 /\ LeaseTtl \in Nat
        /\ owner \in [Sources -> Runs \cup {NoRun}]
        /\ ttl \in [Sources -> 0..LeaseTtl]
    BY ConstantsAssumption DEF TypeOK
  <2>2. CASE SetIfAbsent(r)
    BY <2>1, <2>2 DEF SetIfAbsent, StoredKeysLive
  <2>3. CASE ExpireIfOwned(r)
    BY <2>1, <2>3 DEF ExpireIfOwned, StoredKeysLive
  <2>4. CASE DeleteIfOwned(r) \/ UNCHANGED leaseVars
    BY <2>1, <2>4 DEF DeleteIfOwned, leaseVars, StoredKeysLive
  <2> QED
    BY <1>1, <2>2, <2>3, <2>4
<1>2. ASSUME NEW r \in Runs, Begin(r) \/ OperationReturns(r) \/ OperationRaises(r) \/ MainStep(r)
      PROVE  StoredKeysLive'
  <2>1. SetIfAbsent(r) \/ DeleteIfOwned(r) \/ UNCHANGED leaseVars
    BY <1>2 DEF Begin, OperationReturns, OperationRaises, MainStep, Acquire,
       AcquireRefused, AcquireFails, RecordSkip, StartHeartbeat, StartOperation,
       RecordSuccess, EmitFailure, RecordFailure, StopHeartbeat, JoinHeartbeat,
       Release, ReleaseFails
  <2> QED
    BY <1>1, <2>1
<1>3. ASSUME NEW r \in Runs, BeatStep(r) \/ SoftInterrupt(r) \/ HardKill(r) \/ Crash(r)
      PROVE  StoredKeysLive'
  <2>1. SetIfAbsent(r) \/ ExpireIfOwned(r) \/ DeleteIfOwned(r) \/ UNCHANGED leaseVars
    BY <1>3 DEF BeatStep, BeatDue, BeatStops, Renew, RenewFails, SoftInterrupt,
       HardKill, Crash, ProcessDies
  <2> QED
    BY <1>1, <2>1
<1>4. CASE Tick
  BY <1>4, ConstantsAssumption DEF Tick, TypeOK, StoredKeysLive
<1>5. CASE UNCHANGED vars
  BY <1>5 DEF vars, leaseVars, StoredKeysLive
<1> QED
  BY <1>2, <1>3, <1>4, <1>5 DEF Next

\* A lease changes hands only through its absence, and is deleted early only
\* by the run whose token it stores (locking.py:9-20).
THEOREM LeaseEndsByOwner == Spec => OnlyOwnerEndsLease
<1> DEFINE Ends ==
      \A s \in Sources : \A r \in Runs :
        owner[s] = r /\ owner'[s] # r =>
          /\ owner'[s] = NoRun
          /\ \/ ttl[s] = 1 /\ TimeMayPass /\ UNCHANGED pc
             \/ pc[r] = "release" /\ pc'[r] \in {"returned", "raised"}
<1>1. Init => StoredKeysLive
  BY DEF Init, StoredKeysLive
<1>2. TypeOK /\ OutcomeSettled /\ StoredKeysLive /\ [Next]_vars => [Ends]_vars
  <2> SUFFICES ASSUME TypeOK, OutcomeSettled, StoredKeysLive, Next,
                      NEW s \in Sources, NEW r \in Runs, owner[s] = r, owner'[s] # r
               PROVE  /\ owner'[s] = NoRun
                      /\ \/ ttl[s] = 1 /\ TimeMayPass /\ UNCHANGED pc
                         \/ pc[r] = "release" /\ pc'[r] \in {"returned", "raised"}
    BY Zenon
  <2> USE ConstantsAssumption
  <2>1. ASSUME NEW q \in Runs,
               SetIfAbsent(q) \/ ExpireIfOwned(q) \/ UNCHANGED leaseVars
        PROVE  FALSE
    BY <2>1 DEF TypeOK, SetIfAbsent, ExpireIfOwned, leaseVars
  <2>2. ASSUME NEW q \in Runs, DeleteIfOwned(q)
        PROVE  q = r /\ owner'[s] = NoRun
    BY <2>2 DEF TypeOK, DeleteIfOwned, leaseVars
  <2>3. ASSUME NEW q \in Runs, Begin(q) \/ OperationReturns(q) \/ OperationRaises(q) \/ MainStep(q)
        PROVE  /\ owner'[s] = NoRun
               /\ pc[r] = "release" /\ pc'[r] \in {"returned", "raised"}
    <3>1. CASE Release(q)
      <4>1. q = r /\ owner'[s] = NoRun
        BY <3>1, <2>2 DEF Release
      <4>2. pc[r] = "release" /\ pc'[r] = outcome[r]
        BY <3>1, <4>1 DEF Release, Move, TypeOK
      <4> QED
        BY <4>1, <4>2 DEF TypeOK, OutcomeSettled
    <3>2. CASE ReleaseFails(q)
      <4>1. q = r /\ owner'[s] = NoRun
        BY <3>2, <2>1, <2>2 DEF ReleaseFails
      <4> QED
        BY <3>2, <4>1 DEF ReleaseFails, Move, TypeOK
    <3>3. CASE ~Release(q) /\ ~ReleaseFails(q)
      <4>1. SetIfAbsent(q) \/ UNCHANGED leaseVars
        BY <2>3, <3>3 DEF Begin, OperationReturns, OperationRaises, MainStep,
           Acquire, AcquireRefused, AcquireFails, RecordSkip, StartHeartbeat,
           StartOperation, RecordSuccess, EmitFailure, RecordFailure,
           StopHeartbeat, JoinHeartbeat
      <4> QED
        BY <4>1, <2>1
    <3> QED
      BY <3>1, <3>2, <3>3
  <2>4. ASSUME NEW q \in Runs, SoftInterrupt(q)
        PROVE  /\ owner'[s] = NoRun
               /\ pc[r] = "release" /\ pc'[r] \in {"returned", "raised"}
    <3>1. pc[q] = "release" /\ DeleteIfOwned(q)
      BY <2>4, <2>1 DEF SoftInterrupt
    <3>2. q = r /\ owner'[s] = NoRun
      BY <3>1, <2>2
    <3> QED
      BY <2>4, <3>1, <3>2 DEF SoftInterrupt, Move, TypeOK
  <2>5. ASSUME NEW q \in Runs, BeatStep(q) \/ HardKill(q) \/ Crash(q)
        PROVE  FALSE
    <3>1. ExpireIfOwned(q) \/ UNCHANGED leaseVars
      BY <2>5 DEF BeatStep, BeatDue, BeatStops, Renew, RenewFails, HardKill,
         Crash, ProcessDies
    <3> QED
      BY <3>1, <2>1
  <2>6. CASE Tick
    <3>1. ttl[s] \in Nat /\ ttl[s] > 0
      BY DEF TypeOK, StoredKeysLive
    <3>2. owner'[s] = IF ttl[s] > 1 THEN owner[s] ELSE NoRun
      BY <2>6 DEF Tick
    <3>3. ttl[s] = 1 /\ owner'[s] = NoRun
      BY <3>1, <3>2
    <3> QED
      BY <2>6, <3>3 DEF Tick
  <2> QED
    BY <2>3, <2>4, <2>5, <2>6 DEF Next
<1> QED
  BY <1>1, <1>2, TypeInvariant, StoredKeysStep, PTL DEF Spec, OnlyOwnerEndsLease

-----------------------------------------------------------------------------
(* A run that returned is settled: its history, stage by stage.            *)

\* What the books and the threads of a run look like at its control point.
StageIsTold(r) ==
  /\ pc[r] \in {"idle", "acquire", "acquired", "started", "operate"} =>
       events[r] = <<>> /\ metrics[r] = <<>> /\ outcome[r] = "none"
  /\ pc[r] = "recordOk" =>
       events[r] = <<"run_finished">> /\ metrics[r] = <<>> /\ outcome[r] = "none"
  /\ pc[r] \in {"except", "recordFail"} => outcome[r] # "returned"
  /\ \/ pc[r] = "returned"
     \/ pc[r] \in {"stop", "join", "release"} /\ outcome[r] = "returned"
     => events[r] = <<"run_finished">> /\ metrics[r] = <<"succeeded">>
  /\ pc[r] \in {"release", "returned"} => beat[r] = "dead"
  /\ pc[r] = "returned" => owner[SourceOf[r]] # r

\* A step of another run gives this one no lease and tells nothing of it.
LEMMA OthersTellNothing ==
  ASSUME TypeOK, NEW r \in Runs, StageIsTold(r), NEW q \in Runs, q # r,
         \/ Begin(q) \/ OperationReturns(q) \/ OperationRaises(q) \/ MainStep(q)
         \/ BeatStep(q) \/ SoftInterrupt(q) \/ HardKill(q) \/ Crash(q)
  PROVE  StageIsTold(r)'
<1> USE DEF TypeOK, leaseVars, beatVars, limitVars, logVars
<1>1. owner'[SourceOf[r]] = r => owner[SourceOf[r]] = r
  <2>1. SetIfAbsent(q) \/ ExpireIfOwned(q) \/ DeleteIfOwned(q) \/ UNCHANGED leaseVars
    BY DEF Begin, OperationReturns, OperationRaises, MainStep, Acquire, AcquireRefused,
       AcquireFails, RecordSkip, StartHeartbeat, StartOperation, RecordSuccess, EmitFailure,
       RecordFailure, StopHeartbeat, JoinHeartbeat, Release, ReleaseFails, BeatStep, BeatDue,
       BeatStops, Renew, RenewFails, SoftInterrupt, HardKill, Crash, ProcessDies
  <2> QED
    BY <2>1, ConstantsAssumption DEF SetIfAbsent, ExpireIfOwned, DeleteIfOwned
<1>2. /\ pc'[r] = pc[r] /\ outcome'[r] = outcome[r] /\ beat'[r] = beat[r]
      /\ events'[r] = events[r] /\ metrics'[r] = metrics[r]
  BY DEF Begin, OperationReturns, OperationRaises, MainStep, Acquire, AcquireRefused,
     AcquireFails, RecordSkip, StartHeartbeat, StartOperation, RecordSuccess, EmitFailure,
     RecordFailure, StopHeartbeat, JoinHeartbeat, Release, ReleaseFails, BeatStep, BeatDue,
     BeatStops, Renew, RenewFails, SoftInterrupt, HardKill, Crash, ProcessDies, Move, Emit, Count
<1> QED
  BY <1>1, <1>2 DEF StageIsTold

\* The main thread of the run tells each stage, and stops its heartbeat before
\* it gives its lease back.
LEMMA MainTells ==
  ASSUME TypeOK, OutcomeSettled, NEW r \in Runs, StageIsTold(r),
         Begin(r) \/ OperationReturns(r) \/ OperationRaises(r) \/ MainStep(r)
  PROVE  StageIsTold(r)'
<1> USE DEF TypeOK, leaseVars, beatVars, limitVars, logVars, StageIsTold, Move
<1>1. \A e : Append(<<>>, e) = <<e>>
  OBVIOUS
<1>2. CASE \/ Begin(r) \/ OperationRaises(r) \/ Acquire(r) \/ AcquireRefused(r)
           \/ AcquireFails(r) \/ RecordSkip(r) \/ StartHeartbeat(r) \/ StartOperation(r)
  BY <1>2 DEF Begin, OperationRaises, Acquire, AcquireRefused, AcquireFails, RecordSkip,
     StartHeartbeat, StartOperation
<1>3. CASE OperationReturns(r)
  BY <1>1, <1>3 DEF OperationReturns, Emit
<1>4. CASE RecordSuccess(r)
  BY <1>1, <1>4 DEF RecordSuccess, Count
<1>5. CASE \/ EmitFailure(r) \/ RecordFailure(r) \/ StopHeartbeat(r) \/ JoinHeartbeat(r)
           \/ ReleaseFails(r)
  BY <1>5 DEF EmitFailure, RecordFailure, StopHeartbeat, JoinHeartbeat, ReleaseFails
<1>6. CASE Release(r)
  <2>1. owner'[SourceOf[r]] # r
    <3>1. SourceOf[r] \in Sources /\ NoRun # r /\ DeleteIfOwned(r)
      BY <1>6, ConstantsAssumption DEF Release
    <3>2. CASE owner[SourceOf[r]] = r
      BY <3>1, <3>2 DEF DeleteIfOwned
    <3>3. CASE owner[SourceOf[r]] # r
      BY <3>1, <3>3 DEF DeleteIfOwned
    <3> QED
      BY <3>2, <3>3
  <2>2. /\ pc' = [pc EXCEPT ![r] = outcome[r]] /\ outcome[r] \in {"returned", "raised"}
        /\ pc[r] = "release" /\ UNCHANGED <<outcome, beat, events, metrics>>
    BY <1>6 DEF Release, OutcomeSettled
  <2> QED
    BY <2>1, <2>2
<1> QED
  BY <1>2, <1>3, <1>4, <1>5, <1>6 DEF MainStep

\* The heartbeat, the limits and a death return nothing; a thread that ended
\* does not come back.
LEMMA ThreadTells ==
  ASSUME TypeOK, NEW r \in Runs, StageIsTold(r),
         BeatStep(r) \/ SoftInterrupt(r) \/ HardKill(r) \/ Crash(r)
  PROVE  StageIsTold(r)'
<1> USE DEF TypeOK, leaseVars, beatVars, limitVars, logVars, StageIsTold
<1>1. CASE BeatStep(r)
  <2>1. beat[r] # "dead" /\ UNCHANGED <<pc, outcome, events, metrics>>
    BY <1>1 DEF BeatStep, BeatDue, BeatStops, Renew, RenewFails
  <2> QED
    BY <2>1
<1>2. CASE SoftInterrupt(r)
  <2>1. /\ pc'[r] \in {"raised", "except", "stop"} /\ outcome'[r] = "raised"
        /\ UNCHANGED <<beat, events>>
    BY <1>2 DEF SoftInterrupt, Move
  <2> QED
    BY <2>1
<1>3. CASE HardKill(r) \/ Crash(r)
  <2>1. /\ pc' = [pc EXCEPT ![r] = IF Live(r) THEN "killed" ELSE @]
        /\ beat'[r] = "dead" /\ UNCHANGED <<outcome, owner, events, metrics>>
    BY <1>3 DEF HardKill, Crash, ProcessDies
  <2>2. pc'[r] = IF Live(r) THEN "killed" ELSE pc[r]
    BY <2>1
  <2>3. CASE Live(r)
    BY <2>1, <2>2, <2>3
  <2>4. CASE ~Live(r)
    BY <2>1, <2>2, <2>4
  <2> QED
    BY <2>3, <2>4
<1> QED
  BY <1>1, <1>2, <1>3

\* A run that returned its result is on the books once, as a success, and
\* neither its heartbeat nor its lease is left (tasks.py:136-168).
THEOREM ReturnedIsSettled == Spec => []ReturnedRunIsSettled
<1> DEFINE Told == \A r \in Runs : StageIsTold(r)
<1>1. Init => Told
  BY DEF Init, StageIsTold
<1>2. TypeOK /\ OutcomeSettled /\ Told /\ [Next]_vars => Told'
  <2> SUFFICES ASSUME TypeOK, OutcomeSettled, Told, [Next]_vars, NEW r \in Runs
               PROVE  StageIsTold(r)'
    OBVIOUS
  <2>1. StageIsTold(r)
    OBVIOUS
  <2>2. CASE Tick
    <3>1. /\ owner'[SourceOf[r]] \in {owner[SourceOf[r]], NoRun} /\ NoRun # r
          /\ UNCHANGED <<pc, outcome, beat, events, metrics>>
      BY <2>2, ConstantsAssumption DEF Tick, logVars
    <3> QED
      BY <2>1, <3>1 DEF StageIsTold
  <2>3. CASE UNCHANGED vars
    BY <2>1, <2>3 DEF StageIsTold, vars, leaseVars, beatVars, logVars
  <2>4. ASSUME NEW q \in Runs,
               \/ Begin(q) \/ OperationReturns(q) \/ OperationRaises(q) \/ MainStep(q)
               \/ BeatStep(q) \/ SoftInterrupt(q) \/ HardKill(q) \/ Crash(q)
        PROVE  StageIsTold(r)'
    <3>1. CASE q = r
      BY <2>1, <2>4, <3>1, MainTells, ThreadTells
    <3>2. CASE q # r
      BY <2>1, <2>4, <3>2, OthersTellNothing
    <3> QED
      BY <3>1, <3>2
  <2> QED
    BY <2>2, <2>3, <2>4 DEF Next
<1>3. Told => ReturnedRunIsSettled
  BY DEF ReturnedRunIsSettled, StageIsTold, Beating
<1> QED
  BY <1>1, <1>2, <1>3, TypeInvariant, PTL DEF Spec
=============================================================================
