-------------------------- MODULE TaskDeliveryProofs --------------------------
(***************************************************************************)
(* Theorems about TaskDelivery for any messages, runs and limits.          *)
(***************************************************************************)
EXTENDS TaskDelivery, SourceLeaseProofs

-----------------------------------------------------------------------------
(* The queue only decides when runs begin and die: under it, the lease     *)
(* protocol keeps all that SourceLeaseProofs shows.                        *)

\* A delivery starts a run of the source that has not begun.
LEMMA FreshIsIdle ==
  ASSUME NEW s \in Sources, Idle(s) # {}
  PROVE  Fresh(s) \in Runs /\ pc[Fresh(s)] = "idle" /\ SourceOf[Fresh(s)] = s
  BY DEF Fresh, Idle

\* Every step of the queue and its workers is a step of the runs, or none.
LEMMA DeliveryStep == ASSUME [DeliveryNext]_deliveryVars PROVE [Next]_vars
<1>1. ASSUME NEW m \in Messages, Publish(m) \/ Deliver(m) PROVE [Next]_vars
  <2>1. CASE Publish(m)
    BY <2>1 DEF Publish
  <2>2. CASE Deliver(m)
    <3>1. MessageSource[m] \in Sources
      BY DeliveryAssumption
    <3>2. Fresh(MessageSource[m]) \in Runs /\ Begin(Fresh(MessageSource[m]))
      BY <2>2, <3>1, FreshIsIdle DEF Deliver
    <3> QED
      BY <3>2 DEF Next
  <2> QED
    BY <1>1, <2>1, <2>2
<1>2. ASSUME NEW r \in Runs, GiveBack(r) \/ Ack(r) \/ Retry(r) PROVE [Next]_vars
  BY <1>2 DEF GiveBack, Ack, Retry
<1>3. ASSUME NEW r \in Runs, RunStep(r) \/ KillAtLimit(r) \/ WorkerDies(r) PROVE [Next]_vars
  BY <1>3 DEF RunStep, KillAtLimit, WorkerDies, Next
<1>4. CASE TimePasses
  BY <1>4 DEF TimePasses, Next
<1>5. CASE UNCHANGED deliveryVars
  BY <1>5 DEF deliveryVars
<1> QED
  BY <1>1, <1>2, <1>3, <1>4, <1>5 DEF DeliveryNext

\* What the workers do with the messages of a queue is a behaviour of the
\* lease protocol: every delivery, redelivery and retry is a run of its own.
THEOREM DeliveryImplementsLease == DeliverySpec => Spec
<1>1. DeliveryInit => Init
  BY DEF DeliveryInit
<1> QED
  BY <1>1, DeliveryStep, PTL DEF DeliverySpec, Spec

\* Redeliveries of a task that still runs, retries and dying workers never let
\* an operation run without its lease (tasks.py:110, queueing.py:47-56).
THEOREM DeliveredOperationIsCovered ==
  ASSUME Limited, HardLimit < LeaseTtl
  PROVE  DeliverySpec => []OperationHoldsLease
  BY DeliveryImplementsLease, OperationIsCovered, PTL

-----------------------------------------------------------------------------
(* Type correctness of the broker.  A run that was started carries a       *)
(* message that was sent, and for its own source.                          *)

BrokerInvariant ==
  /\ BrokerTypeOK
  /\ \A m \in Messages : queued[m] > 0 => m \in published
  /\ \A r \in Runs : pc[r] # "idle" => carries[r] \in For(SourceOf[r])
  /\ \A r \in unacked : pc[r] # "idle"

\* A step of a run moves this run only, and does not begin it; a run that is
\* refused met the lease of another.
LEMMA RunMoves ==
  ASSUME TypeOK, NEW r \in Runs, RunStep(r)
  PROVE  /\ \A q \in Runs : pc'[q] # pc[q] => q = r
         /\ \A q \in Runs : pc'[q] = "idle" <=> pc[q] = "idle"
         /\ pc'[r] \in {"skip", "skipped"} =>
              \/ pc[r] \in {"skip", "skipped"}
              \/ pc[r] = "acquire" /\ pc'[r] = "skip" /\ owner[SourceOf[r]] \in Runs
<1>0. owner[SourceOf[r]] \in Runs \cup {NoRun}
  BY ConstantsAssumption DEF TypeOK
<1> USE DEF Move
<1>1. CASE OperationReturns(r) \/ OperationRaises(r) \/ SoftInterrupt(r)
  BY <1>1 DEF TypeOK, OperationReturns, OperationRaises, SoftInterrupt
<1>2. CASE BeatStep(r)
  BY <1>2 DEF BeatStep, BeatDue, BeatStops, Renew, RenewFails
<1>3. CASE AcquireRefused(r)
  BY <1>0, <1>3 DEF TypeOK, AcquireRefused
<1>4. CASE Release(r)
  BY <1>4 DEF TypeOK, Release
<1>5. CASE MainStep(r) /\ ~AcquireRefused(r) /\ ~Release(r)
  BY <1>5 DEF TypeOK, MainStep, Acquire, AcquireFails, RecordSkip, StartHeartbeat, StartOperation,
     RecordSuccess, EmitFailure, RecordFailure, StopHeartbeat, JoinHeartbeat, ReleaseFails
<1> QED
  BY <1>1, <1>2, <1>3, <1>4, <1>5 DEF RunStep

\* A death changes no more than the control point of the run that dies.
LEMMA DeathMoves ==
  ASSUME TypeOK, NEW r \in Runs, HardKill(r) \/ Crash(r)
  PROVE  /\ \A q \in Runs : pc'[q] # pc[q] => q = r /\ pc'[q] = "killed" /\ Live(q)
         /\ \A q \in Runs : pc'[q] = "idle" <=> pc[q] = "idle"
         /\ owner' = owner
<1>1. pc' = [pc EXCEPT ![r] = IF Live(r) THEN "killed" ELSE @] /\ owner' = owner
  BY DEF HardKill, Crash, ProcessDies, leaseVars
<1> QED
  BY <1>1 DEF TypeOK, Live, Ended

\* Every step keeps the queue and its deliveries sound.
LEMMA BrokerStep ==
  ASSUME TypeOK, BrokerInvariant, [DeliveryNext]_deliveryVars PROVE BrokerInvariant'
<1> USE DeliveryAssumption DEF BrokerInvariant, BrokerTypeOK, For
<1>1. ASSUME NEW m \in Messages, Publish(m) PROVE BrokerInvariant'
  BY <1>1 DEF Publish, vars
<1>2. ASSUME NEW m \in Messages, Deliver(m) PROVE BrokerInvariant'
  <2> DEFINE f == Fresh(MessageSource[m])
  <2>1. f \in Runs /\ pc[f] = "idle" /\ SourceOf[f] = MessageSource[m]
    BY <1>2, FreshIsIdle DEF Deliver
  <2>2. pc' = [pc EXCEPT ![f] = "acquire"]
    BY <1>2 DEF Deliver, Begin, Move
  <2>3. /\ queued[m] > 0 /\ queued' = [queued EXCEPT ![m] = @ - 1]
        /\ carries' = [carries EXCEPT ![f] = m] /\ unacked' = unacked \cup {f}
        /\ UNCHANGED <<published, retries, served, refused, extra, crashes>>
    BY <1>2 DEF Deliver
  <2> HIDE DEF f
  <2>4. BrokerTypeOK'
    <3>1. queued' \in [Messages -> Nat]
      BY <2>3
    <3>2. carries' \in [Runs -> Messages \cup {NoMessage}]
      BY <2>1, <2>3
    <3> QED
      BY <2>1, <2>3, <3>1, <3>2
  <2> QED
    BY <2>1, <2>2, <2>3, <2>4 DEF TypeOK
<1>3. ASSUME NEW r \in Runs, GiveBack(r) PROVE BrokerInvariant'
  <2>1. carries[r] \in published /\ carries[r] \in Messages /\ pc' = pc
    BY <1>3 DEF GiveBack, vars
  <2> QED
    BY <1>3, <2>1 DEF GiveBack
<1>4. ASSUME NEW r \in Runs, Ack(r) PROVE BrokerInvariant'
  BY <1>4 DEF Ack, vars
<1>5. ASSUME NEW r \in Runs, Retry(r) PROVE BrokerInvariant'
  <2>1. carries[r] \in published /\ carries[r] \in Messages /\ pc' = pc
    BY <1>5 DEF Retry, vars
  <2> QED
    BY <1>5, <2>1 DEF Retry
<1>6. ASSUME NEW r \in Runs, RunStep(r) PROVE BrokerInvariant'
  <2>1. UNCHANGED brokerVars
    BY <1>6 DEF RunStep, Note
  <2>2. served' \subseteq published
    BY <1>6 DEF RunStep, Note
  <2>3. refused' \subseteq published \X Runs
    <3>1. CASE pc[r] = "acquire" /\ pc'[r] = "skip"
      <4>1. owner[SourceOf[r]] \in Runs /\ carries[r] \in published
        BY <1>6, <3>1, RunMoves
      <4> QED
        BY <1>6, <3>1, <4>1 DEF RunStep, Note
    <3>2. CASE ~(pc[r] = "acquire" /\ pc'[r] = "skip")
      BY <1>6, <3>2 DEF RunStep, Note
    <3> QED
      BY <3>1, <3>2
  <2>4. \A q \in Runs : pc'[q] # "idle" => pc[q] # "idle"
    BY <1>6, RunMoves
  <2>5. UNCHANGED <<published, queued, carries, retries, unacked, extra, crashes>>
    BY <2>1 DEF brokerVars
  <2>6. BrokerTypeOK'
    BY <2>2, <2>3, <2>5
  <2>7. \A q \in Runs : pc'[q] # "idle" => carries'[q] \in For(SourceOf[q])'
    BY <2>4, <2>5
  <2>8. \A q \in unacked' : pc'[q] # "idle"
    <3>1. ASSUME NEW q \in unacked PROVE pc'[q] # "idle"
      <4>1. pc[q] # "idle" /\ q \in Runs
        OBVIOUS
      <4> QED
        BY <1>6, <4>1, RunMoves
    <3> QED
      BY <3>1, <2>5
  <2> QED
    BY <2>5, <2>6, <2>7, <2>8
<1>7. ASSUME NEW r \in Runs, KillAtLimit(r) \/ WorkerDies(r) PROVE BrokerInvariant'
  <2>1. \A q \in Runs : /\ pc'[q] # "idle" => pc[q] # "idle"
                        /\ pc'[q] # pc[q] => pc'[q] = "killed"
    BY <1>7, DeathMoves DEF KillAtLimit, WorkerDies
  <2> QED
    BY <1>7, <2>1 DEF KillAtLimit, WorkerDies
<1>8. CASE TimePasses
  BY <1>8 DEF TimePasses, Tick, brokerVars
<1>9. CASE UNCHANGED deliveryVars
  BY <1>9 DEF deliveryVars, brokerVars, vars
<1> QED
  BY <1>1, <1>2, <1>3, <1>4, <1>5, <1>6, <1>7, <1>8, <1>9 DEF DeliveryNext

\* The invariant of the queue and its deliveries in every reachable state.
LEMMA BrokerIsSound == DeliverySpec => [](TypeOK /\ OutcomeSettled /\ BrokerInvariant)
<1>1. DeliveryInit => BrokerInvariant
  BY DeliveryAssumption DEF DeliveryInit, Init, BrokerInvariant, BrokerTypeOK
<1> QED
  BY <1>1, DeliveryImplementsLease, TypeInvariant, BrokerStep, PTL DEF DeliverySpec

\* The queue, the deliveries and their history stay within their types.
THEOREM BrokerTypeCorrect == DeliverySpec => []BrokerTypeOK
<1>1. BrokerInvariant => BrokerTypeOK
  BY DEF BrokerInvariant
<1> QED
  BY <1>1, BrokerIsSound, PTL

-----------------------------------------------------------------------------
(* What becomes of a message.  A run that returned left no lease, so a       *)
(* delivery is refused for a run that is under way, that died or that        *)
(* raised; and every copy of a message goes on being one until an outcome or *)
(* a refusal.                                                                *)

Guarded == {"operate", "recordOk", "except", "recordFail"}
Holding == Guarded \cup {"acquired", "started", "stop", "join", "release"}
Left == {"killed", "raised"}

OwnersHold ==
  \A s \in Sources : \A o \in Runs :
    owner[s] = o => SourceOf[o] = s /\ pc[o] \in Holding \cup Left

OutcomesServe ==
  \A r \in unacked : pc[r] \in {"returned", "raised"} => carries[r] \in served

SkipsAreRefused ==
  \A r \in Runs : pc[r] \in {"skip", "skipped"} =>
    \E o \in Runs : <<carries[r], o>> \in refused

RefusersHold ==
  \A m \in Messages, o \in Runs : <<m, o>> \in refused =>
    /\ SourceOf[o] = MessageSource[m]
    /\ pc[o] \in Holding \cup Left \/ m \in served

\* A message that was sent and not served is queued, delivered or refused.
CopyRemains ==
  \A m \in published :
    \/ queued[m] > 0 \/ m \in served
    \/ \E r \in unacked : carries[r] = m
    \/ \E o \in Runs : <<m, o>> \in refused

LossInvariant ==
  OwnersHold /\ OutcomesServe /\ SkipsAreRefused /\ RefusersHold /\ CopyRemains

\* A move that leaves the leases alone and ends a stretch that holds one only by
\* raising.
LEMMA PlainMove ==
  ASSUME TypeOK, OwnersHold, NEW r \in Runs, NEW from, NEW to,
         Move(r, from, to), owner' = owner,
         from \notin Ended, from \in Holding => to \in Holding \cup {"raised"}
  PROVE  /\ pc[r] \in Holding => pc'[r] \in Holding \cup {"returned", "raised"}
         /\ pc[r] \notin Ended
         /\ OwnersHold'
<1>1. /\ pc[r] = from /\ pc' = [pc EXCEPT ![r] = to]
      /\ from \notin Left /\ "raised" \in Left
  BY DEF Move, Ended, Left
<1> QED
  BY <1>1 DEF TypeOK, OwnersHold

\* A move that takes the lease, whether its run learns of it or not.
LEMMA TakingMove ==
  ASSUME TypeOK, OwnersHold, NEW r \in Runs, NEW to,
         Move(r, "acquire", to), SetIfAbsent(r), to \in {"acquired", "raised"}
  PROVE  /\ pc[r] \notin Holding /\ pc[r] \notin Ended
         /\ OwnersHold'
<1>1. /\ SourceOf[r] \in Sources /\ NoRun \notin Runs
      /\ pc[r] = "acquire" /\ pc' = [pc EXCEPT ![r] = to]
      /\ owner[SourceOf[r]] = NoRun /\ owner' = [owner EXCEPT ![SourceOf[r]] = r]
  BY ConstantsAssumption DEF SetIfAbsent, Move
<1>2. pc[r] \notin Holding /\ pc[r] \notin Ended /\ to \in Holding \cup Left
  BY <1>1 DEF Holding, Guarded, Ended, Left
<1>3. ASSUME NEW s \in Sources, NEW o \in Runs, owner'[s] = o
      PROVE  SourceOf[o] = s /\ pc'[o] \in Holding \cup Left
  <2>1. CASE s = SourceOf[r]
    <3>1. o = r /\ pc'[o] = to
      BY <1>1, <1>3, <2>1 DEF TypeOK
    <3> QED
      BY <1>2, <2>1, <3>1
  <2>2. CASE s # SourceOf[r]
    <3>1. owner[s] = o /\ SourceOf[o] = s /\ pc[o] \in Holding \cup Left
      BY <1>1, <1>3, <2>2 DEF TypeOK, OwnersHold
    <3>2. pc'[o] = pc[o]
      BY <1>1, <2>2, <3>1 DEF TypeOK
    <3> QED
      BY <3>1, <3>2
  <2> QED
    BY <2>1, <2>2
<1> QED
  BY <1>2, <1>3 DEF OwnersHold

\* A move that deletes the lease, whether its run learns of it or not.
LEMMA FreeingMove ==
  ASSUME TypeOK, OwnersHold, NEW r \in Runs, NEW to,
         Move(r, "release", to), DeleteIfOwned(r), to \in {"returned", "raised"}
  PROVE  /\ pc'[r] = to /\ pc[r] \notin Ended
         /\ OwnersHold'
<1>1. /\ SourceOf[r] \in Sources /\ NoRun \notin Runs
      /\ pc[r] = "release" /\ pc' = [pc EXCEPT ![r] = to]
  BY ConstantsAssumption DEF Move
<1>2. /\ owner' = [owner EXCEPT ![SourceOf[r]] = NoRun] \/ owner' = owner
      /\ owner'[SourceOf[r]] # r
  BY <1>1 DEF DeleteIfOwned, leaseVars, TypeOK
<1>3. ASSUME NEW s \in Sources, NEW o \in Runs, owner'[s] = o
      PROVE  SourceOf[o] = s /\ pc'[o] \in Holding \cup Left
  <2>1. owner[s] = o
    BY <1>1, <1>2, <1>3 DEF TypeOK
  <2>2. SourceOf[o] = s /\ pc[o] \in Holding \cup Left
    BY <2>1 DEF OwnersHold
  <2>3. o # r
    BY <1>2, <1>3, <2>2
  <2> QED
    BY <1>1, <2>2, <2>3 DEF TypeOK
<1> QED
  BY <1>1, <1>3 DEF TypeOK, Ended, OwnersHold

\* A run holds its lease until it frees it or raises, and what has ended stays so.
LEMMA RunHolds ==
  ASSUME TypeOK, OutcomeSettled, OwnersHold, NEW r \in Runs, RunStep(r)
  PROVE  /\ pc[r] \in Holding => pc'[r] \in Holding \cup {"returned", "raised"}
         /\ pc[r] \in Ended => pc'[r] = pc[r]
         /\ OwnersHold'
<1> DEFINE Plain(from, to) == Move(r, from, to) /\ owner' = owner
           Takes(to) == Move(r, "acquire", to) /\ SetIfAbsent(r)
           Frees(to) == Move(r, "release", to) /\ DeleteIfOwned(r)
<1>1. ASSUME NEW from, NEW to, Plain(from, to), from \notin Ended,
             from \in Holding => to \in Holding \cup {"raised"}
      PROVE  /\ pc[r] \in Holding => pc'[r] \in Holding \cup {"returned", "raised"}
             /\ pc[r] \notin Ended
             /\ OwnersHold'
  BY <1>1, PlainMove
<1>2. ASSUME NEW to \in {"acquired", "raised"}, Takes(to)
      PROVE  pc[r] \notin Holding /\ pc[r] \notin Ended /\ OwnersHold'
  BY <1>2, TakingMove
<1>3. ASSUME NEW to \in {"returned", "raised"}, Frees(to)
      PROVE  pc'[r] \in {"returned", "raised"} /\ pc[r] \notin Ended /\ OwnersHold'
  BY <1>3, FreeingMove
<1> HIDE DEF Plain, Takes, Frees
<1>4. CASE Acquire(r) \/ AcquireFails(r)
  <2>1. Takes("acquired") \/ Takes("raised") \/ Plain("acquire", "raised")
    BY <1>4 DEF Acquire, AcquireFails, Takes, Plain, leaseVars
  <2>2. "acquire" \notin Holding /\ "acquire" \notin Ended
    BY DEF Holding, Guarded, Ended
  <2> QED
    BY <1>1, <1>2, <2>1, <2>2
<1>5. CASE Release(r) \/ ReleaseFails(r)
  <2>1. Frees(outcome[r]) \/ Frees("raised") \/ Plain("release", "raised")
    BY <1>5 DEF Release, ReleaseFails, Frees, Plain, leaseVars
  <2>2. Frees(outcome[r]) => outcome[r] \in {"returned", "raised"}
    BY DEF Frees, Move, TypeOK, OutcomeSettled
  <2>3. "release" \in Holding /\ "release" \notin Ended
    BY DEF Holding, Ended
  <2> QED
    BY <1>1, <1>3, <2>1, <2>2, <2>3
<1>6. CASE SoftInterrupt(r)
  <2>1. \/ Takes("raised") \/ Frees("raised")
        \/ \E from \in {"acquire", "acquired", "started", "stop", "join", "release", "skip"} :
              Plain(from, "raised")
        \/ \E from \in Guarded : Plain(from, "except") \/ Plain(from, "stop")
    BY <1>6 DEF SoftInterrupt, Takes, Frees, Plain, Move, Guarded, leaseVars
  <2> QED
    BY <1>1, <1>2, <1>3, <2>1 DEF Guarded, Holding, Ended
<1>7. CASE BeatStep(r)
  <2>1. pc' = pc /\ owner' = owner
    BY <1>7 DEF BeatStep, BeatDue, BeatStops, Renew, RenewFails, ExpireIfOwned, leaseVars
  <2> QED
    BY <2>1 DEF OwnersHold
<1>8. CASE OperationReturns(r) \/ OperationRaises(r)
  <2>1. Plain("operate", "recordOk") \/ Plain("operate", "except")
    BY <1>8 DEF OperationReturns, OperationRaises, Plain, leaseVars
  <2> QED
    BY <1>1, <2>1 DEF Guarded, Holding, Ended
<1>9. CASE MainStep(r) /\ ~(Acquire(r) \/ AcquireFails(r)) /\ ~(Release(r) \/ ReleaseFails(r))
  <2>1. \/ Plain("acquire", "skip") \/ Plain("skip", "skipped") \/ Plain("skip", "raised")
        \/ Plain("acquired", "started") \/ Plain("started", "operate")
        \/ Plain("recordOk", "stop") \/ Plain("recordOk", "except")
        \/ Plain("except", "recordFail") \/ Plain("recordFail", "stop")
        \/ Plain("stop", "join") \/ Plain("join", "release")
    BY <1>9 DEF MainStep, AcquireRefused, RecordSkip, StartHeartbeat, StartOperation,
       RecordSuccess, EmitFailure, RecordFailure, StopHeartbeat, JoinHeartbeat, Plain, leaseVars
  <2> QED
    BY <1>1, <2>1 DEF Guarded, Holding, Ended
<1> QED
  BY <1>4, <1>5, <1>6, <1>7, <1>8, <1>9 DEF RunStep

\* An outcome serves every message sent for the source of its run.
LEMMA RunStepKeeps ==
  ASSUME TypeOK, OutcomeSettled, BrokerInvariant, LossInvariant, NEW r \in Runs, RunStep(r)
  PROVE  LossInvariant'
<1>1. /\ UNCHANGED <<published, queued, carries, unacked>>
      /\ served \subseteq served' /\ refused \subseteq refused'
  BY DEF RunStep, Note, brokerVars
<1>2. pc[r] # pc'[r] /\ pc'[r] \in {"returned", "raised"} => For(SourceOf[r]) \subseteq served'
  BY DEF RunStep, Note
<1>3. \A q \in Runs \ {r} : pc'[q] = pc[q]
  BY RunMoves
<1>4. pc[r] # "idle" => carries[r] \in For(SourceOf[r])
  BY DEF BrokerInvariant
<1>5. OwnersHold'
  BY RunHolds DEF LossInvariant
<1>6. OutcomesServe'
  <2> SUFFICES ASSUME NEW q \in unacked, pc'[q] \in {"returned", "raised"}
               PROVE  carries[q] \in served'
    BY <1>1 DEF OutcomesServe
  <2>1. q \in Runs /\ pc[q] # "idle"
    BY DEF BrokerInvariant, BrokerTypeOK
  <2>2. CASE pc'[q] = pc[q]
    BY <1>1, <2>2 DEF LossInvariant, OutcomesServe
  <2>3. CASE pc'[q] # pc[q]
    BY <1>2, <1>3, <1>4, <2>1, <2>3
  <2> QED
    BY <2>2, <2>3
<1>7. SkipsAreRefused'
  <2> SUFFICES ASSUME NEW q \in Runs, pc'[q] \in {"skip", "skipped"}
               PROVE  \E o \in Runs : <<carries[q], o>> \in refused'
    BY <1>1 DEF SkipsAreRefused
  <2>1. CASE pc[q] \in {"skip", "skipped"}
    BY <1>1, <2>1 DEF LossInvariant, SkipsAreRefused
  <2>2. CASE pc[q] \notin {"skip", "skipped"}
    <3>1. q = r /\ pc[r] = "acquire" /\ pc'[r] = "skip" /\ owner[SourceOf[r]] \in Runs
      BY <1>3, <2>2, RunMoves
    <3>2. <<carries[r], owner[SourceOf[r]]>> \in refused'
      BY <3>1 DEF RunStep, Note
    <3> QED
      BY <3>1, <3>2
  <2> QED
    BY <2>1, <2>2
<1>8. RefusersHold'
  <2> SUFFICES ASSUME NEW m \in Messages, NEW o \in Runs, <<m, o>> \in refused'
               PROVE  /\ SourceOf[o] = MessageSource[m]
                      /\ pc'[o] \in Holding \cup Left \/ m \in served'
    BY DEF RefusersHold
  <2>1. /\ SourceOf[o] = MessageSource[m] /\ m \in published
        /\ pc[o] \in Holding \cup Left \/ m \in served
    <3>1. CASE <<m, o>> \in refused
      BY <3>1 DEF LossInvariant, RefusersHold, BrokerInvariant, BrokerTypeOK
    <3>2. CASE <<m, o>> \notin refused
      <4>1. pc[r] = "acquire" /\ pc'[r] = "skip" /\ m = carries[r] /\ o = owner[SourceOf[r]]
        BY <3>2 DEF RunStep, Note
      <4>2. m \in published /\ MessageSource[m] = SourceOf[r]
        BY <1>4, <4>1 DEF For
      <4>3. SourceOf[o] = SourceOf[r] /\ pc[o] \in Holding \cup Left
        BY <4>1, ConstantsAssumption DEF LossInvariant, OwnersHold
      <4> QED
        BY <4>2, <4>3
    <3> QED
      BY <3>1, <3>2
  <2>2. CASE o = r /\ pc[r] \in Holding /\ pc'[r] \notin Holding
    <3>1. pc'[r] \in {"returned", "raised"} /\ pc'[r] # pc[r]
      BY <2>2, RunHolds DEF LossInvariant
    <3> QED
      BY <1>2, <2>1, <2>2, <3>1 DEF For
  <2>3. CASE ~(o = r /\ pc[r] \in Holding /\ pc'[r] \notin Holding)
    <3>1. pc[r] \in Left => pc'[r] = pc[r]
      BY RunHolds DEF LossInvariant, Ended, Left
    <3> QED
      BY <1>1, <1>3, <2>1, <2>3, <3>1
  <2> QED
    BY <2>2, <2>3
<1>9. CopyRemains'
  BY <1>1 DEF LossInvariant, CopyRemains
<1> QED
  BY <1>5, <1>6, <1>7, <1>8, <1>9 DEF LossInvariant

\* A death leaves the messages of its run unacknowledged, or reported.
LEMMA DeathKeeps ==
  ASSUME TypeOK, BrokerInvariant, LossInvariant,
         NEW r \in Runs, KillAtLimit(r) \/ WorkerDies(r)
  PROVE  LossInvariant'
<1>1. /\ UNCHANGED <<published, queued, carries, refused>>
      /\ served \subseteq served' /\ unacked' \subseteq unacked
      /\ r \notin unacked' => unacked' = unacked \/ For(SourceOf[r]) \subseteq served'
      /\ \A q \in unacked : q # r => q \in unacked'
  BY DEF KillAtLimit, WorkerDies
<1>2. /\ \A q \in Runs : pc'[q] # pc[q] => q = r /\ pc'[q] = "killed"
      /\ owner' = owner
  BY DeathMoves DEF KillAtLimit, WorkerDies
<1>3. OwnersHold' /\ SkipsAreRefused' /\ RefusersHold'
  BY <1>1, <1>2 DEF LossInvariant, OwnersHold, SkipsAreRefused, RefusersHold, Left
<1>4. OutcomesServe'
  BY <1>1, <1>2 DEF LossInvariant, OutcomesServe, BrokerInvariant, BrokerTypeOK
<1>5. CopyRemains'
  <2> SUFFICES ASSUME NEW m \in published
               PROVE  \/ queued[m] > 0 \/ m \in served'
                      \/ \E q \in unacked' : carries[q] = m
                      \/ \E o \in Runs : <<m, o>> \in refused
    BY <1>1 DEF CopyRemains
  <2>1. CASE \E q \in unacked : carries[q] = m
    <3>1. PICK q \in unacked : carries[q] = m
      BY <2>1
    <3>2. CASE q \in unacked'
      BY <3>1, <3>2
    <3>3. CASE q \notin unacked'
      <4>1. q = r /\ For(SourceOf[r]) \subseteq served'
        BY <1>1, <3>1, <3>3
      <4>2. m \in For(SourceOf[r])
        BY <3>1, <4>1 DEF BrokerInvariant, BrokerTypeOK
      <4> QED
        BY <4>1, <4>2
    <3> QED
      BY <3>2, <3>3
  <2>2. CASE ~\E q \in unacked : carries[q] = m
    BY <1>1, <2>2 DEF LossInvariant, CopyRemains
  <2> QED
    BY <2>1, <2>2
<1> QED
  BY <1>3, <1>4, <1>5 DEF LossInvariant

\* A message that is sent is queued, and one that is delivered is carried.
LEMMA SendingKeeps ==
  ASSUME TypeOK, BrokerInvariant, LossInvariant, NEW m \in Messages,
         Publish(m) \/ Deliver(m)
  PROVE  LossInvariant'
<1> USE DeliveryAssumption
<1>1. CASE Publish(m)
  <2>1. /\ published' = published \cup {m} /\ queued' = [queued EXCEPT ![m] = 1]
        /\ UNCHANGED <<pc, owner, carries, unacked, served, refused>>
    BY <1>1 DEF Publish, vars, leaseVars
  <2>2. CopyRemains'
    <3> SUFFICES ASSUME NEW n \in published'
                 PROVE  \/ queued'[n] > 0 \/ n \in served
                        \/ \E q \in unacked : carries[q] = n
                        \/ \E o \in Runs : <<n, o>> \in refused
      BY <2>1 DEF CopyRemains
    <3>1. CASE n = m
      BY <2>1, <3>1 DEF BrokerInvariant, BrokerTypeOK
    <3>2. CASE n # m
      BY <2>1, <3>2 DEF LossInvariant, CopyRemains, BrokerInvariant, BrokerTypeOK
    <3> QED
      BY <3>1, <3>2
  <2> QED
    BY <2>1, <2>2 DEF LossInvariant, OwnersHold, OutcomesServe, SkipsAreRefused, RefusersHold
<1>2. CASE Deliver(m)
  <2> DEFINE f == Fresh(MessageSource[m])
  <2>1. f \in Runs /\ pc[f] = "idle"
    BY <1>2, FreshIsIdle DEF Deliver
  <2>2. pc' = [pc EXCEPT ![f] = "acquire"] /\ owner' = owner
    BY <1>2 DEF Deliver, Begin, Move, leaseVars
  <2>3. /\ queued' = [queued EXCEPT ![m] = @ - 1]
        /\ carries' = [carries EXCEPT ![f] = m] /\ unacked' = unacked \cup {f}
        /\ UNCHANGED <<published, served, refused>>
    BY <1>2 DEF Deliver
  <2> HIDE DEF f
  <2>4. \A q \in unacked : q # f /\ carries'[q] = carries[q] /\ pc'[q] = pc[q]
    BY <2>1, <2>2, <2>3 DEF BrokerInvariant, BrokerTypeOK, TypeOK
  <2>5. OwnersHold'
    BY <2>1, <2>2 DEF LossInvariant, OwnersHold, TypeOK, Holding, Guarded, Left
  <2>6. OutcomesServe'
    BY <2>1, <2>2, <2>3, <2>4 DEF LossInvariant, OutcomesServe, TypeOK
  <2>7. SkipsAreRefused'
    BY <2>1, <2>2, <2>3 DEF LossInvariant, SkipsAreRefused, TypeOK, BrokerInvariant, BrokerTypeOK
  <2>8. RefusersHold'
    BY <2>1, <2>2, <2>3 DEF LossInvariant, RefusersHold, TypeOK, Holding, Guarded, Left
  <2>9. CopyRemains'
    <3> SUFFICES ASSUME NEW n \in published
                 PROVE  \/ queued'[n] > 0 \/ n \in served
                        \/ \E q \in unacked' : carries'[q] = n
                        \/ \E o \in Runs : <<n, o>> \in refused
      BY <2>3 DEF CopyRemains
    <3>1. CASE n = m
      BY <2>1, <2>3, <3>1 DEF BrokerInvariant, BrokerTypeOK
    <3>2. CASE n # m
      BY <2>3, <2>4, <3>2 DEF LossInvariant, CopyRemains, BrokerInvariant, BrokerTypeOK
    <3> QED
      BY <3>1, <3>2
  <2> QED
    BY <2>5, <2>6, <2>7, <2>8, <2>9 DEF LossInvariant
<1> QED
  BY <1>1, <1>2

\* A delivery that leaves its worker is queued again, or it is acknowledged
\* after its run ended and served the message or was refused.
LEMMA LeavingKeeps ==
  ASSUME TypeOK, BrokerInvariant, LossInvariant, NEW r \in Runs,
         GiveBack(r) \/ Ack(r) \/ Retry(r)
  PROVE  LossInvariant'
<1> USE DeliveryAssumption
<1>1. CASE GiveBack(r) \/ Retry(r)
  <2>1. /\ r \in unacked /\ unacked' = unacked \ {r}
        /\ queued' = [queued EXCEPT ![carries[r]] = @ + 1]
        /\ UNCHANGED <<pc, owner, published, carries, served, refused>>
    BY <1>1 DEF GiveBack, Retry, vars, leaseVars
  <2>2. carries[r] \in published /\ carries[r] \in Messages
    BY <2>1 DEF BrokerInvariant, BrokerTypeOK, For
  <2>3. CopyRemains'
    <3> SUFFICES ASSUME NEW n \in published
                 PROVE  \/ queued'[n] > 0 \/ n \in served
                        \/ \E q \in unacked' : carries[q] = n
                        \/ \E o \in Runs : <<n, o>> \in refused
      BY <2>1 DEF CopyRemains
    <3>1. CASE n = carries[r]
      BY <2>1, <2>2, <3>1 DEF BrokerInvariant, BrokerTypeOK
    <3>2. CASE n # carries[r]
      BY <2>1, <2>2, <3>2 DEF LossInvariant, CopyRemains, BrokerInvariant, BrokerTypeOK
    <3> QED
      BY <3>1, <3>2
  <2> QED
    BY <2>1, <2>3 DEF LossInvariant, OwnersHold, OutcomesServe, SkipsAreRefused, RefusersHold
<1>2. CASE Ack(r)
  <2>1. /\ r \in unacked /\ unacked' = unacked \ {r} /\ pc[r] \in {"returned", "raised", "skipped"}
        /\ UNCHANGED <<pc, owner, published, queued, carries, served, refused>>
    BY <1>2 DEF Ack, vars, leaseVars
  <2>2. carries[r] \in served \/ \E o \in Runs : <<carries[r], o>> \in refused
    BY <2>1 DEF LossInvariant, OutcomesServe, SkipsAreRefused
  <2>3. CopyRemains'
    BY <2>1, <2>2 DEF LossInvariant, CopyRemains
  <2> QED
    BY <2>1, <2>3 DEF LossInvariant, OwnersHold, OutcomesServe, SkipsAreRefused, RefusersHold
<1> QED
  BY <1>1, <1>2

\* Every step of the composition keeps the invariant.
LEMMA LossStep ==
  ASSUME TypeOK, OutcomeSettled, BrokerInvariant, LossInvariant, [DeliveryNext]_deliveryVars
  PROVE  LossInvariant'
<1>1. CASE TimePasses
  <2>1. /\ UNCHANGED <<pc, published, queued, carries, unacked, served, refused>>
        /\ owner' = [s \in Sources |-> IF ttl[s] > 1 THEN owner[s] ELSE NoRun]
    BY <1>1 DEF TimePasses, Tick, brokerVars
  <2>2. OwnersHold'
    BY <2>1, ConstantsAssumption DEF LossInvariant, OwnersHold
  <2> QED
    BY <2>1, <2>2 DEF LossInvariant, OutcomesServe, SkipsAreRefused, RefusersHold, CopyRemains
<1>2. CASE UNCHANGED deliveryVars
  BY <1>2 DEF deliveryVars, brokerVars, vars, leaseVars, LossInvariant, OwnersHold, OutcomesServe,
     SkipsAreRefused, RefusersHold, CopyRemains
<1>3. CASE \E m \in Messages : Publish(m) \/ Deliver(m)
  BY <1>3, SendingKeeps
<1>4. ASSUME NEW r \in Runs, GiveBack(r) \/ Ack(r) \/ Retry(r) PROVE LossInvariant'
  BY <1>4, LeavingKeeps
<1>5. ASSUME NEW r \in Runs, RunStep(r) PROVE LossInvariant'
  BY <1>5, RunStepKeeps
<1>6. ASSUME NEW r \in Runs, KillAtLimit(r) \/ WorkerDies(r) PROVE LossInvariant'
  BY <1>6, DeathKeeps
<1> QED
  BY <1>1, <1>2, <1>3, <1>4, <1>5, <1>6 DEF DeliveryNext

\* Whatever Redis, the soft limit, workers and the visibility timeout do: late
\* acknowledgement, requeues, redeliveries and retries lose a message only to a
\* lease that a run left behind when it died or raised (queueing.py:47-48).
THEOREM LossIsExplained == DeliverySpec => []LossNeedsLeftLease
<1>1. DeliveryInit => LossInvariant
  BY ConstantsAssumption
  DEF DeliveryInit, Init, LossInvariant, OwnersHold, OutcomesServe, SkipsAreRefused, RefusersHold,
      CopyRemains
<1>2. TypeOK /\ BrokerInvariant /\ LossInvariant => LossNeedsLeftLease
  <2> SUFFICES ASSUME TypeOK, BrokerInvariant, LossInvariant, NEW m \in Messages, Gone(m), m \notin served
               PROVE  \/ UnderWay(MessageSource[m])
                      \/ \E r \in Runs : <<m, r>> \in refused /\ pc[r] \in {"killed", "raised"}
    BY DEF LossNeedsLeftLease
  <2>1. PICK o \in Runs : <<m, o>> \in refused
    BY DEF Gone, LossInvariant, CopyRemains
  <2>2. SourceOf[o] = MessageSource[m] /\ pc[o] \in Holding \cup Left
    BY <2>1 DEF LossInvariant, RefusersHold
  <2>3. CASE pc[o] \in Holding
    BY <2>2, <2>3 DEF UnderWay, Live, Ended, Holding, Guarded
  <2> QED
    BY <2>1, <2>2, <2>3 DEF Left
<1> QED
  BY <1>1, <1>2, BrokerIsSound, LossStep, PTL DEF DeliverySpec
=============================================================================
