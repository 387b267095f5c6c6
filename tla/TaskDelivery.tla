----------------------------- MODULE TaskDelivery -----------------------------
(***************************************************************************)
(* The queue in front of SourceLease: Celery over Redis as queueing.py     *)
(* configures it (late acknowledgement, requeue when a worker is lost, a   *)
(* visibility timeout shorter than a run) and tasks.py declares the tasks  *)
(* (retries).  Every delivery of a message is a run of SourceLease.  The   *)
(* visibility timeout is shorter than the unit of time of SourceLease, so  *)
(* an unacknowledged delivery may be given back at any moment.             *)
(***************************************************************************)
EXTENDS SourceLease, FiniteSets

CONSTANTS
  Messages,    \* task messages, each for the source MessageSource gives it
  MessageSource,
  NoMessage,   \* what a run that has not begun carries
  MaxRetries,  \* max_retries
  MaxExtra,    \* bound on retries and on deliveries given back from live workers
  MaxCrashes   \* bound on deaths of workers

ASSUME DeliveryAssumption ==
  /\ MessageSource \in [Messages -> Sources]
  /\ NoMessage \notin Messages
  /\ MaxRetries \in Nat /\ MaxExtra \in Nat /\ MaxCrashes \in Nat

VARIABLES
  published,  \* messages sent so far
  queued,     \* copies of a message that wait in the queue
  carries,    \* the message a run was started for
  retries,    \* how often the copies of a message were retried
  unacked,    \* runs whose delivery is neither acknowledged nor given back
  served,     \* messages after whose sending a run of their source ended
  refused,    \* <<m, r>>: a delivery of m was skipped because of r's lease
  extra, crashes

brokerVars == <<published, queued, carries, retries, unacked, extra, crashes>>
deliveryVars == <<vars, brokerVars, served, refused>>

DeliveryInit ==
  /\ Init
  /\ published = {}
  /\ queued = [m \in Messages |-> 0]
  /\ carries = [r \in Runs |-> NoMessage]
  /\ retries = [m \in Messages |-> 0]
  /\ unacked = {} /\ served = {} /\ refused = {}
  /\ extra = 0 /\ crashes = 0

\* The published messages that a run of this source serves.
For(s) == {m \in published : MessageSource[m] = s}

\* The runs that have not begun are interchangeable: the next delivery is the
\* first of them.
Idle(s) == {r \in Runs : pc[r] = "idle" /\ SourceOf[r] = s}
Fresh(s) == CHOOSE r \in Runs : r \in Idle(s)

(* Faulty variants of definitions below: mistakes the properties must find. *)

\* The message is acknowledged when it is received.
DeliverAndAck(m) ==
  /\ queued[m] > 0 /\ Idle(MessageSource[m]) # {}
  /\ Begin(Fresh(MessageSource[m]))
  /\ queued' = [queued EXCEPT ![m] = @ - 1]
  /\ carries' = [carries EXCEPT ![Fresh(MessageSource[m])] = m]
  /\ UNCHANGED <<published, retries, unacked, served, refused, extra, crashes>>

\* delay(): the scheduler or an operator sends a message.
Publish(m) ==
  /\ m \notin published
  /\ published' = published \cup {m}
  /\ queued' = [queued EXCEPT ![m] = 1]
  /\ UNCHANGED <<vars, carries, retries, unacked, served, refused, extra, crashes>>

\* A worker with a free process takes one message and starts its task.
Deliver(m) ==
  /\ queued[m] > 0 /\ Idle(MessageSource[m]) # {}
  /\ Begin(Fresh(MessageSource[m]))
  /\ queued' = [queued EXCEPT ![m] = @ - 1]
  /\ carries' = [carries EXCEPT ![Fresh(MessageSource[m])] = m]
  /\ unacked' = unacked \cup {Fresh(MessageSource[m])}
  /\ UNCHANGED <<published, retries, served, refused, extra, crashes>>

\* A delivery returns to the queue: rejected because its process was lost, or
\* visible again because it was not acknowledged in time.
GiveBack(r) ==
  /\ r \in unacked
  /\ queued' = [queued EXCEPT ![carries[r]] = @ + 1]
  /\ unacked' = unacked \ {r}
  /\ \/ pc[r] = "killed" /\ UNCHANGED extra
     \/ pc[r] # "killed" /\ extra < MaxExtra /\ extra' = extra + 1
  /\ UNCHANGED <<vars, published, carries, retries, served, refused, crashes>>

\* The task ended: returned, raised or skipped, it is acknowledged.
Ack(r) ==
  /\ r \in unacked /\ pc[r] \in {"returned", "raised", "skipped"}
  /\ unacked' = unacked \ {r}
  /\ UNCHANGED <<vars, published, queued, carries, retries, served, refused,
                 extra, crashes>>

\* The operation raised a ConnectionError: a copy is sent and the delivery
\* is acknowledged.  The exception of a time limit is not retried.
Retry(r) ==
  /\ r \in unacked /\ pc[r] = "raised" /\ ~softSent[r] /\ extra < MaxExtra
  /\ retries[carries[r]] < MaxRetries
  /\ retries' = [retries EXCEPT ![carries[r]] = @ + 1]
  /\ queued' = [queued EXCEPT ![carries[r]] = @ + 1]
  /\ unacked' = unacked \ {r}
  /\ extra' = extra + 1
  /\ UNCHANGED <<vars, published, carries, served, refused, crashes>>

\* A step serves the source when the run ends with an outcome, and the
\* lease that a run is refused for is noted.
Note(r) ==
  /\ served' = IF pc[r] # pc'[r] /\ pc'[r] \in {"returned", "raised"}
                 THEN served \cup For(SourceOf[r]) ELSE served
  /\ refused' = IF pc[r] = "acquire" /\ pc'[r] = "skip"
                  THEN refused \cup {<<carries[r], owner[SourceOf[r]]>>} ELSE refused
  /\ UNCHANGED brokerVars

RunStep(r) ==
  /\ \/ OperationReturns(r) \/ OperationRaises(r) \/ SoftInterrupt(r)
     \/ MainStep(r) \/ BeatStep(r)
  /\ Note(r)

\* The worker reports a run that it kills at the hard limit, and acknowledges.
KillAtLimit(r) ==
  /\ HardKill(r)
  /\ unacked' = unacked \ {r}
  /\ served' = served \cup For(SourceOf[r])
  /\ UNCHANGED <<published, queued, carries, retries, refused, extra, crashes>>

WorkerDies(r) ==
  /\ Crash(r) /\ crashes < MaxCrashes
  /\ crashes' = crashes + 1
  /\ UNCHANGED <<published, queued, carries, retries, unacked, served, refused, extra>>

TimePasses == Tick /\ UNCHANGED <<brokerVars, served, refused>>

DeliveryNext ==
  \/ \E m \in Messages : Publish(m) \/ Deliver(m)
  \/ \E r \in Runs : \/ GiveBack(r) \/ Ack(r) \/ Retry(r)
                     \/ RunStep(r) \/ KillAtLimit(r) \/ WorkerDies(r)
  \/ TimePasses

DeliverySpec == DeliveryInit /\ [][DeliveryNext]_deliveryVars

-----------------------------------------------------------------------------
\* No copy of the message is left: queued, or delivered and unacknowledged.
Gone(m) ==
  m \in published /\ queued[m] = 0 /\ \A r \in unacked : carries[r] # m

\* A run of the source is under way.
UnderWay(s) == \E r \in Runs : SourceOf[r] = s /\ Live(r)

BrokerTypeOK ==
  /\ published \subseteq Messages
  /\ queued \in [Messages -> Nat]
  /\ carries \in [Runs -> Messages \cup {NoMessage}]
  /\ retries \in [Messages -> 0..MaxRetries]
  /\ unacked \subseteq Runs
  /\ served \subseteq published /\ refused \subseteq published \X Runs
  /\ extra \in 0..MaxExtra /\ crashes \in 0..MaxCrashes

\* A message leaves the queue for good only when a run of its source ended with
\* an outcome after the message was sent, or is still under way, or when a
\* delivery of it was refused for a lease that nobody was at work under: that of
\* a run that died, or that had raised before the message was sent and could not
\* release it.  Crashes, redeliveries of running tasks, retries and failing
\* lease commands lose nothing else (queueing.py:47-48, acks_late and
\* reject_on_worker_lost).
LossNeedsLeftLease ==
  \A m \in Messages :
    Gone(m) => \/ m \in served \/ UnderWay(MessageSource[m])
               \/ \E r \in Runs : <<m, r>> \in refused /\ pc[r] \in {"killed", "raised"}

\* An unfinished task is executed again after its worker died (TODO.md:241):
\* no message is gone before a run of its source ended with an outcome.
NoWorkIsLost ==
  \A m \in Messages : Gone(m) => m \in served \/ UnderWay(MessageSource[m])
=============================================================================
