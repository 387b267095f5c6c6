------------------------- MODULE RedisCircuitBreaker -------------------------
(***************************************************************************)
(* RedisCircuitBreaker (resilience.py) for one source: several workers     *)
(* read the state, decide, and write it back with an expiry.  The reads    *)
(* and writes are separate steps.  Time is relative: what is left of the   *)
(* cooldown in a state, and of the life of the key.                        *)
(***************************************************************************)
EXTENDS Integers, FiniteSets

CONSTANTS
  RedisCallers, RedisThreshold, RedisRecovery,   \* as in CircuitBreaker
  Abandons    \* a caller may end without recording an outcome

ASSUME RedisAssumption ==
  /\ RedisThreshold \in Nat \ {0} /\ RedisRecovery \in Nat \ {0}
  /\ Abandons \in BOOLEAN

VARIABLES
  stored,   \* Redis: the JSON state; EmptyState when the key is absent or "{}"
  life,     \* Redis: remaining life of the key
  pc,       \* of a caller
  copy,     \* the state a caller is about to write
  opening,  \* the circuit was opened and no success was recorded since
  redisProbes,   \* callers admitted while it was, since it last opened
  reported,  \* failures recorded since the last success or lapse, capped
  overtaken, \* callers that read before the state they are about to overwrite
  disturbed  \* history: one of them has written, and no success or lapse followed

redisVars == <<stored, life, pc, copy, opening, redisProbes, reported, overtaken, disturbed>>

EmptyState == [failures |-> 0, open |-> FALSE, cooldown |-> 0, half |-> FALSE]

RedisInit ==
  /\ stored = EmptyState /\ life = 0
  /\ pc = [c \in RedisCallers |-> "idle"]
  /\ copy = [c \in RedisCallers |-> EmptyState]
  /\ opening = FALSE /\ redisProbes = {} /\ reported = 0
  /\ overtaken = {} /\ disturbed = FALSE

MoveCaller(c, from, to) == pc[c] = from /\ pc' = [pc EXCEPT ![c] = to]
RememberState(c, state) == copy' = [copy EXCEPT ![c] = state]
\* One more failure; the state counts no further than the threshold.
Bump(n) == IF n < RedisThreshold THEN n + 1 ELSE RedisThreshold

\* The callers that are between a read and its write.
Writing == {c \in RedisCallers : pc[c] \in {"probe", "failed"}}
RedisAllowed == ~stored.open \/ (stored.cooldown = 0 /\ ~stored.half)

CountAdmitted(c) ==
  redisProbes' = IF opening THEN redisProbes \cup {c} ELSE redisProbes

\* allow_request reads a state that is closed, or absent.
AllowClosed(c) ==
  /\ ~stored.open
  /\ MoveCaller(c, "idle", "request")
  /\ CountAdmitted(c)
  /\ UNCHANGED <<stored, life, copy, opening, reported, overtaken, disturbed>>

\* It reads an open state after the cooldown and without a probe ...
AllowProbe(c) ==
  /\ stored.open /\ stored.cooldown = 0 /\ ~stored.half
  /\ MoveCaller(c, "idle", "probe")
  /\ RememberState(c, [stored EXCEPT !.half = TRUE])
  /\ UNCHANGED <<stored, life, opening, redisProbes, reported, overtaken, disturbed>>

(* Faulty variants of definitions below: mistakes the properties must find. *)

\* SET without an expiry.
WriteForever(c) ==
  /\ stored' = copy[c] /\ life' = 0
  /\ RememberState(c, EmptyState)
  /\ overtaken' = Writing \ {c}
  /\ disturbed' = (disturbed \/ c \in overtaken)

\* Every failure is taken for the first one.
GetFailuresAnew(c) ==
  /\ MoveCaller(c, "request", "failed")
  /\ RememberState(c, [EmptyState EXCEPT !.failures = 1])
  /\ UNCHANGED <<stored, life, opening, redisProbes, reported, overtaken, disturbed>>

Write(c) ==
  /\ stored' = copy[c] /\ life' = RedisRecovery
  /\ RememberState(c, EmptyState)
  /\ overtaken' = Writing \ {c}
  /\ disturbed' = (disturbed \/ c \in overtaken)

\* ... and marks it before the request is sent.
SetHalfOpen(c) ==
  /\ MoveCaller(c, "probe", "request")
  /\ Write(c)
  /\ CountAdmitted(c)
  /\ UNCHANGED <<opening, reported>>

\* record_failure reads the state and adds one failure.
GetFailures(c) ==
  /\ MoveCaller(c, "request", "failed")
  /\ LET n == Bump(stored.failures)
     IN  RememberState(c, IF n >= RedisThreshold
           THEN [failures |-> n, open |-> TRUE, cooldown |-> RedisRecovery, half |-> FALSE]
           ELSE [EmptyState EXCEPT !.failures = n])
  /\ UNCHANGED <<stored, life, opening, redisProbes, reported, overtaken, disturbed>>

SetFailure(c) ==
  /\ MoveCaller(c, "failed", "idle")
  /\ Write(c)
  /\ opening' = (opening \/ copy[c].open)
  /\ redisProbes' = IF copy[c].open THEN {} ELSE redisProbes \ {c}
  /\ reported' = Bump(reported)

\* record_success stores "{}" for one second.
SetSuccess(c) ==
  /\ MoveCaller(c, "request", "idle")
  /\ stored' = EmptyState /\ life' = 1
  /\ opening' = FALSE /\ redisProbes' = {} /\ reported' = 0
  /\ overtaken' = Writing /\ disturbed' = FALSE
  /\ UNCHANGED copy

CallerVanishes(c) ==
  /\ Abandons /\ pc[c] # "idle"
  /\ MoveCaller(c, pc[c], "idle")
  /\ RememberState(c, EmptyState)
  /\ overtaken' = overtaken \ {c}
  /\ UNCHANGED <<stored, life, opening, redisProbes, reported, disturbed>>

Cooler(state) == [state EXCEPT !.cooldown = IF @ > 0 THEN @ - 1 ELSE 0]

RedisTick ==
  /\ life > 0 \/ stored.cooldown > 0
  /\ life' = IF life > 0 THEN life - 1 ELSE 0
  /\ copy' = [c \in RedisCallers |-> Cooler(copy[c])]
  /\ \/ /\ life = 1 /\ stored # EmptyState
        /\ stored' = EmptyState /\ reported' = 0
        /\ overtaken' = Writing /\ disturbed' = FALSE
     \/ /\ life # 1 \/ stored = EmptyState
        /\ stored' = Cooler(stored)
        /\ UNCHANGED <<reported, overtaken, disturbed>>
  /\ UNCHANGED <<pc, opening, redisProbes>>

CallerStep(c) ==
  \/ SetHalfOpen(c) \/ GetFailures(c) \/ SetFailure(c) \/ SetSuccess(c)

RedisNext ==
  \/ RedisTick
  \/ \E c \in RedisCallers : AllowClosed(c) \/ AllowProbe(c) \/ CallerStep(c) \/ CallerVanishes(c)

RedisSpec == RedisInit /\ [][RedisNext]_redisVars

\* Only the clock of Redis is relied on: workers may die at any point.
FairRedisSpec == RedisSpec /\ WF_redisVars(RedisTick)

-----------------------------------------------------------------------------
CircuitState == [failures : 0..RedisThreshold, open : BOOLEAN, cooldown : 0..RedisRecovery, half : BOOLEAN]

RedisTypeOK ==
  /\ stored \in CircuitState /\ life \in 0..RedisRecovery
  /\ pc \in [RedisCallers -> {"idle", "probe", "request", "failed"}]
  /\ copy \in [RedisCallers -> CircuitState]
  /\ opening \in BOOLEAN /\ redisProbes \subseteq RedisCallers
  /\ reported \in 0..RedisThreshold
  /\ overtaken \subseteq RedisCallers /\ disturbed \in BOOLEAN

\* One recovery probe after the cooldown (README, Resilience).
OneRedisProbe == Cardinality(redisProbes) <= 1

\* An open circuit goes back to admitting requests, even when the worker that
\* held the probe died without reporting: the key expires.
RedisRejectionEnds == ~RedisAllowed ~> RedisAllowed

\* The failures in Redis are those recorded since the last success or lapse, and
\* the circuit is open exactly from the threshold on, unless a worker wrote what
\* another had changed since it read; a success or the lapse of the key ends that,
\* and what such a worker writes after them counts as such again.
FailuresAreCounted ==
  ~disturbed => /\ stored.failures = reported
                /\ stored.open <=> reported = RedisThreshold
=============================================================================
