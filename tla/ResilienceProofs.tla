--------------------------- MODULE ResilienceProofs ---------------------------
(***************************************************************************)
(* Theorems about the resilience policies: CircuitBreaker and              *)
(* RedisCircuitBreaker for any callers or workers, threshold and recovery, *)
(* Retries for any delays and numbers of attempts, RateLimiter for any     *)
(* window and number of requests.                                          *)
(***************************************************************************)
EXTENDS CircuitBreaker, RedisCircuitBreaker, Retries, RateLimiter,
        FiniteSetTheorems, Induction

-----------------------------------------------------------------------------
(* CircuitBreaker.                                                          *)

\* The bounds of the counters, as the steps below use them.
LEMMA Bounds ==
  /\ 0 \in 0..Threshold /\ 0 \in 0..Recovery /\ Recovery \in 0..Recovery
  /\ \A n \in 0..Threshold : n < Threshold => n + 1 \in 0..Threshold
  BY BreakerAssumption

\* The state of the circuit and its history stay within their types.
LEMMA BreakerTypeStep == ASSUME TypeOK, [Next]_vars PROVE TypeOK'
<1> USE BreakerAssumption DEF TypeOK
<1>1. ASSUME NEW c \in Callers, Admit(c) PROVE TypeOK'
  BY <1>1 DEF Admit
<1>2. ASSUME NEW c \in Callers, RecordFailure(c) PROVE TypeOK'
  <2>1. failures' \in 0..Threshold
    BY <1>2 DEF RecordFailure
  <2>2. cooldown' \in 0..Recovery
    BY <1>2, Bounds DEF RecordFailure
  <2>3. open' \in BOOLEAN /\ half' \in BOOLEAN
    BY <1>2, Zenon DEF RecordFailure
  <2>4. inFlight' \subseteq Callers /\ probes' \subseteq Callers
    BY <1>2 DEF RecordFailure
  <2> QED
    BY <2>1, <2>2, <2>3, <2>4
<1>3. ASSUME NEW c \in Callers, RecordSuccess(c) PROVE TypeOK'
  BY <1>3, Bounds DEF RecordSuccess
<1>4. ASSUME NEW c \in Callers, Abandon(c) PROVE TypeOK'
  BY <1>4 DEF Abandon
<1>5. CASE Tick
  BY <1>5 DEF Tick
<1>6. CASE UNCHANGED vars
  BY <1>6 DEF vars
<1> QED
  BY <1>1, <1>2, <1>3, <1>4, <1>5, <1>6 DEF Next, Record

\* Every reachable state of the circuit is well typed.
THEOREM BreakerTypeCorrect == Spec => []TypeOK
<1>1. Init => TypeOK
  BY Bounds DEF Init, TypeOK
<1> QED
  BY <1>1, BreakerTypeStep, PTL DEF Spec

\* A probe leaves its mark, and a mark keeps everybody else out.
ProbeIsMarked ==
  /\ probes # {} => open /\ half
  /\ half => open
  /\ \A c, d \in probes : c = d

\* Every step keeps the one probe marked.
LEMMA ProbeStep == ASSUME TypeOK, ProbeIsMarked, [Next]_vars PROVE ProbeIsMarked'
<1> USE DEF TypeOK, ProbeIsMarked
<1>1. ASSUME NEW c \in Callers, Admit(c) PROVE ProbeIsMarked'
  BY <1>1 DEF Admit, Allowed
<1>2. ASSUME NEW c \in Callers, RecordFailure(c) PROVE ProbeIsMarked'
  BY <1>2 DEF RecordFailure
<1>3. ASSUME NEW c \in Callers, RecordSuccess(c) \/ Abandon(c) PROVE ProbeIsMarked'
  BY <1>3 DEF RecordSuccess, Abandon
<1>4. CASE Tick \/ UNCHANGED vars
  BY <1>4 DEF Tick, vars
<1> QED
  BY <1>1, <1>2, <1>3, <1>4 DEF Next, Record

\* One caller at most gets through an open circuit before an outcome ends the
\* opening (resilience.py:103-108).
THEOREM OneProbeAtMost == Spec => []OneProbe
<1>1. Init => ProbeIsMarked
  BY DEF Init, ProbeIsMarked
<1>2. ProbeIsMarked => OneProbe
  <2> SUFFICES ASSUME ProbeIsMarked PROVE Cardinality(probes) <= 1
    BY DEF OneProbe
  <2>1. CASE probes = {}
    BY <2>1, FS_EmptySet
  <2>2. CASE probes # {}
    <3>1. PICK c : c \in probes
      BY <2>2
    <3>2. probes = {c}
      BY <3>1 DEF ProbeIsMarked
    <3>3. Cardinality({c}) = 1
      BY FS_Singleton
    <3> QED
      BY <3>2, <3>3
  <2> QED
    BY <2>1, <2>2
<1> QED
  BY <1>1, <1>2, ProbeStep, BreakerTypeCorrect, PTL DEF Spec

-----------------------------------------------------------------------------
(* RedisCircuitBreaker.                                                     *)

\* The state of a circuit nobody stored is a state of the circuit.
LEMMA EmptyIsState == EmptyState \in CircuitState
  BY RedisAssumption DEF EmptyState, CircuitState

\* So is what record_failure computes from one.
LEMMA CountedIsState ==
  ASSUME NEW n \in 0..RedisThreshold
  PROVE  /\ [failures |-> n, open |-> TRUE, cooldown |-> RedisRecovery, half |-> FALSE] \in CircuitState
         /\ [EmptyState EXCEPT !.failures = n] \in CircuitState
<1>1. 0 \in 0..RedisRecovery /\ RedisRecovery \in 0..RedisRecovery
  BY RedisAssumption
<1>2. [EmptyState EXCEPT !.failures = n] \in CircuitState
  BY EmptyIsState DEF CircuitState
<1> QED
  BY <1>1, <1>2 DEF CircuitState

\* What a caller keeps to write stays a state of the circuit.
LEMMA RememberedStep ==
  ASSUME RedisTypeOK, NEW c \in RedisCallers, NEW s \in CircuitState, RememberState(c, s)
  PROVE  copy' \in [RedisCallers -> CircuitState]
  BY DEF RememberState, RedisTypeOK

\* A caller that moves stays within its control points.
LEMMA MoveStep ==
  ASSUME RedisTypeOK, NEW c \in RedisCallers, NEW from,
         NEW to \in {"idle", "probe", "request", "failed"}, MoveCaller(c, from, to)
  PROVE  pc' \in [RedisCallers -> {"idle", "probe", "request", "failed"}]
  BY DEF MoveCaller, RedisTypeOK

\* A count of failures stays one.
LEMMA BumpStep ==
  ASSUME NEW n \in 0..RedisThreshold
  PROVE  Bump(n) \in 1..RedisThreshold /\ Bump(n) \in 0..RedisThreshold
  BY RedisAssumption DEF Bump

\* A write stores a state, and gives the key the life of a whole cooldown.
LEMMA WriteStep ==
  ASSUME RedisTypeOK, NEW c \in RedisCallers, Write(c)
  PROVE  /\ stored' \in CircuitState /\ life' = RedisRecovery /\ life' \in 0..RedisRecovery
         /\ copy' \in [RedisCallers -> CircuitState]
         /\ overtaken' \subseteq RedisCallers /\ disturbed' \in BOOLEAN
<1>1. stored' \in CircuitState /\ life' = RedisRecovery /\ RememberState(c, EmptyState)
  BY DEF Write, RedisTypeOK
<1>2. overtaken' \subseteq RedisCallers
  BY DEF Write, Writing
<1>3. disturbed' \in BOOLEAN
  BY Zenon DEF Write, RedisTypeOK
<1> QED
  BY <1>1, <1>2, <1>3, EmptyIsState, RememberedStep, RedisAssumption

\* Time passes in a state and leaves it one.
LEMMA CoolerStep ==
  ASSUME NEW s \in CircuitState
  PROVE  /\ Cooler(s) \in CircuitState /\ Cooler(s).open = s.open
         /\ Cooler(s).failures = s.failures
  BY RedisAssumption DEF CircuitState, Cooler

\* Every read, write and step of the clock keeps the types.
LEMMA RedisTypeStep == ASSUME RedisTypeOK, [RedisNext]_redisVars PROVE RedisTypeOK'
<1> USE RedisAssumption
<1>1. ASSUME NEW c \in RedisCallers, AllowClosed(c) PROVE RedisTypeOK'
  BY <1>1, MoveStep DEF AllowClosed, CountAdmitted, RedisTypeOK
<1>2. ASSUME NEW c \in RedisCallers, AllowProbe(c) PROVE RedisTypeOK'
  <2>1. [stored EXCEPT !.half = TRUE] \in CircuitState
    BY DEF RedisTypeOK, CircuitState
  <2> QED
    BY <1>2, <2>1, MoveStep, RememberedStep DEF AllowProbe, RedisTypeOK
<1>3. ASSUME NEW c \in RedisCallers, SetHalfOpen(c) PROVE RedisTypeOK'
  BY <1>3, MoveStep, WriteStep DEF SetHalfOpen, CountAdmitted, RedisTypeOK
<1>4. ASSUME NEW c \in RedisCallers, GetFailures(c) PROVE RedisTypeOK'
  <2> DEFINE n == Bump(stored.failures)
  <2> DEFINE opened == [failures |-> n, open |-> TRUE, cooldown |-> RedisRecovery, half |-> FALSE]
  <2> DEFINE counted == [EmptyState EXCEPT !.failures = n]
  <2>1. n \in 0..RedisThreshold
    BY BumpStep DEF RedisTypeOK, CircuitState
  <2>2. opened \in CircuitState /\ counted \in CircuitState
    BY <2>1, CountedIsState
  <2>3. RememberState(c, IF n >= RedisThreshold THEN opened ELSE counted)
    BY <1>4 DEF GetFailures
  <2>4. copy' \in [RedisCallers -> CircuitState]
    <3> HIDE DEF n, opened, counted
    <3>1. (IF n >= RedisThreshold THEN opened ELSE counted) \in CircuitState
      BY <2>2
    <3> QED
      BY <2>3, <3>1, RememberedStep
  <2>5. reported' \in 0..RedisThreshold
    BY <1>4 DEF GetFailures, RedisTypeOK
  <2>6. pc' \in [RedisCallers -> {"idle", "probe", "request", "failed"}]
    BY <1>4, MoveStep DEF GetFailures
  <2> QED
    BY <1>4, <2>4, <2>5, <2>6 DEF GetFailures, RedisTypeOK
<1>5. ASSUME NEW c \in RedisCallers, SetFailure(c) PROVE RedisTypeOK'
  <2>1. opening' \in BOOLEAN
    BY <1>5, Zenon DEF SetFailure, RedisTypeOK
  <2>2. redisProbes' \subseteq RedisCallers /\ reported' \in 0..RedisThreshold
    BY <1>5, BumpStep DEF SetFailure, RedisTypeOK
  <2>3. pc' \in [RedisCallers -> {"idle", "probe", "request", "failed"}]
    BY <1>5, MoveStep DEF SetFailure
  <2>4. /\ stored' \in CircuitState /\ life' \in 0..RedisRecovery
        /\ copy' \in [RedisCallers -> CircuitState]
        /\ overtaken' \subseteq RedisCallers /\ disturbed' \in BOOLEAN
    BY <1>5, WriteStep DEF SetFailure
  <2> QED
    BY <2>1, <2>2, <2>3, <2>4 DEF RedisTypeOK
<1>6. ASSUME NEW c \in RedisCallers, SetSuccess(c) PROVE RedisTypeOK'
  <2>1. pc' \in [RedisCallers -> {"idle", "probe", "request", "failed"}]
    BY <1>6, MoveStep DEF SetSuccess
  <2>2. stored' \in CircuitState /\ life' \in 0..RedisRecovery
    BY <1>6, EmptyIsState DEF SetSuccess
  <2>3. copy' \in [RedisCallers -> CircuitState] /\ reported' \in 0..RedisThreshold
    BY <1>6 DEF SetSuccess, RedisTypeOK
  <2>4. /\ opening' \in BOOLEAN /\ redisProbes' \subseteq RedisCallers
        /\ overtaken' \subseteq RedisCallers /\ disturbed' \in BOOLEAN
    BY <1>6 DEF SetSuccess, Writing
  <2> QED
    BY <2>1, <2>2, <2>3, <2>4 DEF RedisTypeOK
<1>7. ASSUME NEW c \in RedisCallers, CallerVanishes(c) PROVE RedisTypeOK'
  BY <1>7, MoveStep, RememberedStep, EmptyIsState DEF CallerVanishes, RedisTypeOK
<1>8. CASE RedisTick
  <2>1. stored' \in CircuitState
    BY <1>8, CoolerStep, EmptyIsState DEF RedisTick, RedisTypeOK
  <2>2. copy' \in [RedisCallers -> CircuitState]
    BY <1>8, CoolerStep DEF RedisTick, RedisTypeOK
  <2>3. life' \in 0..RedisRecovery
    BY <1>8 DEF RedisTick, RedisTypeOK
  <2>4. reported' \in 0..RedisThreshold /\ overtaken' \subseteq RedisCallers
    BY <1>8, RedisAssumption DEF RedisTick, RedisTypeOK, Writing
  <2>5. disturbed' \in BOOLEAN
    BY <1>8, Zenon DEF RedisTick, RedisTypeOK
  <2> QED
    BY <1>8, <2>1, <2>2, <2>3, <2>4, <2>5 DEF RedisTick, RedisTypeOK
<1>9. CASE UNCHANGED redisVars
  BY <1>9 DEF redisVars, RedisTypeOK
<1> QED
  BY <1>1, <1>2, <1>3, <1>4, <1>5, <1>6, <1>7, <1>8, <1>9 DEF RedisNext, CallerStep

\* The stored state, the copies the workers hold and the history of the
\* circuit of any number of workers stay within their types.
THEOREM RedisTypeCorrect == RedisSpec => []RedisTypeOK
<1>1. RedisInit => RedisTypeOK
  <2> SUFFICES ASSUME RedisInit PROVE RedisTypeOK
    OBVIOUS
  <2>1. stored \in CircuitState /\ copy \in [RedisCallers -> CircuitState]
    BY EmptyIsState DEF RedisInit
  <2>2. 0 \in 0..RedisRecovery /\ 0 \in 0..RedisThreshold
    BY RedisAssumption
  <2> QED
    BY <2>1, <2>2 DEF RedisInit, RedisTypeOK
<1> QED
  BY <1>1, RedisTypeStep, PTL DEF RedisSpec

\* The state in Redis, and what the workers are about to write, is open exactly
\* with as many failures as the threshold; what one that was not overtaken is
\* about to write adds its failure to the state, or keeps its failures.
FailuresInvariant ==
  /\ stored.open <=> stored.failures = RedisThreshold
  /\ \A c \in RedisCallers : copy[c].open <=> copy[c].failures = RedisThreshold
  /\ ~disturbed => stored.failures = reported
  /\ \A c \in RedisCallers \ overtaken :
       /\ pc[c] = "failed" => copy[c].failures = Bump(stored.failures)
       /\ pc[c] = "probe" => copy[c].failures = stored.failures

\* A caller that neither reads nor writes leaves what the others are about to write.
LEMMA OthersKeep ==
  ASSUME RedisTypeOK, FailuresInvariant, NEW c \in RedisCallers, NEW from, NEW to,
         MoveCaller(c, from, to), to \notin {"failed", "probe"},
         UNCHANGED <<stored, copy, overtaken, disturbed, reported>>
  PROVE  FailuresInvariant'
  BY DEF RedisTypeOK, FailuresInvariant, MoveCaller, Bump

\* A caller that has read is about to write a state that follows from the stored one.
LEMMA ReadStep ==
  ASSUME RedisTypeOK, FailuresInvariant, NEW c \in RedisCallers, NEW from, NEW to,
         NEW s \in CircuitState, MoveCaller(c, from, to), RememberState(c, s),
         s.open <=> s.failures = RedisThreshold,
         to = "failed" => s.failures = Bump(stored.failures),
         to = "probe" => s.failures = stored.failures,
         UNCHANGED <<stored, overtaken, disturbed, reported>>
  PROVE  FailuresInvariant'
  BY DEF RedisTypeOK, FailuresInvariant, MoveCaller, RememberState, Bump

\* A write stores the failures the writer counted, and overtakes all others.
LEMMA WriteCounts ==
  ASSUME RedisTypeOK, FailuresInvariant, NEW c \in RedisCallers, NEW from, NEW to,
         MoveCaller(c, from, to), to \notin {"failed", "probe"}, Write(c),
         pc[c] = "failed" => reported' = Bump(reported),
         pc[c] = "probe" => reported' = reported,
         pc[c] \in {"failed", "probe"}
  PROVE  FailuresInvariant'
<1>1. stored' = copy[c] /\ copy' = [copy EXCEPT ![c] = EmptyState]
  BY DEF Write, RememberState
<1>2. stored'.open <=> stored'.failures = RedisThreshold
  BY <1>1 DEF FailuresInvariant
<1>3. EmptyState.open = FALSE /\ EmptyState.failures # RedisThreshold
  BY RedisAssumption DEF EmptyState
<1>4. \A d \in RedisCallers : copy'[d].open <=> copy'[d].failures = RedisThreshold
  BY <1>1, <1>3 DEF FailuresInvariant, RedisTypeOK
<1>5. ~disturbed' => stored'.failures = reported'
  BY <1>1 DEF FailuresInvariant, Write
<1>6. \A d \in RedisCallers \ overtaken' : pc'[d] \notin {"failed", "probe"}
  BY DEF Write, Writing, MoveCaller, RedisTypeOK
<1> QED
  BY <1>2, <1>4, <1>5, <1>6 DEF FailuresInvariant

\* Without a state in Redis there is nothing to count, and whoever is about to
\* write is overtaken.
LEMMA EmptyCounts ==
  ASSUME RedisTypeOK, stored' = EmptyState, reported' = 0,
         \A d \in RedisCallers : copy'[d].open <=> copy'[d].failures = RedisThreshold,
         \A d \in RedisCallers \ overtaken' : pc'[d] \notin {"failed", "probe"}
  PROVE  FailuresInvariant'
  BY RedisAssumption DEF FailuresInvariant, EmptyState

\* Every step keeps the count.
LEMMA FailuresStep ==
  ASSUME RedisTypeOK, FailuresInvariant, [RedisNext]_redisVars PROVE FailuresInvariant'
<1>1. ASSUME NEW c \in RedisCallers, AllowClosed(c) PROVE FailuresInvariant'
  BY <1>1, OthersKeep DEF AllowClosed
<1>2. ASSUME NEW c \in RedisCallers, AllowProbe(c) PROVE FailuresInvariant'
  <2>1. stored \in CircuitState
    BY DEF RedisTypeOK
  <2>2. PICK s : s = [stored EXCEPT !.half = TRUE]
    OBVIOUS
  <2>3. /\ s \in CircuitState
        /\ s.open = stored.open /\ s.failures = stored.failures
    BY <2>1, <2>2 DEF CircuitState
  <2>4. s.open <=> s.failures = RedisThreshold
    BY <2>3 DEF FailuresInvariant
  <2>5. RememberState(c, s) /\ MoveCaller(c, "idle", "probe")
    BY <1>2, <2>2 DEF AllowProbe
  <2> QED
    <3>1. UNCHANGED <<stored, overtaken, disturbed, reported>>
      BY <1>2 DEF AllowProbe
    <3> QED
      BY <3>1, <2>3, <2>4, <2>5, ReadStep
<1>3. ASSUME NEW c \in RedisCallers, SetHalfOpen(c) PROVE FailuresInvariant'
  <2>1. MoveCaller(c, "probe", "request") /\ Write(c) /\ reported' = reported
    BY <1>3 DEF SetHalfOpen
  <2>2. pc[c] = "probe"
    BY <2>1 DEF MoveCaller
  <2> QED
    BY <2>1, <2>2, WriteCounts
<1>4. ASSUME NEW c \in RedisCallers, GetFailures(c) PROVE FailuresInvariant'
  <2>1. PICK n : n = Bump(stored.failures)
    OBVIOUS
  <2>2. n \in 0..RedisThreshold
    BY <2>1, BumpStep DEF RedisTypeOK, CircuitState
  <2>3. PICK s : s = IF n >= RedisThreshold
           THEN [failures |-> n, open |-> TRUE, cooldown |-> RedisRecovery, half |-> FALSE]
           ELSE [EmptyState EXCEPT !.failures = n]
    OBVIOUS
  <2>4. s \in CircuitState
    BY <2>2, <2>3, CountedIsState
  <2>5. s.failures = n /\ (s.open <=> n = RedisThreshold)
    BY <2>2, <2>3, RedisAssumption DEF EmptyState
  <2>6. RememberState(c, s) /\ MoveCaller(c, "request", "failed")
    BY <1>4, <2>1, <2>3 DEF GetFailures
  <2> QED
    <3>1. UNCHANGED <<stored, overtaken, disturbed, reported>>
      BY <1>4 DEF GetFailures
    <3> QED
      BY <3>1, <2>1, <2>4, <2>5, <2>6, ReadStep
<1>5. ASSUME NEW c \in RedisCallers, SetFailure(c) PROVE FailuresInvariant'
  <2>1. MoveCaller(c, "failed", "idle") /\ Write(c) /\ reported' = Bump(reported)
    BY <1>5 DEF SetFailure
  <2>2. pc[c] = "failed"
    BY <2>1 DEF MoveCaller
  <2> QED
    BY <2>1, <2>2, WriteCounts
<1>6. ASSUME NEW c \in RedisCallers, SetSuccess(c) PROVE FailuresInvariant'
  <2>1. \A d \in RedisCallers \ overtaken' : pc'[d] \notin {"failed", "probe"}
    BY <1>6 DEF SetSuccess, Writing, MoveCaller, RedisTypeOK
  <2> QED
    BY <1>6, <2>1, EmptyCounts DEF SetSuccess, FailuresInvariant
<1>7. ASSUME NEW c \in RedisCallers, CallerVanishes(c) PROVE FailuresInvariant'
  <2>1. EmptyState.open <=> EmptyState.failures = RedisThreshold
    BY RedisAssumption DEF EmptyState
  <2>2. copy' = [copy EXCEPT ![c] = EmptyState] /\ pc' = [pc EXCEPT ![c] = "idle"]
    BY <1>7 DEF CallerVanishes, RememberState, MoveCaller
  <2>3. \A d \in RedisCallers : copy'[d].open <=> copy'[d].failures = RedisThreshold
    BY <2>1, <2>2 DEF FailuresInvariant, RedisTypeOK
  <2>4. ASSUME NEW d \in RedisCallers \ overtaken', pc'[d] \in {"failed", "probe"}
        PROVE  d # c /\ d \notin overtaken /\ pc'[d] = pc[d] /\ copy'[d] = copy[d]
    BY <1>7, <2>2, <2>4 DEF CallerVanishes, RedisTypeOK
  <2> QED
    BY <1>7, <2>3, <2>4 DEF CallerVanishes, FailuresInvariant, Bump
<1>8. CASE RedisTick
  <2>1. ASSUME NEW d \in RedisCallers
        PROVE  copy'[d].open = copy[d].open /\ copy'[d].failures = copy[d].failures
    <3>1. copy[d] \in CircuitState /\ copy'[d] = Cooler(copy[d])
      BY <1>8 DEF RedisTick, RedisTypeOK
    <3> QED
      BY <3>1, CoolerStep
  <2>2. \A d \in RedisCallers : copy'[d].open <=> copy'[d].failures = RedisThreshold
    BY <2>1 DEF FailuresInvariant
  <2>3. CASE life = 1 /\ stored # EmptyState
    <3>1. stored' = EmptyState /\ reported' = 0 /\ overtaken' = Writing /\ pc' = pc
      BY <1>8, <2>3 DEF RedisTick
    <3>2. \A d \in RedisCallers \ overtaken' : pc'[d] \notin {"failed", "probe"}
      BY <3>1 DEF Writing
    <3> QED
      BY <3>1, <3>2, <2>2, EmptyCounts
  <2>4. CASE ~(life = 1 /\ stored # EmptyState)
    <3>1. /\ stored' = Cooler(stored) /\ pc' = pc
          /\ UNCHANGED <<reported, overtaken, disturbed>>
      BY <1>8, <2>4 DEF RedisTick
    <3>2. stored'.open = stored.open /\ stored'.failures = stored.failures
      BY <3>1, CoolerStep DEF RedisTypeOK
    <3> QED
      BY <3>1, <3>2, <2>1, <2>2 DEF FailuresInvariant, Bump
  <2> QED
    BY <2>3, <2>4
<1>9. CASE UNCHANGED redisVars
  BY <1>9 DEF redisVars, FailuresInvariant, Bump
<1> QED
  BY <1>1, <1>2, <1>3, <1>4, <1>5, <1>6, <1>7, <1>8, <1>9 DEF RedisNext, CallerStep

\* The failures in Redis are those the workers recorded, and the circuit is open
\* exactly from the threshold on, unless one of them wrote what another had
\* changed since it read (resilience.py:161-188).
THEOREM FailuresCounted == RedisSpec => []FailuresAreCounted
<1>1. RedisInit => FailuresInvariant
  BY RedisAssumption DEF RedisInit, EmptyState, FailuresInvariant
<1>2. FailuresInvariant => FailuresAreCounted
  BY DEF FailuresInvariant, FailuresAreCounted
<1> QED
  BY <1>1, <1>2, FailuresStep, RedisTypeCorrect, PTL DEF RedisSpec

-----------------------------------------------------------------------------
(* Retries: how the delay grows.                                            *)

\* The delay starts with its base and doubles.
LEMMA GrowthDoubles ==
  /\ Growth \in [Nat -> Nat]
  /\ Growth[0] = BaseDelay
  /\ \A n \in Nat : Growth[n + 1] = 2 * Growth[n]
<1> DEFINE Doubles(g) == g = [n \in Nat |-> IF n = 0 THEN BaseDelay ELSE 2 * g[n - 1]]
           Delays == Nat
           step == [n \in Nat |-> [x \in Delays |-> 2 * x]]
<1>1. step \in Steps(Delays) /\ BaseDelay \in Delays
  BY RetriesAssumption DEF Steps
<1>2. PICK g \in [Nat -> Delays] : /\ g[0] = BaseDelay
                                   /\ \A n \in Nat : g[n + 1] = step[n + 1][g[n]]
  <2> HIDE DEF step, Delays
  <2> QED
    BY <1>1, Iteration DEF Iterates
<1>3. ASSUME NEW n \in Nat PROVE g[n + 1] = 2 * g[n]
  <2>1. g[n + 1] = step[n + 1][g[n]] /\ g[n] \in Nat /\ n + 1 \in Nat
    <3> HIDE DEF step
    <3> QED
      BY <1>2
  <2>2. step[n + 1] = [x \in Delays |-> 2 * x]
    BY <2>1
  <2> HIDE DEF step
  <2> QED
    BY <2>1, <2>2
<1>4. Doubles(g)
  <2>1. ASSUME NEW n \in Nat, n # 0 PROVE g[n] = 2 * g[n - 1]
    <3>1. n - 1 \in Nat /\ (n - 1) + 1 = n
      BY <2>1
    <3> QED
      BY <1>3, <3>1
  <2>2. g = [n \in Nat |-> g[n]]
    BY <1>2
  <2> QED
    BY <1>2, <2>1, <2>2
<1>5. Doubles(Growth)
  <2>1. Growth = CHOOSE f : Doubles(f)
    BY DEF Growth
  <2> HIDE DEF Doubles
  <2> QED
    BY <1>4, <2>1
<1>6. Growth[0] = BaseDelay /\ \A n \in Nat : Growth[n + 1] = 2 * Growth[n]
  BY <1>5
<1>7. ASSUME NEW n \in Nat PROVE Growth[n] \in Nat
  <2> DEFINE G == {k \in Nat : Growth[k] \in Nat}
  <2>1. 0 \in G
    BY <1>6, RetriesAssumption
  <2>2. \A k \in 0..n - 1 : k \in G => k + 1 \in G
    BY <1>6
  <2> HIDE DEF G
  <2>3. 0..n \subseteq G
    BY <2>1, <2>2, UpTo
  <2> QED
    BY <2>3 DEF G
<1> QED
  BY <1>5, <1>6, <1>7

\* So it does not shrink from one attempt to a later one.
LEMMA GrowthGrows ==
  ASSUME NEW m \in Nat, NEW n \in Nat, m <= n
  PROVE  Growth[m] <= Growth[n]
<1> DEFINE G == {k \in Nat : Growth[m] <= Growth[m + k]}
<1>1. 0 \in G
  BY GrowthDoubles
<1>2. ASSUME NEW k \in 0..(n - m) - 1, k \in G PROVE k + 1 \in G
  <2>1. m + k \in Nat /\ Growth[(m + k) + 1] = 2 * Growth[m + k]
    BY GrowthDoubles
  <2>2. Growth[m] \in Nat /\ Growth[m + k] \in Nat /\ Growth[m] <= Growth[m + k]
    BY <1>2, <2>1, GrowthDoubles
  <2>3. m + (k + 1) = (m + k) + 1
    OBVIOUS
  <2> QED
    BY <2>1, <2>2, <2>3
<1> HIDE DEF G
<1>3. n - m \in Nat /\ 0..n - m \subseteq G
  BY <1>1, <1>2, UpTo
<1> QED
  BY <1>3 DEF G

\* What delay_seconds is before its jitter.
Delay(attempt) ==
  IF Growth[attempt - 1] < MaxDelay THEN Growth[attempt - 1] ELSE MaxDelay

\* A wait is at most one and a half delays, the delays do not shrink, and none
\* is longer than the maximum.
LEMMA DelaysGrow ==
  ASSUME NEW i \in Nat \ {0}, NEW j \in Nat \ {0}, i <= j
  PROVE  /\ Delay(i) \in Nat /\ Delay(j) \in Nat
         /\ Delay(i) <= Delay(j) /\ Delay(j) <= MaxDelay
<1>1. i - 1 \in Nat /\ j - 1 \in Nat /\ i - 1 <= j - 1
  OBVIOUS
<1>2. Growth[i - 1] \in Nat /\ Growth[j - 1] \in Nat /\ Growth[i - 1] <= Growth[j - 1]
  BY <1>1, GrowthDoubles, GrowthGrows
<1> QED
  BY <1>2, RetriesAssumption DEF Delay

\* With its jitter, a wait is half the delay, the delay, or half as much again.
LEMMA BackoffsAreDelays ==
  ASSUME NEW i \in Nat \ {0}, NEW d \in Backoffs(i)
  PROVE  d = Delay(i) \/ d = 2 * Delay(i) \/ d = 3 * Delay(i)
<1>1. PICK k \in 1..3 : d = Delay(i) * k
  BY DEF Backoffs, Delay
<1>2. Delay(i) \in Nat
  BY DelaysGrow
<1>3. k = 1 \/ k = 2 \/ k = 3
  OBVIOUS
<1> QED
  BY <1>1, <1>2, <1>3

-----------------------------------------------------------------------------
(* Retries: the loop.                                                       *)

Wait == [halves : Nat, asked : BOOLEAN]
\* The types of the request and of what it has met.
RetriesTypeOK ==
  /\ budget \in 0..MaxAttempts
  /\ answers \in Seq(Answers)
  /\ waits \in Seq(Wait)
  /\ result \in {"not called", "none", "returned", "raised", "exhausted"}

\* Attempts and waits take turns; only what may be retried was, and every wait
\* of the policy is a multiple of the delay after its attempt.
LoopIsInStep ==
  /\ result = "not called" => answers = <<>> /\ waits = <<>>
  /\ result \in {"none", "exhausted"} => Len(waits) \in {Attempt - 1, Attempt}
  /\ result \in {"returned", "raised"} => Len(waits) = Attempt - 1
  /\ \A i \in 1..Attempt : i < Attempt \/ result \in {"none", "exhausted"} => ShouldRetry(answers[i])
  /\ \A i \in 1..Len(waits) :
       waits[i].asked \/ \E k \in 1..3 : waits[i].halves = k * Delay(i)

RetriesInvariant == RetriesTypeOK /\ LoopIsInStep

\* What the types say of the two sequences.
LEMMA Counted ==
  ASSUME RetriesTypeOK
  PROVE  /\ Attempt \in Nat /\ Len(waits) \in Nat /\ DOMAIN waits = 1..Len(waits)
         /\ \A i \in 1..Attempt : answers[i] \in Answers
         /\ \A i \in 1..Len(waits) : waits[i] \in Wait
<1>1. answers \in Seq(Answers)
  BY DEF RetriesTypeOK
<1>2. waits \in Seq(Wait)
  BY DEF RetriesTypeOK
<1>3. Attempt \in Nat /\ \A i \in 1..Attempt : answers[i] \in Answers
  BY <1>1 DEF Attempt
<1> QED
  BY <1>2, <1>3

\* An answer after which the loop goes on is neither a refusal nor a request
\* for a human.
LEMMA RetriedIsHarmless ==
  ASSUME NEW a \in Answers, ShouldRetry(a)
  PROVE  a.status \notin {401, 403} /\ ~a.review
<1>1. CASE a.kind = "ConnectionError"
  <2> DEFINE Plain == [kind : {"value", "ConnectionError", "other error"},
                       status : {0}, review : {FALSE}, after : {FALSE}]
             Responses == [kind : {"response"}, status : {401, 403, 404, 429, 502, 503},
                           review : BOOLEAN, after : BOOLEAN]
  <2>1. Answers = Plain \cup Responses
    BY DEF Answers
  <2>2. a \in Responses => a.kind = "response"
    OBVIOUS
  <2>3. a \in Plain => a.status = 0 /\ a.review = FALSE
    OBVIOUS
  <2> HIDE DEF Plain, Responses
  <2> QED
    BY <1>1, <2>1, <2>2, <2>3
<1>2. CASE a.kind # "ConnectionError"
  BY <1>2 DEF ShouldRetry
<1> QED
  BY <1>1, <1>2

\* An answer says whether it has a Retry-After.
LEMMA AnswersTellAfter ==
  ASSUME NEW a \in Answers PROVE a.after \in BOOLEAN
<1> DEFINE Plain == [kind : {"value", "ConnectionError", "other error"},
                     status : {0}, review : {FALSE}, after : {FALSE}]
           Responses == [kind : {"response"}, status : {401, 403, 404, 429, 502, 503},
                         review : BOOLEAN, after : BOOLEAN]
<1>1. Answers = Plain \cup Responses
  BY DEF Answers
<1>2. a \in Responses => a.after \in BOOLEAN
  OBVIOUS
<1>3. a \in Plain => a.after \in BOOLEAN
  OBVIOUS
<1> HIDE DEF Plain, Responses
<1> QED
  BY <1>1, <1>2, <1>3

\* Of an empty sequence nothing needs to be shown.
LEMMA NothingMet == \A i : i \notin 1..0
  OBVIOUS

\* Every step of the loop keeps attempts and waits in step.
LEMMA RetriesStep ==
  ASSUME RetriesInvariant, [RetriesNext]_retryVars
  PROVE  RetriesInvariant'
<1> USE RetriesAssumption DEF RetriesInvariant
<1>1. CASE RunWithRetry
  <2>1. /\ result = "not called" /\ result' = "none" /\ budget' \in 0..MaxAttempts
        /\ UNCHANGED <<answers, waits>>
    BY <1>1 DEF RunWithRetry
  <2>2. answers = <<>> /\ waits = <<>>
    BY <2>1 DEF LoopIsInStep
  <2>3. Attempt' = 0 /\ Len(waits') = 0
    BY <2>1, <2>2 DEF Attempt
  <2> HIDE DEF RetriesInvariant
  <2>4. LoopIsInStep'
    BY <2>1, <2>3, NothingMet DEF LoopIsInStep
  <2>5. RetriesTypeOK'
    BY <2>1 DEF RetriesInvariant, RetriesTypeOK
  <2> QED
    BY <2>4, <2>5 DEF RetriesInvariant
<1>2. CASE Operate
  <2>1. PICK answer \in Answers :
          /\ answers' = Append(answers, answer)
          /\ result' = IF answer.kind = "value" THEN "returned"
                       ELSE IF ShouldRetry(answer) /\ Attempt + 1 < budget THEN "none"
                       ELSE "raised"
    BY <1>2 DEF Operate
  <2>2. /\ result = "none" /\ Len(waits) = Attempt
        /\ UNCHANGED <<budget, waits>>
    BY <1>2 DEF Operate
  <2>3. /\ answers' \in Seq(Answers) /\ Attempt' = Attempt + 1 /\ Attempt \in Nat
        /\ \A i \in 1..Attempt : answers'[i] = answers[i]
        /\ answers'[Attempt + 1] = answer
    <3>1. answers \in Seq(Answers)
      BY DEF RetriesTypeOK
    <3> HIDE DEF RetriesInvariant
    <3> QED
      BY <2>1, <3>1 DEF Attempt
  <2>4. RetriesTypeOK'
    BY <2>1, <2>2, <2>3 DEF RetriesTypeOK
  <2>5. ASSUME NEW i \in 1..Attempt', i < Attempt' \/ result' \in {"none", "exhausted"}
        PROVE  ShouldRetry(answers'[i])
    <3>1. CASE i = Attempt + 1
      <4>1. result' \in {"none", "exhausted"}
        BY <2>3, <2>5, <3>1
      <4>2. ShouldRetry(answer)
        BY <2>1, <4>1
      <4> QED
        BY <2>3, <3>1, <4>2
    <3>2. CASE i # Attempt + 1
      BY <2>2, <2>3, <2>5, <3>2 DEF LoopIsInStep
    <3> QED
      BY <3>1, <3>2
  <2>6. LoopIsInStep'
    <3>1. result' \in {"none", "returned", "raised"}
      BY <2>1
    <3>2. Len(waits') = Attempt' - 1
      BY <2>2, <2>3
    <3>3. \A i \in 1..Len(waits') :
            waits'[i].asked \/ \E k \in 1..3 : waits'[i].halves = k * Delay(i)
      BY <2>2 DEF LoopIsInStep
    <3> HIDE DEF RetriesInvariant
    <3> QED
      BY <2>5, <3>1, <3>2, <3>3 DEF LoopIsInStep
  <2> QED
    BY <2>4, <2>6
<1>3. CASE Sleep
  <2>1. PICK d \in IF Answer.after THEN {2 * s : s \in RetryAfters} ELSE Backoffs(Attempt) :
          waits' = Append(waits, [halves |-> d, asked |-> Answer.after])
    BY <1>3 DEF Sleep
  <2>2. /\ result = "none" /\ Len(waits) < Attempt
        /\ UNCHANGED <<budget, answers, result>>
    BY <1>3 DEF Sleep
  <2>3. Attempt \in Nat \ {0} /\ Len(waits) + 1 = Attempt
    BY <2>2, Counted DEF LoopIsInStep
  <2>4. Answer.after \in BOOLEAN
    <3>1. Answer \in Answers
      BY <2>3, Counted DEF Answer
    <3> QED
      BY <3>1, AnswersTellAfter
  <2>5. d \in Nat /\ (Answer.after \/ \E k \in 1..3 : d = k * Delay(Attempt))
    <3>1. CASE Answer.after
      BY <2>1, <3>1
    <3>2. CASE ~Answer.after
      BY <2>1, <2>3, <3>2, BackoffsAreDelays, DelaysGrow
    <3> QED
      BY <2>4, <3>1, <3>2
  <2> DEFINE w == [halves |-> d, asked |-> Answer.after]
  <2>6. w \in Wait /\ w.halves = d /\ w.asked = Answer.after /\ waits' = Append(waits, w)
    BY <2>1, <2>4, <2>5 DEF Wait
  <2> HIDE DEF w
  <2>7. /\ waits' \in Seq(Wait) /\ Len(waits') = Attempt /\ Attempt' = Attempt
        /\ \A i \in 1..Len(waits) : waits'[i] = waits[i]
        /\ waits'[Attempt] = w
    <3>1. waits \in Seq(Wait) /\ Attempt' = Attempt
      BY <2>2 DEF RetriesTypeOK, Attempt
    <3> HIDE DEF RetriesInvariant
    <3> QED
      BY <2>3, <2>6, <3>1
  <2>8. ASSUME NEW i \in 1..Len(waits')
        PROVE  waits'[i].asked \/ \E k \in 1..3 : waits'[i].halves = k * Delay(i)
    <3>1. CASE i = Attempt
      BY <2>5, <2>6, <2>7, <3>1
    <3>2. CASE i # Attempt
      <4>1. i \in 1..Len(waits) /\ waits'[i] = waits[i]
        BY <2>3, <2>7, <3>2, Counted
      <4> QED
        BY <4>1 DEF LoopIsInStep
    <3> QED
      BY <3>1, <3>2
  <2>9. RetriesTypeOK'
    BY <2>2, <2>7 DEF RetriesTypeOK
  <2>10. LoopIsInStep'
    BY <2>2, <2>7, <2>8 DEF LoopIsInStep
  <2> QED
    BY <2>9, <2>10
<1>4. CASE Exhausted
  BY <1>4 DEF Exhausted, RetriesTypeOK, LoopIsInStep, Attempt
<1>5. CASE UNCHANGED retryVars
  BY <1>5 DEF retryVars, RetriesTypeOK, LoopIsInStep, Attempt
<1> QED
  BY <1>1, <1>2, <1>3, <1>4, <1>5 DEF RetriesNext

\* The invariant of the loop holds in every state.
LEMMA RetriesInvariantHolds == RetriesSpec => []RetriesInvariant
<1>1. RetriesInit => RetriesInvariant
  <2> SUFFICES ASSUME RetriesInit PROVE RetriesInvariant
    OBVIOUS
  <2>1. answers = <<>> /\ waits = <<>> /\ result = "not called" /\ budget = 0
    BY DEF RetriesInit
  <2>2. RetriesTypeOK
    <3>1. <<>> \in Seq(Answers) /\ <<>> \in Seq(Wait)
      OBVIOUS
    <3>2. 0 \in 0..MaxAttempts
      BY RetriesAssumption
    <3> QED
      BY <2>1, <3>1, <3>2 DEF RetriesTypeOK
  <2>3. LoopIsInStep
    <3>1. Attempt = 0 /\ Len(waits) = 0
      BY <2>1 DEF Attempt
    <3> QED
      BY <2>1, <3>1, NothingMet DEF LoopIsInStep
  <2> QED
    BY <2>2, <2>3 DEF RetriesInvariant
<1> QED
  BY <1>1, RetriesStep, PTL DEF RetriesSpec

\* However many attempts a policy has, and whatever the answers: a site that
\* refused or asked for a human is not called again (resilience.py:60-63).
THEOREM RefusalEndsRetries == RetriesSpec => []RefusalIsFinal
<1>1. RetriesInvariant => RefusalIsFinal
  <2> SUFFICES ASSUME RetriesInvariant, NEW i \in 1..Attempt - 1
               PROVE  answers[i].status \notin {401, 403} /\ ~answers[i].review
    BY DEF RefusalIsFinal
  <2>1. i \in 1..Attempt /\ i < Attempt /\ answers[i] \in Answers
    BY Counted DEF RetriesInvariant
  <2>2. ShouldRetry(answers[i])
    BY <2>1 DEF RetriesInvariant, LoopIsInStep
  <2> QED
    BY <2>1, <2>2, RetriedIsHarmless
<1> QED
  BY <1>1, RetriesInvariantHolds, PTL

\* For every policy: the request waits between attempts only, at most one and a
\* half maximal delays unless the site asks for more, and its delays do not
\* shrink but by jitter (resilience.py:27-34,66-76).
THEOREM WaitsStayBounded == RetriesSpec => []WaitsAreBounded
<1>1. RetriesInvariant => WaitsAreBounded
  <2> SUFFICES ASSUME RetriesInvariant PROVE WaitsAreBounded
    OBVIOUS
  <2>1. DOMAIN waits = 1..Len(waits) /\ Len(waits) \in Nat
    BY Counted DEF RetriesInvariant
  <2>2. ASSUME NEW i \in DOMAIN waits, ~waits[i].asked
        PROVE  \E k \in 1..3 : waits[i].halves = k * Delay(i)
    BY <2>1, <2>2 DEF RetriesInvariant, LoopIsInStep
  <2>3. ASSUME NEW i \in DOMAIN waits, ~waits[i].asked
        PROVE  waits[i].halves <= 3 * MaxDelay
    <3>1. PICK k \in 1..3 : waits[i].halves = k * Delay(i)
      BY <2>2, <2>3
    <3>2. Delay(i) \in Nat /\ Delay(i) <= MaxDelay
      BY <2>1, DelaysGrow
    <3>3. k = 1 \/ k = 2 \/ k = 3
      OBVIOUS
    <3> QED
      BY <3>1, <3>2, <3>3, RetriesAssumption
  <2>4. ASSUME NEW i \in DOMAIN waits, NEW j \in DOMAIN waits, i < j,
               ~waits[i].asked, ~waits[j].asked
        PROVE  waits[i].halves <= 3 * waits[j].halves
    <3>1. PICK k \in 1..3 : waits[i].halves = k * Delay(i)
      BY <2>2, <2>4
    <3>2. PICK l \in 1..3 : waits[j].halves = l * Delay(j)
      BY <2>2, <2>4
    <3>3. Delay(i) \in Nat /\ Delay(j) \in Nat /\ Delay(i) <= Delay(j)
      BY <2>1, <2>4, DelaysGrow
    <3>4. (k = 1 \/ k = 2 \/ k = 3) /\ (l = 1 \/ l = 2 \/ l = 3)
      OBVIOUS
    <3> QED
      BY <3>1, <3>2, <3>3, <3>4
  <2>5. result \in {"returned", "raised"} => Len(waits) = Attempt - 1
    BY DEF RetriesInvariant, LoopIsInStep
  <2> QED
    BY <2>3, <2>4, <2>5 DEF WaitsAreBounded
<1> QED
  BY <1>1, RetriesInvariantHolds, PTL

-----------------------------------------------------------------------------
(* RateLimiter.                                                             *)

\* The moments the stretches of a window's length reach.
Reach == 0 - Window..LastMoment + Window

LimiterTypeOK ==
  /\ moment \in Moments
  /\ granted \in [Moments -> Nat]
  /\ denied \subseteq 0..moment
  /\ \/ window = NoWindow
     \/ window \in [start : 0..moment, count : 0..MaxRequests]

\* The history does not shrink, and nothing of it is in the future.
HistoryIsPast ==
  /\ \A s, t \in Moments : s <= t => granted[s] <= granted[t]
  /\ \A t \in Moments : t >= moment => granted[t] = granted[moment]

\* A window that is stored counts what was granted since it began, nothing was
\* granted after its end, and the windows before it granted at most one
\* window's worth in the stretches that still matter.
WindowCounts ==
  /\ window = NoWindow => \A t \in Moments : granted[t] = 0
  /\ window # NoWindow =>
       /\ window.count = GrantedBetween(window.start, moment)
       /\ \A t \in Moments : t >= window.start + Window - 1 => granted[t] = granted[moment]
       /\ \A t \in Reach : window.start - Window < t /\ t < window.start =>
            GrantedBetween(t, window.start - 1) <= MaxRequests

LimiterInvariant == LimiterTypeOK /\ HistoryIsPast /\ WindowCounts /\ TwoWindowsAtMost

\* What the history says of any moment.
LEMMA GrantedSoFar ==
  ASSUME LimiterTypeOK, HistoryIsPast
  PROVE  /\ \A t \in Int : GrantedBy(t) \in Nat
         /\ \A s, t \in Int : s <= t => GrantedBy(s) <= GrantedBy(t)
         /\ \A t \in Int : t >= moment => GrantedBy(t) = GrantedBy(moment)
         /\ GrantedBy(moment) = granted[moment]
         /\ moment \in Nat /\ moment \in 0..LastMoment
         /\ moment \in Int /\ moment - 1 \in Int
<1> USE LimiterAssumption DEF LimiterTypeOK, HistoryIsPast, Moments, GrantedBy
<1>1. ASSUME NEW t \in Int PROVE GrantedBy(t) \in Nat
  OBVIOUS
<1>2. ASSUME NEW s \in Int, NEW t \in Int, s <= t PROVE GrantedBy(s) <= GrantedBy(t)
  <2>1. CASE s < 0
    BY <1>1, <2>1
  <2>2. CASE s >= 0
    BY <1>2, <2>2
  <2> QED
    BY <2>1, <2>2
<1>3. ASSUME NEW t \in Int, t >= moment PROVE GrantedBy(t) = GrantedBy(moment)
  BY <1>3
<1> QED
  BY <1>1, <1>2, <1>3

\* What a grant does to it.
LEMMA GrantAddsOne ==
  ASSUME LimiterTypeOK, HistoryIsPast,
         granted' = [t \in Moments |-> IF t >= moment THEN granted[t] + 1 ELSE granted[t]]
  PROVE  \A t \in Int : GrantedBy(t)' = IF t >= moment THEN GrantedBy(t) + 1 ELSE GrantedBy(t)
BY LimiterAssumption DEF LimiterTypeOK, Moments, GrantedBy

\* The window that counts: it holds the moment, and what was granted since it
\* began.
CurrentCounts(w) ==
  /\ w \in [start : 0..moment, count : 0..MaxRequests]
  /\ moment - w.start < Window
  /\ w.count = GrantedBetween(w.start, moment)
  /\ \A t \in Int : w.start - Window < t /\ t < w.start =>
       GrantedBetween(t, w.start - 1) <= MaxRequests

\* The window that counts is exact, stored or new.
LEMMA CurrentIsExact ==
  ASSUME LimiterInvariant PROVE CurrentCounts(Current)
<1> USE LimiterAssumption DEF LimiterInvariant
<1>1. /\ moment \in Nat /\ moment \in 0..LastMoment
      /\ \A t \in Int : GrantedBy(t) \in Nat
      /\ \A s, t \in Int : s <= t => GrantedBy(s) <= GrantedBy(t)
      /\ \A t \in Int : t >= moment => GrantedBy(t) = GrantedBy(moment)
  BY GrantedSoFar
<1>2. CASE window = NoWindow
  <2>1. Current = [start |-> moment, count |-> 0]
    BY <1>2 DEF Current
  <2>2. ASSUME NEW t \in Int PROVE GrantedBy(t) = 0
    BY <1>2 DEF WindowCounts, GrantedBy, Moments
  <2>3. GrantedBetween(moment, moment) = 0
    BY <1>1, <2>2 DEF GrantedBetween
  <2>4. ASSUME NEW t \in Int PROVE GrantedBetween(t, moment - 1) <= MaxRequests
    <3>1. t - 1 \in Int /\ moment - 1 \in Int
      BY <1>1
    <3> QED
      BY <2>2, <3>1 DEF GrantedBetween
  <2> QED
    BY <1>1, <2>1, <2>3, <2>4 DEF CurrentCounts
<1>3. CASE window # NoWindow
  <2> DEFINE s == window.start
  <2>1. /\ window \in [start : 0..moment, count : 0..MaxRequests]
        /\ window.count = GrantedBetween(s, moment)
        /\ \A t \in Moments : t >= s + Window - 1 => granted[t] = granted[moment]
    BY <1>3 DEF LimiterTypeOK, WindowCounts
  <2>2. s \in 0..moment /\ s \in Int /\ s - 1 \in Int /\ window.count \in Nat
    BY <1>1, <2>1
  <2>3. CASE moment - s >= Window
    <3>1. Current = [start |-> moment, count |-> 0]
      BY <2>3 DEF Current
    <3>2. moment \in Int /\ moment - 1 \in Int /\ moment - 1 \in Moments /\ moment \in Moments
      BY <1>1, <2>2, <2>3 DEF Moments
    <3>3. granted[moment - 1] = granted[moment]
      BY <2>1, <2>2, <2>3, <3>2
    <3>4. GrantedBy(moment - 1) = GrantedBy(moment)
      BY <1>1, <3>2, <3>3 DEF GrantedBy, Moments
    <3>5. ASSUME NEW t \in Int, moment - Window < t, t < moment
          PROVE  GrantedBetween(t, moment - 1) <= MaxRequests
      <4>1. s - 1 <= t - 1 /\ t - 1 \in Int
        BY <1>1, <2>2, <2>3, <3>5
      <4>2. GrantedBy(s - 1) <= GrantedBy(t - 1)
        BY <1>1, <2>2, <4>1
      <4>3. GrantedBy(moment) - GrantedBy(s - 1) <= MaxRequests
        BY <2>1 DEF GrantedBetween
      <4> QED
        BY <1>1, <2>2, <3>2, <3>4, <4>1, <4>2, <4>3 DEF GrantedBetween
    <3>6. GrantedBetween(moment, moment) = 0
      BY <1>1, <3>2, <3>4 DEF GrantedBetween
    <3> QED
      BY <1>1, <3>1, <3>5, <3>6 DEF CurrentCounts
  <2>4. CASE moment - s < Window
    <3>1. Current = window
      BY <1>1, <1>3, <2>2, <2>4 DEF Current
    <3>2. ASSUME NEW t \in Int, s - Window < t, t < s
          PROVE  GrantedBetween(t, s - 1) <= MaxRequests
      <4>1. t \in Reach
        BY <1>1, <2>2, <3>2 DEF Reach
      <4> QED
        BY <1>3, <3>2, <4>1 DEF WindowCounts
    <3> QED
      BY <2>1, <2>4, <3>1, <3>2 DEF CurrentCounts
  <2> QED
    BY <1>1, <2>2, <2>3, <2>4
<1> QED
  BY <1>2, <1>3

\* The windows stay within their numbers when a request is allowed.
LEMMA GrantKeepsWindows ==
  ASSUME LimiterInvariant, Grant PROVE LimiterInvariant'
<1> USE LimiterAssumption
<1> PICK c : c = Current
  OBVIOUS
<1>1. /\ LimiterTypeOK /\ HistoryIsPast /\ WindowCounts /\ TwoWindowsAtMost
      /\ CurrentCounts(c)
  BY CurrentIsExact DEF LimiterInvariant
<1>2. /\ c.count < MaxRequests /\ window' = [c EXCEPT !.count = @ + 1]
      /\ granted' = [t \in Moments |-> IF t >= moment THEN granted[t] + 1 ELSE granted[t]]
      /\ moment' = moment /\ denied' = denied
  BY DEF Grant
<1>3. /\ moment \in Nat /\ moment \in 0..LastMoment /\ moment \in Int /\ moment - 1 \in Int
      /\ \A t \in Int : GrantedBy(t) \in Nat
      /\ \A s, t \in Int : s <= t => GrantedBy(s) <= GrantedBy(t)
      /\ \A t \in Int : t >= moment => GrantedBy(t) = GrantedBy(moment)
  BY <1>1, GrantedSoFar
<1>4. \A t \in Int : GrantedBy(t)' = IF t >= moment THEN GrantedBy(t) + 1 ELSE GrantedBy(t)
  BY <1>1, <1>2, GrantAddsOne
<1>5. /\ c.start \in 0..moment /\ c.start \in Int /\ c.start - 1 \in Int
      /\ moment - c.start < Window /\ c.count \in Nat
      /\ c.count = GrantedBetween(c.start, moment)
  BY <1>1, <1>3 DEF CurrentCounts
<1>6. /\ window'.start = c.start /\ window'.count = c.count + 1
      /\ window' \in [start : 0..moment, count : 0..MaxRequests]
  BY <1>1, <1>2, <1>5 DEF CurrentCounts
<1>7. LimiterTypeOK'
  BY <1>1, <1>2, <1>6 DEF LimiterTypeOK, Moments
<1>8. HistoryIsPast'
  BY <1>1, <1>2 DEF LimiterTypeOK, HistoryIsPast, Moments
<1>9. ASSUME NEW t \in Int, t < c.start, c.start - Window < t
      PROVE  /\ GrantedBetween(t, c.start - 1) <= MaxRequests
             /\ GrantedBetween(t, c.start - 1)' = GrantedBetween(t, c.start - 1)
  <2>1. t - 1 \in Int /\ t - 1 < moment /\ c.start - 1 < moment
    BY <1>3, <1>5, <1>9
  <2> QED
    BY <1>1, <1>2, <1>3, <1>4, <1>5, <1>9, <2>1 DEF CurrentCounts, GrantedBetween
<1>10. GrantedBetween(c.start, moment)' = c.count + 1
  BY <1>2, <1>3, <1>4, <1>5 DEF GrantedBetween
<1>11. WindowCounts'
  <2>1. window' # NoWindow
    BY <1>3, <1>5, <1>6 DEF NoWindow
  <2>2. ASSUME NEW t \in Moments, t >= c.start + Window - 1
        PROVE  granted'[t] = granted'[moment]
    <3>1. t >= moment /\ moment \in Moments
      BY <1>3, <1>5, <2>2 DEF Moments
    <3>2. granted[t] = granted[moment]
      BY <1>1, <3>1 DEF HistoryIsPast
    <3> QED
      BY <1>2, <1>3, <3>1, <3>2 DEF Moments
  <2>3. \A t \in Reach : t \in Int
    BY DEF Reach
  <2> QED
    BY <1>2, <1>6, <1>9, <1>10, <2>1, <2>2, <2>3 DEF WindowCounts
<1>12. ASSUME NEW t \in Moments
       PROVE  GrantedBetween(t, t + Window - 1)' <= 2 * MaxRequests
  <2>1. t \in Int /\ t - 1 \in Int /\ t + Window - 1 \in Int
    BY DEF Moments
  <2>2. GrantedBetween(t, t + Window - 1) <= 2 * MaxRequests
    BY <1>1 DEF TwoWindowsAtMost
  <2>3. CASE t + Window - 1 < moment
    BY <1>2, <1>3, <1>4, <2>1, <2>2, <2>3 DEF GrantedBetween
  <2>4. CASE t > moment
    BY <1>2, <1>3, <1>4, <2>1, <2>2, <2>4 DEF GrantedBetween
  <2>5. CASE t <= moment /\ moment <= t + Window - 1
    <3>1. GrantedBetween(t, t + Window - 1)' = GrantedBy(moment) + 1 - GrantedBy(t - 1)
      BY <1>2, <1>3, <1>4, <2>1, <2>5 DEF GrantedBetween
    <3>2. GrantedBy(moment) - GrantedBy(c.start - 1) <= MaxRequests - 1
      BY <1>2, <1>3, <1>5 DEF GrantedBetween
    <3>3. CASE c.start <= t
      BY <1>3, <1>5, <2>1, <3>1, <3>2, <3>3
    <3>4. CASE t < c.start
      <4>1. GrantedBy(c.start - 1) - GrantedBy(t - 1) <= MaxRequests
        BY <1>3, <1>5, <1>9, <2>1, <2>5, <3>4 DEF GrantedBetween
      <4> QED
        BY <1>3, <1>5, <2>1, <3>1, <3>2, <4>1
    <3> QED
      BY <1>5, <2>1, <3>3, <3>4
  <2> QED
    BY <1>3, <2>1, <2>3, <2>4, <2>5
<1>13. ASSUME NEW t \in denied'
       PROVE  GrantedBetween(t - Window + 1, t)' >= MaxRequests
  <2>1. t \in denied /\ t \in 0..moment
    BY <1>1, <1>2, <1>13 DEF LimiterTypeOK
  <2>2. t \in Int /\ t - Window \in Int /\ (t - Window + 1) - 1 = t - Window /\ t - Window < moment
    BY <1>3, <2>1
  <2>3. GrantedBy(t) - GrantedBy(t - Window) >= MaxRequests
    BY <1>1, <2>1, <2>2 DEF TwoWindowsAtMost, GrantedBetween
  <2>4. GrantedBy(t - Window)' = GrantedBy(t - Window) /\ GrantedBy(t)' >= GrantedBy(t)
    BY <1>3, <1>4, <2>1, <2>2
  <2> QED
    BY <1>3, <1>4, <2>2, <2>3, <2>4 DEF GrantedBetween
<1> QED
  BY <1>7, <1>8, <1>11, <1>12, <1>13 DEF LimiterInvariant, TwoWindowsAtMost

\* A request is denied only when its window is full.
LEMMA DenyKeepsWindows ==
  ASSUME LimiterInvariant, Deny PROVE LimiterInvariant'
<1> USE LimiterAssumption
<1>1. /\ LimiterTypeOK /\ HistoryIsPast /\ WindowCounts /\ TwoWindowsAtMost
      /\ CurrentCounts(Current)
  BY CurrentIsExact DEF LimiterInvariant
<1>2. /\ Current.count >= MaxRequests /\ denied' = denied \cup {moment}
      /\ window' = window /\ granted' = granted /\ moment' = moment
  BY DEF Deny
<1>3. /\ moment \in Nat /\ moment \in 0..LastMoment /\ moment \in Int
      /\ \A t \in Int : GrantedBy(t) \in Nat
      /\ \A s, t \in Int : s <= t => GrantedBy(s) <= GrantedBy(t)
  <2>1. moment \in 0..LastMoment
    BY <1>1 DEF LimiterTypeOK, Moments
  <2> QED
    BY <1>1, <2>1, GrantedSoFar
<1>4. \A a, b : GrantedBetween(a, b)' = GrantedBetween(a, b)
  BY <1>2 DEF GrantedBetween, GrantedBy
<1>5. GrantedBetween(moment - Window + 1, moment) >= MaxRequests
  <2>1. /\ Current.start \in 0..moment /\ moment - Current.start < Window
        /\ GrantedBy(moment) - GrantedBy(Current.start - 1) >= MaxRequests
    BY <1>1, <1>2 DEF CurrentCounts, GrantedBetween
  <2>2. /\ moment - Window \in Int /\ Current.start - 1 \in Int
        /\ moment - Window <= Current.start - 1 /\ (moment - Window + 1) - 1 = moment - Window
    BY <1>3, <2>1
  <2>3. GrantedBy(moment - Window) <= GrantedBy(Current.start - 1)
    BY <1>3, <2>2
  <2> QED
    BY <1>3, <2>1, <2>2, <2>3 DEF GrantedBetween
<1>6. LimiterTypeOK' /\ HistoryIsPast' /\ WindowCounts'
  <2>1. denied' \subseteq 0..moment'
    BY <1>1, <1>2, <1>3 DEF LimiterTypeOK
  <2> QED
    BY <1>1, <1>2, <1>4, <2>1 DEF LimiterTypeOK, HistoryIsPast, WindowCounts
<1>7. TwoWindowsAtMost'
  BY <1>1, <1>2, <1>4, <1>5 DEF TwoWindowsAtMost
<1> QED
  BY <1>6, <1>7 DEF LimiterInvariant

\* Time changes nothing of what was granted.
LEMMA TimeKeepsWindows ==
  ASSUME LimiterInvariant, TimeAdvances PROVE LimiterInvariant'
<1> USE LimiterAssumption
<1>1. /\ LimiterTypeOK /\ HistoryIsPast /\ WindowCounts /\ TwoWindowsAtMost
  BY DEF LimiterInvariant
<1>2. /\ moment < LastMoment /\ moment' = moment + 1
      /\ window' = window /\ granted' = granted /\ denied' = denied
  BY DEF TimeAdvances
<1>3. /\ moment \in Nat /\ moment \in Moments /\ moment + 1 \in Moments
      /\ GrantedBy(moment + 1) = GrantedBy(moment)
      /\ granted[moment + 1] = granted[moment]
  <2>1. /\ moment \in Nat /\ moment \in Moments /\ moment + 1 \in Moments
        /\ moment + 1 \in Int /\ moment + 1 >= moment
    BY <1>1, <1>2 DEF LimiterTypeOK, Moments
  <2>2. GrantedBy(moment + 1) = GrantedBy(moment)
    BY <1>1, <2>1, GrantedSoFar
  <2>3. granted[moment + 1] = granted[moment]
    BY <1>1, <2>1 DEF HistoryIsPast
  <2> QED
    BY <2>1, <2>2, <2>3
<1>4. \A a, b : GrantedBetween(a, b)' = GrantedBetween(a, b)
  BY <1>2 DEF GrantedBetween, GrantedBy
<1>5. LimiterTypeOK'
  BY <1>1, <1>2, <1>3 DEF LimiterTypeOK, NoWindow
<1>6. HistoryIsPast'
  BY <1>1, <1>2, <1>3 DEF HistoryIsPast, LimiterTypeOK, Moments
<1>7. \A a : GrantedBetween(a, moment)' = GrantedBetween(a, moment)
  <2>1. GrantedBy(moment)' = GrantedBy(moment)
    BY <1>2, <1>3 DEF GrantedBy
  <2> QED
    BY <1>2, <1>3, <1>4 DEF GrantedBetween, GrantedBy
<1>8. WindowCounts'
  <2>1. CASE window = NoWindow
    BY <1>1, <1>2, <2>1 DEF WindowCounts
  <2>2. CASE window # NoWindow
    <3>1. window'.count = GrantedBetween(window.start, moment)'
      <4>1. window.count = GrantedBetween(window.start, moment)
        BY <1>1, <2>2 DEF WindowCounts
      <4>2. GrantedBetween(window.start, moment)' = GrantedBetween(window.start, moment)
        BY <1>2, <1>7
      <4> QED
        BY <1>2, <4>1, <4>2
    <3>2. \A t \in Moments : t >= window.start + Window - 1 => granted[t] = granted[moment + 1]
      BY <1>1, <1>3, <2>2 DEF WindowCounts
    <3>3. \A t \in Reach : window.start - Window < t /\ t < window.start =>
            GrantedBetween(t, window.start - 1)' <= MaxRequests
      BY <1>1, <1>2, <1>4, <2>2 DEF WindowCounts
    <3> QED
      BY <1>2, <2>2, <3>1, <3>2, <3>3 DEF WindowCounts
  <2> QED
    BY <2>1, <2>2
<1>9. TwoWindowsAtMost'
  BY <1>1, <1>2, <1>4 DEF TwoWindowsAtMost
<1> QED
  BY <1>5, <1>6, <1>8, <1>9 DEF LimiterInvariant

\* For every limit, window and sequence of requests: no stretch of a window's
\* length sees more than two windows' worth of requests, and a request is
\* denied only when such a stretch is full (resilience.py:122-137).
THEOREM TwoWindowsAlways == LimiterSpec => []TwoWindowsAtMost
<1>1. LimiterInit => LimiterInvariant
  <2> SUFFICES ASSUME LimiterInit PROVE LimiterInvariant
    OBVIOUS
  <2> USE LimiterAssumption
  <2>1. /\ moment = 0 /\ window = NoWindow /\ denied = {}
        /\ granted = [t \in Moments |-> 0]
    BY DEF LimiterInit
  <2>2. LimiterTypeOK
    BY <2>1 DEF LimiterTypeOK, Moments
  <2>3. HistoryIsPast /\ WindowCounts
    BY <2>1 DEF HistoryIsPast, WindowCounts, Moments
  <2>4. ASSUME NEW t \in Moments
        PROVE  GrantedBetween(t, t + Window - 1) <= 2 * MaxRequests
    BY <2>1 DEF GrantedBetween, GrantedBy, Moments
  <2>5. TwoWindowsAtMost
    BY <2>1, <2>4 DEF TwoWindowsAtMost
  <2> QED
    BY <2>2, <2>3, <2>5 DEF LimiterInvariant
<1>2. LimiterInvariant /\ [LimiterNext]_limiterVars => LimiterInvariant'
  <2> SUFFICES ASSUME LimiterInvariant, [LimiterNext]_limiterVars PROVE LimiterInvariant'
    OBVIOUS
  <2>1. CASE UNCHANGED limiterVars
    BY <2>1 DEF limiterVars, LimiterInvariant, LimiterTypeOK, HistoryIsPast,
                WindowCounts, TwoWindowsAtMost, GrantedBetween, GrantedBy
  <2> QED
    BY <2>1, GrantKeepsWindows, DenyKeepsWindows, TimeKeepsWindows DEF LimiterNext
<1>3. LimiterInvariant => TwoWindowsAtMost
  BY DEF LimiterInvariant
<1> QED
  BY <1>1, <1>2, <1>3, PTL DEF LimiterSpec
=============================================================================
