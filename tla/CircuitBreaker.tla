---------------------------- MODULE CircuitBreaker ----------------------------
(***************************************************************************)
(* CircuitBreaker (resilience.py) for one source: the in-memory circuit of *)
(* one process.  Every method runs in one step; the requests it admits are *)
(* in flight while others ask.  Time is relative: what is left of the      *)
(* cooldown.                                                               *)
(***************************************************************************)
EXTENDS Integers, FiniteSets

CONSTANTS
  Callers,    \* concurrent users of the breaker
  Threshold,  \* failure_threshold
  Recovery,   \* recovery_seconds
  ProbesReport \* the caller of a probe records its outcome; others may not

ASSUME BreakerAssumption ==
  /\ Threshold \in Nat \ {0} /\ Recovery \in Nat \ {0}
  /\ ProbesReport \in BOOLEAN

VARIABLES
  failures,   \* _CircuitState.failures, capped at Threshold: only >= is asked
  open,       \* opened_at is set
  cooldown,   \* recovery_seconds - (now - opened_at), down to 0
  half,       \* half_open
  inFlight,   \* callers whose request was admitted and not yet recorded
  probes      \* those admitted since the circuit last opened

vars == <<failures, open, cooldown, half, inFlight, probes>>

Init ==
  /\ failures = 0 /\ open = FALSE /\ cooldown = 0 /\ half = FALSE
  /\ inFlight = {} /\ probes = {}

Allowed == ~open \/ (cooldown = 0 /\ ~half)

(* Faulty variants of definitions below: mistakes the properties must find. *)

\* The probe is not marked.
AdmitUnmarked(c) ==
  /\ c \notin inFlight
  /\ Allowed
  /\ inFlight' = inFlight \cup {c}
  /\ probes' = IF open THEN probes \cup {c} ELSE probes
  /\ UNCHANGED <<failures, open, cooldown, half>>

\* A probe that fails leaves its mark.
RecordFailureKeepsMark(c) ==
  /\ c \in inFlight
  /\ inFlight' = inFlight \ {c}
  /\ failures' = IF failures < Threshold THEN failures + 1 ELSE failures
  /\ IF failures' >= Threshold
       THEN open' = TRUE /\ cooldown' = Recovery /\ UNCHANGED half /\ probes' = {}
       ELSE UNCHANGED <<open, cooldown, half>> /\ probes' = probes \ {c}

\* allow_request returned True; the first one after the cooldown is the probe.
Admit(c) ==
  /\ c \notin inFlight
  /\ Allowed
  /\ half' = open
  /\ inFlight' = inFlight \cup {c}
  /\ probes' = IF open THEN probes \cup {c} ELSE probes
  /\ UNCHANGED <<failures, open, cooldown>>

RecordFailure(c) ==
  /\ c \in inFlight
  /\ inFlight' = inFlight \ {c}
  /\ failures' = IF failures < Threshold THEN failures + 1 ELSE failures
  /\ IF failures' >= Threshold
       THEN open' = TRUE /\ cooldown' = Recovery /\ half' = FALSE /\ probes' = {}
       ELSE UNCHANGED <<open, cooldown, half>> /\ probes' = probes \ {c}

RecordSuccess(c) ==
  /\ c \in inFlight
  /\ inFlight' = inFlight \ {c}
  /\ failures' = 0 /\ open' = FALSE /\ cooldown' = 0 /\ half' = FALSE
  /\ probes' = {}

\* A request may end without an outcome.  When it was the probe, nothing ever
\* clears half_open.
Abandon(c) ==
  /\ c \in inFlight
  /\ ProbesReport => c \notin probes
  /\ inFlight' = inFlight \ {c}
  /\ UNCHANGED <<failures, open, cooldown, half, probes>>

Tick ==
  /\ cooldown > 0
  /\ cooldown' = cooldown - 1
  /\ UNCHANGED <<failures, open, half, inFlight, probes>>

Record(c) == RecordFailure(c) \/ RecordSuccess(c)

Next == Tick \/ \E c \in Callers : Admit(c) \/ Record(c) \/ Abandon(c)

Spec == Init /\ [][Next]_vars

\* Time passes and requests end; nobody has to ask.
FairSpec == Spec /\ WF_vars(Tick) /\ \A c \in Callers : WF_vars(Record(c))

-----------------------------------------------------------------------------
TypeOK ==
  /\ failures \in 0..Threshold /\ cooldown \in 0..Recovery
  /\ open \in BOOLEAN /\ half \in BOOLEAN
  /\ inFlight \subseteq Callers /\ probes \subseteq Callers

\* Between an opening and the outcome that ends it, one caller at most gets
\* through, however many ask after the cooldown and whatever older requests
\* report meanwhile.
OneProbe == Cardinality(probes) <= 1

\* A circuit that rejects does so for a bounded time: the cooldown passes and
\* the probe reports.
RejectionEnds == ~Allowed ~> Allowed
=============================================================================
