------------------------------ MODULE RateLimiter ------------------------------
(***************************************************************************)
(* FixedWindowRateLimiter (resilience.py) for one source.  The windows     *)
(* begin with a request, not on a grid.                                    *)
(***************************************************************************)
EXTENDS Integers

CONSTANTS
  MaxRequests,  \* max_requests
  Window,       \* window_seconds, in moments
  LastMoment    \* bound: time ends here

ASSUME LimiterAssumption ==
  MaxRequests \in Nat /\ Window \in Nat \ {0} /\ LastMoment \in Nat

VARIABLES
  moment,   \* now
  window,   \* the start and the count of the window; NoWindow when none is stored
  granted,  \* history: how many requests were allowed up to each moment
  denied    \* history: the moments at which one was not

limiterVars == <<moment, window, granted, denied>>

Moments == 0..LastMoment
NoWindow == [start |-> -1, count |-> 0]

LimiterInit ==
  /\ moment = 0 /\ window = NoWindow
  /\ granted = [t \in Moments |-> 0] /\ denied = {}

(* A faulty variant of Current: a mistake the property must find. *)

\* A window counts for the moment it began in only.
CurrentSlides ==
  IF window = NoWindow \/ moment - window.start >= 1
    THEN [start |-> moment, count |-> 0] ELSE window

\* The window that counts: a new one when none is stored or it has passed.
Current ==
  IF window = NoWindow \/ moment - window.start >= Window
    THEN [start |-> moment, count |-> 0] ELSE window

Grant ==
  /\ Current.count < MaxRequests
  /\ window' = [Current EXCEPT !.count = @ + 1]
  /\ granted' = [t \in Moments |-> IF t >= moment THEN granted[t] + 1 ELSE granted[t]]
  /\ UNCHANGED <<moment, denied>>

Deny ==
  /\ Current.count >= MaxRequests
  /\ denied' = denied \cup {moment}
  /\ UNCHANGED <<moment, window, granted>>

TimeAdvances ==
  /\ moment < LastMoment /\ moment' = moment + 1
  /\ UNCHANGED <<window, granted, denied>>

LimiterNext == Grant \/ Deny \/ TimeAdvances

LimiterSpec == LimiterInit /\ [][LimiterNext]_limiterVars

-----------------------------------------------------------------------------
GrantedBy(t) == IF t < 0 THEN 0 ELSE granted[IF t < LastMoment THEN t ELSE LastMoment]
GrantedBetween(a, b) == GrantedBy(b) - GrantedBy(a - 1)

\* However the requests fall, no stretch of a window's length sees more than
\* two windows' worth of them, and one is denied only after a full window's
\* worth in that length.
TwoWindowsAtMost ==
  /\ \A t \in Moments : GrantedBetween(t, t + Window - 1) <= 2 * MaxRequests
  /\ \A t \in denied : GrantedBetween(t - Window + 1, t) >= MaxRequests
=============================================================================
