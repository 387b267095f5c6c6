---------------------------- MODULE BrowserSession ----------------------------
(***************************************************************************)
(* The session state of one Edge profile (browser_session.py): one Redis   *)
(* value, written by browser runs that observed a page and by the operator *)
(* who logged in by hand.  Between an observation or a login and its       *)
(* recording others may use the profile and record, the user may die, and  *)
(* the command that stores the state may fail before or after Redis has    *)
(* applied it.                                                             *)
(***************************************************************************)
EXTENDS Naturals

CONSTANT Observers  \* browser runs that use the profile

VARIABLES
  session,    \* Redis: the stored state; NoSession when the key is absent
  page,       \* what a page of the profile shows
  observed,   \* what a run saw and has not recorded
  loggedIn,   \* the operator has closed Edge and not recorded the refresh
  lastUse,    \* history: the state that the last use of the profile calls for
  inOrder     \* history: that use met no other one, and was not lost on its
              \* way to Redis

sessionVars == <<session, page, observed, loggedIn, lastUse, inOrder>>

\* _observation_state: the status that an observation leads to
StatusOf ==
  [ready |-> "ready", login_required |-> "login_required", captcha |-> "captcha",
   unauthorized |-> "access_denied", forbidden |-> "access_denied",
   access_control |-> "access_denied"]
Observations == DOMAIN StatusOf

\* Times carry the zone they were made with: "Beijing" is ZoneInfo, "offset"
\* the fixed +08:00 that fromisoformat() makes of the text of isoformat().
SessionState(status, reason, refreshed) ==
  [status |-> status, reason |-> reason, refreshed |-> refreshed]
NoSession == SessionState("unknown", "none", "never")

StateOf(o) ==
  SessionState(StatusOf[o], IF o = "ready" THEN "none" ELSE o, "never")
Refreshed == SessionState("ready", "none", "Beijing")

\* _save and the part of _deserialize_state that reads the time back
Saved(state) ==
  [state EXCEPT !.refreshed = IF @ = "Beijing" THEN "offset" ELSE @]

\* get_state: _validate_beijing_datetime refuses every zone but ZoneInfo, and a
\* value that is refused reads as unknown.
Get == IF session.refreshed = "offset" THEN NoSession ELSE session

SessionInit ==
  /\ session = NoSession
  /\ page = "login_required"
  /\ observed = [o \in Observers |-> "nothing"]
  /\ loggedIn = FALSE
  /\ lastUse = NoSession /\ inOrder = TRUE

\* Nobody is between a use of the profile and its recording.
Unused == ~loggedIn /\ \A o \in Observers : observed[o] = "nothing"

(* A faulty variant of RecordObservation: a mistake the property must find. *)

\* BrowserSessionRequiredError is raised before the state is saved.
RecordObservationRaises(o) ==
  /\ observed[o] # "nothing"
  /\ session' = IF StatusOf[observed[o]] = "ready"
                  THEN Saved(StateOf(observed[o])) ELSE session
  /\ observed' = [observed EXCEPT ![o] = "nothing"]
  /\ UNCHANGED <<page, loggedIn, lastUse, inOrder>>

-----------------------------------------------------------------------------
\* The site ends a login, asks for a captcha, or lets the profile in again.
PageChanges ==
  /\ page' \in Observations
  /\ UNCHANGED <<session, observed, loggedIn, lastUse, inOrder>>

\* A browser run opens the profile, looks at the page and closes it.
Observe(o) ==
  /\ observed[o] = "nothing"
  /\ observed' = [observed EXCEPT ![o] = page]
  /\ lastUse' = StateOf(page) /\ inOrder' = Unused
  /\ UNCHANGED <<session, page, loggedIn>>

\* record_observation saves the state, then raises unless it is ready.
RecordObservation(o) ==
  /\ observed[o] # "nothing"
  /\ session' = Saved(StateOf(observed[o]))
  /\ observed' = [observed EXCEPT ![o] = "nothing"]
  /\ UNCHANGED <<page, loggedIn, lastUse, inOrder>>

\* The set of the store raises, or the run dies before it gets there.
ObservationIsLost(o) ==
  /\ observed[o] # "nothing"
  /\ session' \in {session, Saved(StateOf(observed[o]))}
  /\ observed' = [observed EXCEPT ![o] = "nothing"]
  /\ inOrder' = FALSE
  /\ UNCHANGED <<page, loggedIn, lastUse>>

\* The operator opens the profile, logs in and closes Edge ...
LogIn ==
  /\ ~loggedIn
  /\ page' = "ready" /\ loggedIn' = TRUE
  /\ lastUse' = Refreshed /\ inOrder' = Unused
  /\ UNCHANGED <<session, observed>>

\* ... and records the refresh (record_manual_refresh).
RecordRefresh ==
  /\ loggedIn /\ loggedIn' = FALSE
  /\ session' = Saved(Refreshed)
  /\ UNCHANGED <<page, observed, lastUse, inOrder>>

\* The storage is unavailable, or the operator does not record the refresh.
RefreshIsLost ==
  /\ loggedIn /\ loggedIn' = FALSE
  /\ session' \in {session, Saved(Refreshed)}
  /\ inOrder' = FALSE
  /\ UNCHANGED <<page, observed, lastUse>>

SessionNext ==
  \/ PageChanges \/ LogIn \/ RecordRefresh \/ RefreshIsLost
  \/ \E o \in Observers : Observe(o) \/ RecordObservation(o) \/ ObservationIsLost(o)

SessionSpec == SessionInit /\ [][SessionNext]_sessionVars

-----------------------------------------------------------------------------
\* The stored state is the one of the last use of the profile, a failure being
\* on record before its error ends the run, unless that use overlapped another
\* one or was lost on its way to Redis; the next use that meets nobody and is
\* recorded puts it right, whatever the uses before it have left behind.
StoredIsLastUse == inOrder /\ Unused => session = Saved(lastUse)

\* A profile that the operator has refreshed reads as ready (design of P4-02:
\* the manager records a refresh and reads the latest state).
RefreshIsReadable ==
  inOrder /\ Unused /\ lastUse.refreshed # "never" => Get.status = "ready"
=============================================================================
