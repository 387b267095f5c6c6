------------------------------ MODULE EdgeRuntime ------------------------------
(***************************************************************************)
(* One browser operation: _browser_runtime (tasks.py), then                *)
(* ManagedEdgeRuntime.run (browser_runtime.py) with the artifact of a      *)
(* failure (browser_artifacts.py).  Any call may raise; the question is    *)
(* which error reaches the task and what is left behind.                   *)
(***************************************************************************)
EXTENDS Sequences, Naturals

VARIABLES
  phase,       \* the call that is next
  tab,        \* the page: "none", "open", or "closed" when close() was called
  context,     \* the persistent context, in the same way
  failed,      \* operation_error is set: errors of closing are suppressed
  pageError,   \* page_error is set
  pending,     \* the exception on its way to the caller; "none" at first
  artifacts,   \* the files written for the failure
  errors       \* history: every exception, in order

edgeVars == <<phase, tab, context, failed, pageError, pending, artifacts, errors>>

EdgeInit ==
  /\ phase = "settings" /\ tab = "none" /\ context = "none"
  /\ failed = FALSE /\ pageError = FALSE /\ pending = "none"
  /\ artifacts = {} /\ errors = <<>>

Raise(error) == pending' = error /\ errors' = Append(errors, error)

\* BrowserRuntimeSettings.from_environment refuses the settings, or starting
\* Playwright or Edge fails: nothing is open yet but the gateway.
Prepare(from, to, error, otherwise) ==
  /\ phase = from
  /\ \/ phase' = to /\ UNCHANGED <<pending, errors>>
     \/ phase' = otherwise /\ Raise(error)
  /\ UNCHANGED <<tab, failed, pageError, artifacts>>

ReadSettings == Prepare("settings", "enter", "configuration", "done") /\ UNCHANGED context
EnterGateway == Prepare("enter", "launch", "gateway", "done") /\ UNCHANGED context
LaunchContext ==
  /\ Prepare("launch", "page", "launch", "exit")
  /\ context' = IF phase' = "page" THEN "open" ELSE "none"

(* A faulty variant of Fails. *)

\* The error is not kept, so that closing does not know of it.
FailsUnnoticed(error, next) ==
  Raise(error) /\ phase' = next /\ UNCHANGED failed

\* The try block ends with an error.
Fails(error, next) ==
  Raise(error) /\ phase' = next /\ failed' = TRUE

\* The first page of the context, or a new one; then the route and timeouts.
SetUp ==
  /\ phase = "page"
  /\ \/ tab' = "open" /\ phase' = "operate" /\ UNCHANGED <<failed, pending, errors>>
     \/ tab' \in {"none", "open"} /\ Fails("setup", "close page")
  /\ UNCHANGED <<context, pageError, artifacts>>

\* operation(page) returns, or raises: only a BrowserOperationError brings the
\* material of an artifact.
RunOperation ==
  /\ phase = "operate"
  /\ \/ phase' = "close page" /\ UNCHANGED <<failed, pending, errors>>
     \/ Fails("other", "close page")
     \/ Fails("BrowserOperationError", "html")
  /\ UNCHANGED <<tab, context, pageError, artifacts>>

\* write_failure: the source id or the fragment is refused, the file cannot be
\* written (a part of it may be), or it is.
WriteHtml ==
  /\ phase = "html"
  /\ \/ phase' = "png" /\ artifacts' = {"html"} /\ UNCHANGED <<pending, errors>>
     \/ phase' = "close page" /\ Raise("artifact") /\ artifacts' \in {{}, {"html"}}
  /\ UNCHANGED <<tab, context, failed, pageError>>

\* _write_redacted_png: there is no screenshot, or what there is is no PNG, or
\* it cannot be written, or it is.
WritePng ==
  /\ phase = "png" /\ phase' = "close page"
  /\ \/ UNCHANGED <<pending, errors>> /\ artifacts' \in {artifacts, artifacts \cup {"png"}}
     \/ Raise("artifact") /\ artifacts' \in {artifacts, artifacts \cup {"png"}}
  /\ UNCHANGED <<tab, context, failed, pageError>>

(* A faulty variant of ClosePage. *)

\* An error of the page ends the closing.
ClosePageOnly ==
  /\ phase = "close page"
  /\ tab' = IF tab = "open" THEN "closed" ELSE tab
  /\ \/ phase' = "close context" /\ UNCHANGED <<pending, errors>>
     \/ tab = "open" /\ phase' = "exit" /\ Raise("page close")
  /\ UNCHANGED <<context, failed, pageError, artifacts>>

ClosePage ==
  /\ phase = "close page" /\ phase' = "close context"
  /\ tab' = IF tab = "open" THEN "closed" ELSE tab
  /\ \/ UNCHANGED <<pageError, errors>>
     \/ /\ tab = "open" /\ errors' = Append(errors, "page close")
        /\ pageError' = ~failed
  /\ UNCHANGED <<context, failed, pending, artifacts>>

\* The error of the page is raised after the context was closed; one of the
\* context takes its place.
CloseContext ==
  /\ phase = "close context" /\ phase' = "exit" /\ context' = "closed"
  /\ \/ /\ pending' = IF pageError THEN "page close" ELSE pending
        /\ UNCHANGED errors
     \/ /\ errors' = Append(errors, "context close")
        /\ pending' = IF failed THEN pending ELSE "context close"
  /\ UNCHANGED <<tab, failed, pageError, artifacts>>

\* Playwright stops; that may fail too, and nothing suppresses it.
ExitGateway ==
  /\ phase = "exit" /\ phase' = "done"
  /\ \/ UNCHANGED <<pending, errors>>
     \/ Raise("gateway")
  /\ UNCHANGED <<tab, context, failed, pageError, artifacts>>

EdgeNext ==
  \/ ReadSettings \/ EnterGateway \/ LaunchContext \/ SetUp \/ RunOperation
  \/ WriteHtml \/ WritePng \/ ClosePage \/ CloseContext \/ ExitGateway

EdgeSpec == EdgeInit /\ [][EdgeNext]_edgeVars

-----------------------------------------------------------------------------
Closing == {"page close", "context close"}

\* The task learns why its work failed: the last error outside of closing, an
\* artifact that could not be kept included; an error of closing only when there
\* is no other, and a value only when nothing at all went wrong.
CauseReachesCaller ==
  phase = "done" =>
    LET causes == {i \in DOMAIN errors : errors[i] \notin Closing}
        told == IF causes # {} THEN causes ELSE DOMAIN errors
    IN  IF errors = <<>> THEN pending = "none"
        ELSE \E last \in told : pending = errors[last] /\ \A i \in told : i <= last

\* The profile is free for the next task: when Playwright stops, the context and
\* its page were closed, or their close was tried, whatever failed before.
ProfileIsReleased == phase \in {"exit", "done"} => tab # "open" /\ context # "open"
=============================================================================
