----------------------------- MODULE FetchProofs ------------------------------
(***************************************************************************)
(* Theorems about fetching: AdapterPipeline for responses of any size,     *)
(* BrowserSession for any observers, EdgeRuntime for any errors at any phase, *)
(* and SafeFragment for fragments of any depth.                            *)
(***************************************************************************)
EXTENDS AdapterPipeline, BrowserSession, EdgeRuntime, SafeFragment,
        FiniteSetTheorems, Induction

-----------------------------------------------------------------------------
(* AdapterPipeline.                                                         *)

PipelineTypeOK ==
  /\ stage \in Stages \cup {"over"}
  /\ parsed \in 0..MaxItems /\ left \in 0..MaxItems /\ kept \in 0..MaxItems

\* What is raised is what the handlers make of the first fault.
RaisedIsClassified ==
  \/ fault.at = "none" /\ fault.kind = "none" /\ raised = "none"
  \/ /\ stage = "over" /\ fault.at \in Stages /\ fault.kind \in Faults(fault.at)
     /\ raised = Classified(fault.at, fault.kind)

\* Every item of the response is kept or still to come while nothing failed.
ItemsAddUp ==
  raised = "none" =>
    /\ stage \in {"fetch", "parse"} => parsed = 0
    /\ kept + left = parsed
    /\ stage \in {"normalize", "encode", "fingerprint"} => left # 0
    /\ stage \notin {"normalize", "encode", "fingerprint"} => left = 0

PipelineInvariant == PipelineTypeOK /\ RaisedIsClassified /\ ItemsAddUp

\* The names of the exceptions, the base classes expanded.
LEMMA FaultNames ==
  ASSUME NEW s \in Stages, NEW f \in Faults(s)
  PROVE  /\ f \in {"AdapterContractError", "NormalizationError", "FetchError", "ParseError",
                   "AdapterRunError", "ValidationError", "ConnectionError", "ValueError",
                   "Exception", "BaseException", "bad value"}
         /\ s = "encode" => f \in {"ValueError", "Exception"}
         /\ s = "digest" => f = "Exception"
BY DEF Stages, Faults, Exceptions, NotExceptions, AdapterRunErrors, AdapterContractErrors

\* What fails raises something.
LEMMA FaultsRaise ==
  ASSUME NEW s \in Stages, NEW f \in Faults(s)
  PROVE  Classified(s, f) # "none"
<1>1. s \in {"fetch", "parse", "normalize", "encode", "fingerprint", "digest"} /\ f # "none"
  BY FaultNames DEF Stages
<1>2. CASE s \in {"encode", "digest"}
  BY <1>1, <1>2 DEF Classified
<1>3. CASE s \notin {"encode", "digest"}
  <2>1. StageError[s] # "none"
    BY <1>1, <1>3 DEF StageError
  <2> QED
    BY <1>1, <2>1 DEF Classified
<1> QED
  BY <1>2, <1>3

\* What the class of an error says of its stage.
LEMMA ErrorsByStage ==
  ASSUME NEW s \in Stages, NEW f \in Faults(s)
  PROVE  LET own == f \in AdapterRunErrors IN
         /\ Classified(s, f) = "FetchError" /\ ~own => s = "fetch"
         /\ Classified(s, f) = "ParseError" /\ ~own => s = "parse"
         /\ Classified(s, f) = "NormalizationError" /\ ~own => s = "normalize"
         /\ own /\ s # "fingerprint" => Classified(s, f) = f
<1>1. /\ s \in {"fetch", "parse", "normalize", "encode", "fingerprint", "digest"}
      /\ s \in {"encode", "digest"} => f \in {"ValueError", "Exception"}
  BY FaultNames DEF Stages
<1>2. CASE s \in {"encode", "digest"}
  BY <1>1, <1>2 DEF Classified, AdapterRunErrors, AdapterContractErrors, NotExceptions
<1>3. CASE s \notin {"encode", "digest"} /\ f \in AdapterRunErrors
  BY <1>1, <1>3 DEF Classified, AdapterRunErrors, AdapterContractErrors, NotExceptions, StageError
<1>4. CASE s \notin {"encode", "digest"} /\ f \notin AdapterRunErrors
  <2>1. CASE f = "bad value" \/ f \in NotExceptions
    BY <1>4, <2>1 DEF Classified, NotExceptions
  <2>2. CASE ~(f = "bad value" \/ f \in NotExceptions)
    <3>1. Classified(s, f) = StageError[s]
      BY <1>4, <2>2 DEF Classified
    <3> QED
      BY <1>1, <1>4, <3>1 DEF StageError
  <2> QED
    BY <2>1, <2>2
<1> QED
  BY <1>2, <1>3, <1>4

\* Items and errors keep adding up.
LEMMA PipelineStep ==
  ASSUME PipelineInvariant, [PipelineNext]_pipelineVars PROVE PipelineInvariant'
<1> USE PipelineAssumption DEF PipelineInvariant, PipelineTypeOK, RaisedIsClassified,
                              ItemsAddUp, Stages
<1>1. CASE Fetch
  BY <1>1 DEF Fetch
<1>2. CASE Parse
  <2>1. PICK n \in 0..MaxItems :
          /\ parsed' = n /\ left' = n /\ kept' = kept
          /\ stage' = IF n = 0 THEN "digest" ELSE "normalize"
          /\ UNCHANGED <<fault, raised>>
    BY <1>2 DEF Parse, NextItem
  <2>2. stage = "parse" /\ raised = "none" /\ kept = 0
    BY <1>2 DEF Parse
  <2> QED
    BY <2>1, <2>2
<1>3. CASE Normalize
  BY <1>3 DEF Normalize
<1>4. CASE Encode
  BY <1>4 DEF Encode
<1>5. CASE Fingerprint
  BY <1>5 DEF Fingerprint, NextItem
<1>6. CASE Return
  BY <1>6 DEF Return
<1>7. CASE StageFails
  <2>1. PICK f \in Faults(stage) :
          fault' = [at |-> stage, kind |-> f] /\ raised' = Classified(stage, f)
    BY <1>7 DEF StageFails
  <2>2. stage \in Stages /\ stage' = "over" /\ UNCHANGED <<parsed, left, kept>>
    BY <1>7 DEF StageFails
  <2>3. raised' # "none"
    BY <2>1, <2>2, FaultsRaise
  <2>4. fault'.at = stage /\ fault'.kind = f
    BY <2>1
  <2>5. PipelineTypeOK'
    BY <2>2
  <2>6. RaisedIsClassified'
    BY <2>1, <2>2, <2>4
  <2>7. ItemsAddUp'
    BY <2>3
  <2> QED
    BY <2>5, <2>6, <2>7
<1>8. CASE UNCHANGED pipelineVars
  BY <1>8 DEF pipelineVars
<1> QED
  BY <1>1, <1>2, <1>3, <1>4, <1>5, <1>6, <1>7, <1>8 DEF PipelineNext

\* What the handlers raise, and the items on their way, hold in every state.
LEMMA PipelineInvariantHolds == PipelineSpec => []PipelineInvariant
<1>1. PipelineInit => PipelineInvariant
  <2> SUFFICES ASSUME PipelineInit PROVE PipelineInvariant
    OBVIOUS
  <2>1. /\ stage = "fetch" /\ parsed = 0 /\ left = 0 /\ kept = 0 /\ raised = "none"
        /\ fault = [at |-> "none", kind |-> "none"]
    BY DEF PipelineInit
  <2>2. fault.at = "none" /\ fault.kind = "none"
    BY <2>1
  <2>3. PipelineTypeOK
    BY <2>1, <2>2, PipelineAssumption DEF PipelineTypeOK, Stages
  <2> QED
    BY <2>1, <2>2, <2>3 DEF PipelineInvariant, RaisedIsClassified, ItemsAddUp
<1> QED
  BY <1>1, PipelineStep, PTL DEF PipelineSpec

\* Whatever a call of the adapter comes to: the error names the stage, unless
\* the adapter raised one of the pipeline's own, which passes unchanged
\* (adapters/base.py:96-159).
THEOREM ErrorsTellStages == PipelineSpec => []ErrorTellsStage
<1>1. PipelineInvariant => ErrorTellsStage
  <2> SUFFICES ASSUME PipelineInvariant PROVE ErrorTellsStage
    OBVIOUS
  <2>1. CASE fault.kind = "none" /\ raised = "none"
    BY <2>1 DEF ErrorTellsStage, AdapterRunErrors, AdapterContractErrors
  <2>2. CASE /\ fault.at \in Stages /\ fault.kind \in Faults(fault.at)
             /\ raised = Classified(fault.at, fault.kind)
    BY <2>2, ErrorsByStage DEF ErrorTellsStage
  <2> QED
    BY <2>1, <2>2 DEF PipelineInvariant, RaisedIsClassified
<1> QED
  BY <1>1, PipelineInvariantHolds, PTL

\* However many items a response has: a collection that is returned has all of
\* them (adapters/base.py:96-159).
THEOREM ResultsAreComplete == PipelineSpec => []ResultIsComplete
<1>1. PipelineInvariant => ResultIsComplete
  BY PipelineAssumption DEF PipelineInvariant, PipelineTypeOK, ItemsAddUp, ResultIsComplete
<1> QED
  BY <1>1, PipelineInvariantHolds, PTL

-----------------------------------------------------------------------------
(* BrowserSession.                                                          *)

\* While the last use is in order, nobody else is between a use and its
\* recording, and without such a user the stored state is of the last use.
SessionInvariant ==
  /\ page \in Observations /\ loggedIn \in BOOLEAN
  /\ observed \in [Observers -> Observations \cup {"nothing"}]
  /\ inOrder =>
       /\ loggedIn => lastUse = Refreshed /\ \A o \in Observers : observed[o] = "nothing"
       /\ \A o \in Observers :
            observed[o] # "nothing" =>
              /\ lastUse = StateOf(observed[o])
              /\ \A other \in Observers \ {o} : observed[other] = "nothing"
  /\ StoredIsLastUse

\* No observation is "nothing".
LEMMA ObservationsAreSome == "nothing" \notin Observations /\ {"login_required", "ready"} \subseteq Observations
BY DEF Observations, StatusOf

\* Uses that overlap or get lost are out of order; the others store their state.
LEMMA SessionStep ==
  ASSUME SessionInvariant, [SessionNext]_sessionVars PROVE SessionInvariant'
<1> USE ObservationsAreSome DEF SessionInvariant
<1>1. CASE PageChanges
  BY <1>1 DEF PageChanges, StoredIsLastUse, Unused
<1>2. ASSUME NEW o \in Observers, Observe(o) PROVE SessionInvariant'
  BY <1>2 DEF Observe, StoredIsLastUse, Unused
<1>3. ASSUME NEW o \in Observers, RecordObservation(o) PROVE SessionInvariant'
  BY <1>3 DEF RecordObservation, StoredIsLastUse, Unused
<1>4. ASSUME NEW o \in Observers, ObservationIsLost(o) PROVE SessionInvariant'
  BY <1>4 DEF ObservationIsLost, StoredIsLastUse
<1>5. CASE LogIn
  BY <1>5 DEF LogIn, StoredIsLastUse, Unused
<1>6. CASE RecordRefresh
  BY <1>6 DEF RecordRefresh, StoredIsLastUse, Unused
<1>7. CASE RefreshIsLost
  BY <1>7 DEF RefreshIsLost, StoredIsLastUse
<1>8. CASE UNCHANGED sessionVars
  BY <1>8 DEF sessionVars, StoredIsLastUse, Unused
<1> QED
  BY <1>1, <1>2, <1>3, <1>4, <1>5, <1>6, <1>7, <1>8 DEF SessionNext

\* For any number of browser runs, however their uses of the profile overlap and
\* get lost: after a use that met no other and was recorded, what is stored is
\* the state of the last use (browser_session.py:77-128).
THEOREM SessionFollowsUse == SessionSpec => []StoredIsLastUse
<1>1. SessionInit => SessionInvariant
  <2>1. NoSession = Saved(NoSession)
    BY DEF NoSession, Saved, SessionState
  <2> QED
    BY <2>1, ObservationsAreSome DEF SessionInit, SessionInvariant, StoredIsLastUse
<1>2. SessionInvariant => StoredIsLastUse
  BY DEF SessionInvariant
<1> QED
  BY <1>1, <1>2, SessionStep, PTL DEF SessionSpec

-----------------------------------------------------------------------------
(* EdgeRuntime.                                                             *)

Before == {"settings", "enter", "launch", "page", "operate"}
Failing == {"html", "png"}
Phases == Before \cup Failing \cup {"close page", "close context", "exit", "done"}

\* The names of the errors.
Errors == {"configuration", "gateway", "launch", "setup", "other", "BrowserOperationError",
           "artifact", "page close", "context close"}

EdgeTypeOK ==
  /\ phase \in Phases
  /\ failed \in BOOLEAN /\ pageError \in BOOLEAN
  /\ errors \in Seq(Errors)

\* The error on its way to the caller is the last one outside of closing.
CauseIsPending ==
  \E i \in 1..Len(errors) :
    /\ pending = errors[i] /\ errors[i] \notin Closing
    /\ \A j \in 1..Len(errors) : errors[j] \notin Closing => j <= i

\* Without an error outside of closing, it is the last one of closing, if any.
ClosingIsPending ==
  /\ \A i \in 1..Len(errors) : errors[i] \in Closing
  /\ pending = IF errors = <<>> THEN "none" ELSE errors[Len(errors)]

\* Which errors there are by phase; the error of closing the page waits for the
\* closing of the context.
ErrorsByPhase ==
  /\ phase \in Before => errors = <<>> /\ pending = "none" /\ ~failed /\ ~pageError
  /\ phase \in Failing => failed /\ ~pageError
  /\ failed => ~pageError /\ CauseIsPending
  /\ phase = "close page" /\ ~failed => errors = <<>> /\ pending = "none" /\ ~pageError
  /\ phase = "close context" /\ ~failed =>
       /\ pending = "none"
       /\ \A i \in 1..Len(errors) : errors[i] \in Closing
       /\ IF pageError = TRUE THEN errors # <<>> /\ errors[Len(errors)] = "page close"
          ELSE errors = <<>>
  /\ phase \in {"exit", "done"} => CauseIsPending \/ ClosingIsPending

\* The context is open between its launch and its closing, the page between its
\* opening and its closing.
OpenByPhase ==
  /\ phase \in {"settings", "enter", "launch", "exit", "done"} => context # "open"
  /\ phase \in {"settings", "enter", "launch", "page", "close context", "exit", "done"} =>
       tab # "open"

EdgeInvariant == EdgeTypeOK /\ ErrorsByPhase /\ OpenByPhase

\* What appending an error does to the pending one.
LEMMA RaisedIsPending ==
  ASSUME errors \in Seq(Errors), NEW e \in Errors, e \notin Closing, Raise(e)
  PROVE  errors' \in Seq(Errors) /\ pending' = e /\ CauseIsPending'
<1>1. errors' = Append(errors, e) /\ pending' = e
  BY DEF Raise
<1>2. /\ errors' \in Seq(Errors) /\ Len(errors') = Len(errors) + 1 /\ Len(errors) \in Nat
      /\ errors'[Len(errors')] = e
  BY <1>1, Appended
<1>3. Len(errors') \in 1..Len(errors')
  BY <1>2
<1> QED
  BY <1>1, <1>2, <1>3 DEF CauseIsPending

\* An error of closing does not take the place of another one.
LEMMA ClosingIsSuppressed ==
  ASSUME errors \in Seq(Errors), NEW e \in Closing, errors' = Append(errors, e),
         pending' = pending, CauseIsPending
  PROVE  CauseIsPending'
<1>1. /\ Len(errors') = Len(errors) + 1 /\ Len(errors) \in Nat
      /\ errors'[Len(errors) + 1] = e
      /\ \A j \in 1..Len(errors) : errors'[j] = errors[j]
  <2>1. e \in Errors
    BY DEF Closing, Errors
  <2> QED
    BY <2>1, Appended
<1>2. PICK i \in 1..Len(errors) :
        /\ pending = errors[i] /\ errors[i] \notin Closing
        /\ \A j \in 1..Len(errors) : errors[j] \notin Closing => j <= i
  BY DEF CauseIsPending
<1>3. i \in 1..Len(errors')
  BY <1>1
<1>4. ASSUME NEW j \in 1..Len(errors'), errors'[j] \notin Closing PROVE j <= i
  <2>1. j \in 1..Len(errors)
    BY <1>1, <1>4
  <2> QED
    BY <1>1, <1>2, <1>4, <2>1
<1> QED
  BY <1>1, <1>2, <1>3, <1>4 DEF CauseIsPending

\* A step that leaves the errors and the pending one alone.
LEMMA NothingRaised ==
  ASSUME UNCHANGED <<pending, errors>>
  PROVE  /\ CauseIsPending => CauseIsPending'
         /\ ClosingIsPending => ClosingIsPending'
BY DEF CauseIsPending, ClosingIsPending

\* The work ends with an error that is not one of closing.
LEMMA FailureIsPending ==
  ASSUME errors \in Seq(Errors), NEW e \in Errors, e \notin Closing, NEW next \in Phases,
         Fails(e, next)
  PROVE  /\ errors' \in Seq(Errors) /\ CauseIsPending'
         /\ failed' = TRUE /\ phase' = next
BY RaisedIsPending DEF Fails

\* An error of closing after nothing but others of closing.
LEMMA ClosingIsRaised ==
  ASSUME errors \in Seq(Errors), NEW e \in Closing, errors' = Append(errors, e),
         \A i \in 1..Len(errors) : errors[i] \in Closing
  PROVE  /\ errors' # <<>> /\ errors'[Len(errors')] = e
         /\ \A i \in 1..Len(errors') : errors'[i] \in Closing
<1>1. e \in Errors
  BY DEF Closing, Errors
<1>2. /\ errors' \in Seq(Errors) /\ Len(errors) \in Nat /\ Len(errors') = Len(errors) + 1
      /\ \A i \in 1..Len(errors) : errors'[i] = errors[i]
      /\ errors'[Len(errors) + 1] = e
  BY <1>1, Appended
<1>3. errors' # <<>>
  BY <1>2
<1> QED
  BY <1>2, <1>3

\* What every step keeps: which errors there are and what is open.
LEMMA EdgeStep == ASSUME EdgeInvariant, EdgeNext PROVE EdgeInvariant'
<1> USE DEF Before, Failing, Phases
<1>1. EdgeTypeOK /\ ErrorsByPhase /\ OpenByPhase /\ errors \in Seq(Errors)
  BY DEF EdgeInvariant, EdgeTypeOK
<1>2. /\ {"configuration", "gateway", "launch", "setup", "other", "BrowserOperationError",
          "artifact"} \cap Closing = {}
      /\ {"configuration", "gateway", "launch", "setup", "other", "BrowserOperationError",
          "artifact"} \subseteq Errors
      /\ Closing \subseteq Errors
  BY DEF Closing, Errors
<1>3. ASSUME NEW from \in Before, NEW to \in Before, NEW e \in Errors, e \notin Closing,
             NEW otherwise \in {"exit", "done"}, Prepare(from, to, e, otherwise)
      PROVE  EdgeTypeOK' /\ ErrorsByPhase'
  <2>1. /\ errors = <<>> /\ pending = "none" /\ ~failed /\ ~pageError
        /\ failed' = failed /\ pageError' = pageError
    BY <1>1, <1>3 DEF ErrorsByPhase, Prepare
  <2>2. CASE phase' = to /\ UNCHANGED <<pending, errors>>
    BY <1>1, <1>3, <2>1, <2>2 DEF EdgeTypeOK, ErrorsByPhase
  <2>3. CASE phase' = otherwise /\ Raise(e)
    <3>1. errors' \in Seq(Errors) /\ CauseIsPending'
      BY <1>1, <1>3, <2>3, RaisedIsPending
    <3> QED
      BY <1>1, <1>3, <2>1, <2>3, <3>1 DEF EdgeTypeOK, ErrorsByPhase
  <2> QED
    BY <1>3, <2>2, <2>3 DEF Prepare
<1>4. CASE ReadSettings
  <2>1. EdgeTypeOK' /\ ErrorsByPhase'
    BY <1>2, <1>3, <1>4 DEF ReadSettings
  <2>2. OpenByPhase'
    BY <1>1, <1>4 DEF ReadSettings, Prepare, OpenByPhase
  <2> QED
    BY <2>1, <2>2 DEF EdgeInvariant
<1>5. CASE EnterGateway
  <2>1. EdgeTypeOK' /\ ErrorsByPhase'
    BY <1>2, <1>3, <1>5 DEF EnterGateway
  <2>2. OpenByPhase'
    BY <1>1, <1>5 DEF EnterGateway, Prepare, OpenByPhase
  <2> QED
    BY <2>1, <2>2 DEF EdgeInvariant
<1>6. CASE LaunchContext
  <2>1. EdgeTypeOK' /\ ErrorsByPhase'
    BY <1>2, <1>3, <1>6 DEF LaunchContext
  <2>2. OpenByPhase'
    BY <1>1, <1>6 DEF LaunchContext, Prepare, OpenByPhase
  <2> QED
    BY <2>1, <2>2 DEF EdgeInvariant
<1>7. CASE SetUp
  <2>1. phase = "page" /\ UNCHANGED <<context, pageError>>
    BY <1>7 DEF SetUp
  <2>2. CASE tab' = "open" /\ phase' = "operate" /\ UNCHANGED <<failed, pending, errors>>
    BY <1>1, <2>1, <2>2 DEF EdgeInvariant, EdgeTypeOK, ErrorsByPhase, OpenByPhase
  <2>3. CASE tab' \in {"none", "open"} /\ Fails("setup", "close page")
    <3>1. /\ errors' \in Seq(Errors) /\ CauseIsPending' /\ failed' = TRUE
          /\ phase' = "close page"
      BY <1>1, <1>2, <2>3, FailureIsPending
    <3> QED
      BY <1>1, <2>1, <3>1 DEF EdgeInvariant, EdgeTypeOK, ErrorsByPhase, OpenByPhase
  <2> QED
    BY <1>7, <2>2, <2>3 DEF SetUp
<1>8. CASE RunOperation
  <2>1. phase = "operate" /\ UNCHANGED <<tab, context, pageError>>
    BY <1>8 DEF RunOperation
  <2>2. CASE phase' = "close page" /\ UNCHANGED <<failed, pending, errors>>
    BY <1>1, <2>1, <2>2 DEF EdgeInvariant, EdgeTypeOK, ErrorsByPhase, OpenByPhase
  <2>3. ASSUME NEW e \in {"other", "BrowserOperationError"}, NEW next \in {"close page", "html"},
               Fails(e, next)
        PROVE  EdgeInvariant'
    <3>1. errors' \in Seq(Errors) /\ CauseIsPending' /\ failed' = TRUE /\ phase' = next
      BY <1>1, <1>2, <2>3, FailureIsPending
    <3> QED
      BY <1>1, <2>1, <2>3, <3>1 DEF EdgeInvariant, EdgeTypeOK, ErrorsByPhase, OpenByPhase
  <2> QED
    BY <1>8, <2>2, <2>3 DEF RunOperation
<1>9. ASSUME phase \in Failing, UNCHANGED <<tab, context, failed, pageError>>,
             \/ phase' = "close page" /\ Raise("artifact")
             \/ phase' \in {"png", "close page"} /\ UNCHANGED <<pending, errors>>
      PROVE  EdgeInvariant'
  <2>1. failed = TRUE /\ pageError = FALSE /\ CauseIsPending
    BY <1>1, <1>9 DEF EdgeTypeOK, ErrorsByPhase
  <2>2. CASE phase' = "close page" /\ Raise("artifact")
    <3>1. errors' \in Seq(Errors) /\ CauseIsPending'
      BY <1>1, <1>2, <2>2, RaisedIsPending
    <3> QED
      BY <1>1, <1>9, <2>1, <2>2, <3>1 DEF EdgeInvariant, EdgeTypeOK, ErrorsByPhase, OpenByPhase
  <2>3. CASE phase' \in {"png", "close page"} /\ UNCHANGED <<pending, errors>>
    <3>1. CauseIsPending'
      BY <2>1, <2>3, NothingRaised
    <3> QED
      BY <1>1, <1>9, <2>1, <2>3, <3>1 DEF EdgeInvariant, EdgeTypeOK, ErrorsByPhase, OpenByPhase
  <2> QED
    BY <1>9, <2>2, <2>3
<1>10. CASE WriteHtml
  BY <1>9, <1>10 DEF WriteHtml
<1>11. CASE WritePng
  BY <1>9, <1>11 DEF WritePng
<1>12. CASE ClosePage
  <2>1. /\ phase = "close page" /\ phase' = "close context"
        /\ tab' = (IF tab = "open" THEN "closed" ELSE tab)
        /\ UNCHANGED <<context, failed, pending>>
    BY <1>12 DEF ClosePage
  <2>2. OpenByPhase'
    BY <1>1, <2>1 DEF OpenByPhase
  <2>3. CASE UNCHANGED <<pageError, errors>>
    <3>1. CauseIsPending => CauseIsPending'
      BY <2>1, <2>3, NothingRaised
    <3>2. failed' = failed /\ pageError' = pageError /\ errors' = errors /\ pending' = pending
      BY <2>1, <2>3
    <3>3. EdgeTypeOK'
      BY <1>1, <2>1, <3>2 DEF EdgeTypeOK
    <3>4. /\ failed => ~pageError /\ CauseIsPending
          /\ ~failed => errors = <<>> /\ pending = "none" /\ ~pageError
      BY <1>1, <2>1 DEF ErrorsByPhase
    <3>5. ~failed => \A i \in 1..Len(errors) : errors[i] \in Closing
      BY <3>4
    <3>6. CASE failed = TRUE
      <4>1. failed' = TRUE /\ pageError' = FALSE /\ CauseIsPending'
        BY <1>1, <3>1, <3>2, <3>4, <3>6 DEF EdgeTypeOK
      <4>2. ErrorsByPhase'
        BY <2>1, <4>1 DEF ErrorsByPhase
      <4> QED
        BY <2>2, <3>3, <4>2 DEF EdgeInvariant
    <3>7. CASE failed = FALSE
      <4>1. /\ failed' = FALSE /\ pageError' = FALSE /\ pending' = "none" /\ errors' = <<>>
            /\ \A i \in 1..Len(errors') : errors'[i] \in Closing
        BY <1>1, <3>2, <3>4, <3>5, <3>7 DEF EdgeTypeOK
      <4>2. ErrorsByPhase'
        BY <2>1, <4>1 DEF ErrorsByPhase
      <4> QED
        BY <2>2, <3>3, <4>2 DEF EdgeInvariant
    <3> QED
      BY <1>1, <3>6, <3>7 DEF EdgeTypeOK
  <2>4. CASE errors' = Append(errors, "page close") /\ pageError' = ~failed
    <3>1. errors' \in Seq(Errors)
      <4>1. "page close" \in Errors
        BY DEF Errors
      <4> QED
        BY <1>1, <2>4, <4>1, Appended
    <3>2. CASE failed = TRUE
      <4>1. CauseIsPending
        BY <1>1, <3>2 DEF ErrorsByPhase
      <4>2. "page close" \in Closing
        BY DEF Closing
      <4>3. CauseIsPending'
        BY <1>1, <2>1, <2>4, <4>1, <4>2, ClosingIsSuppressed
      <4>4. pageError' = FALSE /\ failed' = TRUE
        BY <2>1, <2>4, <3>2
      <4>5. EdgeTypeOK'
        BY <1>1, <2>1, <3>1, <4>4 DEF EdgeTypeOK
      <4>6. ErrorsByPhase'
        BY <2>1, <4>3, <4>4 DEF ErrorsByPhase
      <4> QED
        BY <2>2, <4>5, <4>6 DEF EdgeInvariant
    <3>3. CASE failed = FALSE
      <4>1. errors = <<>> /\ pending = "none"
        BY <1>1, <2>1, <3>3 DEF ErrorsByPhase
      <4>2. /\ errors' # <<>> /\ errors'[Len(errors')] = "page close"
            /\ \A i \in 1..Len(errors') : errors'[i] \in Closing
        <5>1. "page close" \in Closing /\ \A i \in 1..Len(errors) : errors[i] \in Closing
          BY <4>1 DEF Closing
        <5> QED
          BY <1>1, <2>4, <5>1, ClosingIsRaised
      <4>3. pageError' = TRUE
        BY <2>4, <3>3
      <4>4. failed' = FALSE
        BY <2>1, <3>3
      <4>5. EdgeTypeOK'
        BY <1>1, <2>1, <3>1, <4>3, <4>4 DEF EdgeTypeOK
      <4>6. ErrorsByPhase'
        BY <2>1, <4>1, <4>2, <4>3, <4>4 DEF ErrorsByPhase
      <4> QED
        BY <2>2, <4>5, <4>6 DEF EdgeInvariant
    <3> QED
      BY <1>1, <3>2, <3>3 DEF EdgeTypeOK
  <2> QED
    BY <1>12, <2>3, <2>4 DEF ClosePage
<1>13. CASE CloseContext
  <2>1. /\ phase = "close context" /\ phase' = "exit" /\ context' = "closed"
        /\ UNCHANGED <<tab, failed, pageError>>
    BY <1>13 DEF CloseContext
  <2>2. OpenByPhase'
    BY <1>1, <2>1 DEF OpenByPhase
  <2>3. SUFFICES errors' \in Seq(Errors) /\ (CauseIsPending' \/ ClosingIsPending')
                 /\ (failed => CauseIsPending')
    BY <1>1, <2>1, <2>2 DEF EdgeInvariant, EdgeTypeOK, ErrorsByPhase
  <2>4. failed = TRUE => pageError = FALSE /\ CauseIsPending
    BY <1>1 DEF EdgeTypeOK, ErrorsByPhase
  <2>5. failed = FALSE =>
          /\ pending = "none" /\ \A i \in 1..Len(errors) : errors[i] \in Closing
          /\ IF pageError = TRUE THEN errors # <<>> /\ errors[Len(errors)] = "page close"
             ELSE errors = <<>>
    BY <1>1, <2>1 DEF EdgeTypeOK, ErrorsByPhase
  <2>6. CASE pending' = (IF pageError THEN "page close" ELSE pending) /\ UNCHANGED errors
    <3>1. CASE failed = TRUE
      <4>1. UNCHANGED <<pending, errors>>
        BY <2>4, <2>6, <3>1
      <4> QED
        BY <1>1, <2>4, <3>1, <4>1, NothingRaised
    <3>2. CASE failed = FALSE
      <4>1. ClosingIsPending'
        <5>1. /\ \A i \in 1..Len(errors') : errors'[i] \in Closing
              /\ pending' = IF errors' = <<>> THEN "none" ELSE errors'[Len(errors')]
          BY <1>1, <2>5, <2>6, <3>2 DEF EdgeTypeOK
        <5> QED
          BY <5>1 DEF ClosingIsPending
      <4> QED
        BY <1>1, <2>6, <3>2, <4>1
    <3> QED
      BY <1>1, <3>1, <3>2 DEF EdgeTypeOK
  <2>7. CASE /\ errors' = Append(errors, "context close")
             /\ pending' = IF failed THEN pending ELSE "context close"
    <3>1. errors' \in Seq(Errors)
      <4>1. "context close" \in Errors
        BY DEF Errors
      <4> QED
        BY <1>1, <2>7, <4>1, Appended
    <3>2. CASE failed = TRUE
      <4>1. "context close" \in Closing /\ pending' = pending /\ CauseIsPending
        BY <2>4, <2>7, <3>2 DEF Closing
      <4>2. CauseIsPending'
        BY <1>1, <2>7, <4>1, ClosingIsSuppressed
      <4> QED
        BY <3>1, <4>2
    <3>3. CASE failed = FALSE
      <4>1. ClosingIsPending'
        <5>1. pending' = "context close" /\ "context close" \in Closing
          BY <2>7, <3>3 DEF Closing
        <5>2. /\ errors' # <<>> /\ errors'[Len(errors')] = "context close"
              /\ \A i \in 1..Len(errors') : errors'[i] \in Closing
          BY <1>1, <2>5, <2>7, <3>3, <5>1, ClosingIsRaised
        <5> QED
          BY <5>1, <5>2 DEF ClosingIsPending
      <4> QED
        BY <3>1, <3>3, <4>1
    <3> QED
      BY <1>1, <3>2, <3>3 DEF EdgeTypeOK
  <2> QED
    BY <1>13, <2>6, <2>7 DEF CloseContext
<1>14. CASE ExitGateway
  <2>1. /\ phase = "exit" /\ phase' = "done"
        /\ UNCHANGED <<tab, context, failed, pageError>>
    BY <1>14 DEF ExitGateway
  <2>2. OpenByPhase'
    BY <1>1, <2>1 DEF OpenByPhase
  <2>3. CASE UNCHANGED <<pending, errors>>
    <3>1. /\ CauseIsPending => CauseIsPending'
          /\ ClosingIsPending => ClosingIsPending'
      BY <2>3, NothingRaised
    <3> QED
      BY <1>1, <2>1, <2>2, <2>3, <3>1 DEF EdgeInvariant, EdgeTypeOK, ErrorsByPhase
  <2>4. CASE Raise("gateway")
    <3>1. errors' \in Seq(Errors) /\ CauseIsPending'
      BY <1>1, <1>2, <2>4, RaisedIsPending
    <3> QED
      BY <1>1, <2>1, <2>2, <3>1 DEF EdgeInvariant, EdgeTypeOK, ErrorsByPhase
  <2> QED
    BY <1>14, <2>3, <2>4 DEF ExitGateway
<1> QED
  BY <1>4, <1>5, <1>6, <1>7, <1>8, <1>10, <1>11, <1>12, <1>13, <1>14 DEF EdgeNext

\* The invariant holds in every state of an operation of the browser.
LEMMA EdgeInvariantHolds == EdgeSpec => []EdgeInvariant
<1>1. EdgeInit => EdgeInvariant
  <2> SUFFICES ASSUME EdgeInit PROVE EdgeInvariant
    OBVIOUS
  <2>1. errors = <<>> /\ <<>> \in Seq(Errors)
    BY DEF EdgeInit
  <2> QED
    BY <2>1 DEF EdgeInit, EdgeInvariant, EdgeTypeOK, ErrorsByPhase, OpenByPhase,
                Before, Failing, Phases
<1>2. EdgeInvariant /\ UNCHANGED edgeVars => EdgeInvariant'
  <2> SUFFICES ASSUME EdgeInvariant, UNCHANGED edgeVars PROVE EdgeInvariant'
    OBVIOUS
  <2>1. /\ CauseIsPending' = CauseIsPending /\ ClosingIsPending' = ClosingIsPending
        /\ EdgeTypeOK' = EdgeTypeOK /\ OpenByPhase' = OpenByPhase
    BY DEF edgeVars, EdgeTypeOK, OpenByPhase, CauseIsPending, ClosingIsPending
  <2>2. ErrorsByPhase'
    BY <2>1 DEF edgeVars, EdgeInvariant, ErrorsByPhase
  <2> QED
    BY <2>1, <2>2 DEF EdgeInvariant
<1> QED
  BY <1>1, <1>2, EdgeStep, PTL DEF EdgeSpec

\* Whatever fails, and in whatever order: the task learns the last error outside
\* of closing, and one of closing only when there is no other
\* (browser_runtime.py:172-246).
THEOREM CauseIsLearnt == EdgeSpec => []CauseReachesCaller
<1>1. EdgeInvariant => CauseReachesCaller
  <2> SUFFICES ASSUME EdgeInvariant, phase = "done" PROVE CauseReachesCaller
    BY DEF CauseReachesCaller
  <2>1. (CauseIsPending \/ ClosingIsPending) /\ errors \in Seq(Errors)
    BY DEF EdgeInvariant, EdgeTypeOK, ErrorsByPhase
  <2>2. /\ DOMAIN errors = 1..Len(errors) /\ Len(errors) \in Nat
        /\ errors = <<>> <=> Len(errors) = 0
    BY <2>1
  <2> DEFINE causes == {i \in DOMAIN errors : errors[i] \notin Closing}
             told == IF causes # {} THEN causes ELSE DOMAIN errors
  <2> SUFFICES IF errors = <<>> THEN pending = "none"
               ELSE \E last \in told : pending = errors[last] /\ \A i \in told : i <= last
    BY DEF CauseReachesCaller
  <2>3. CASE CauseIsPending
    <3>1. PICK i \in 1..Len(errors) :
            /\ pending = errors[i] /\ errors[i] \notin Closing
            /\ \A j \in 1..Len(errors) : errors[j] \notin Closing => j <= i
      BY <2>3 DEF CauseIsPending
    <3>2. i \in causes /\ told = causes /\ errors # <<>>
      BY <2>2, <3>1
    <3> QED
      BY <2>2, <3>1, <3>2
  <2>4. CASE ClosingIsPending
    <3>1. told = 1..Len(errors)
      BY <2>2, <2>4 DEF ClosingIsPending
    <3>2. CASE errors # <<>>
      <4>1. Len(errors) \in told /\ pending = errors[Len(errors)]
        BY <2>2, <2>4, <3>1, <3>2 DEF ClosingIsPending
      <4> QED
        BY <2>2, <3>1, <3>2, <4>1
    <3> QED
      BY <2>4, <3>2 DEF ClosingIsPending
  <2> QED
    BY <2>1, <2>3, <2>4
<1> QED
  BY <1>1, EdgeInvariantHolds, PTL

\* When Playwright stops, nothing of the profile is left open, whatever failed
\* before (browser_runtime.py:172-246).
THEOREM ProfilesAreReleased == EdgeSpec => []ProfileIsReleased
<1>1. EdgeInvariant => ProfileIsReleased
  BY DEF EdgeInvariant, OpenByPhase, ProfileIsReleased
<1> QED
  BY <1>1, EdgeInvariantHolds, PTL

-----------------------------------------------------------------------------
(* SafeFragment.                                                            *)

\* The open elements of the kind of the first removed one, which follows k
\* elements that are kept.
Marks(k, stack) == {i \in k + 1..Len(stack) : stack[i] = stack[k + 1]}

\* What is skipped has one entry for each of them, and nothing is skipped where
\* all open elements are kept.
Counted(k, stack, skip) ==
  /\ k \in 0..Len(stack)
  /\ \A i \in 1..k : stack[i] \notin RemovedTags
  /\ k = Len(stack) => skip = <<>>
  /\ k # Len(stack) =>
       /\ stack[k + 1] \in RemovedTags
       /\ \A i \in 1..Len(skip) : skip[i] = stack[k + 1]
       /\ Len(skip) = Cardinality(Marks(k, stack))

\* What the validator w has read of the output while v has read the fragment:
\* until the parsers diverge, the elements that are kept; after that, more than
\* those, or something that is no table.
Output(k, v, w, astray) ==
  /\ astray /\ w.valid => Len(w.stack) > k
  /\ ~astray => /\ w.valid /\ w.root = v.root
                /\ Len(w.stack) = k
                /\ \A i \in 1..k : w.stack[i] = v.stack[i]

\* The stack of a valid fragment has no void element, and a table at its bottom.
StackIsPlain(v) ==
  /\ \A i \in 1..Len(v.stack) : v.stack[i] \notin VoidTags
  /\ v.stack # <<>> => v.root

\* A removed element without an end is skipped for ever.
EndlessSkip(w, skip, astray) ==
  /\ skip # <<>> /\ astray
  /\ \A i \in 1..Len(skip) : skip[i] \in VoidTags
  /\ w.valid => w.stack # <<>>

Aligned(v, w, skip, astray) ==
  /\ StackIsPlain(v)
  /\ \/ EndlessSkip(w, skip, astray)
     \/ \E k \in Nat : Counted(k, v.stack, skip) /\ Output(k, v, w, astray)

Validators == [stack : Seq(Tags), root : BOOLEAN, valid : BOOLEAN]

FragmentTypeOK ==
  /\ fragment \in Validators /\ sanitized \in Validators
  /\ skipped \in Seq(Tags) /\ diverged \in BOOLEAN

FragmentInvariant ==
  FragmentTypeOK /\ (fragment.valid => Aligned(fragment, sanitized, skipped, diverged))

\* What a sequence is without its last element.
LEMMA Popped ==
  ASSUME NEW S, NEW s \in Seq(S), s # <<>>
  PROVE  /\ Front(s) \in Seq(S) /\ Len(s) \in Nat \ {0} /\ Len(Front(s)) = Len(s) - 1
         /\ \A i \in 1..Len(s) - 1 : Front(s)[i] = s[i]
         /\ Last(s) \in S /\ Last(s) = s[Len(s)]
<1>1. Len(s) \in Nat /\ Len(s) # 0 /\ DOMAIN s = 1..Len(s)
  OBVIOUS
<1>2. Len(s) - 1 \in Nat /\ Len(s) \in 1..Len(s) /\ \A i \in 1..Len(s) - 1 : i \in 1..Len(s)
  BY <1>1
<1>3. \A i \in 1..Len(s) - 1 : s[i] \in S
  BY <1>1
<1>4. Front(s) = [i \in 1..Len(s) - 1 |-> s[i]]
  BY <1>1, <1>2 DEF Front
<1>5. Front(s) \in Seq(S) /\ Len(Front(s)) = Len(s) - 1
  BY <1>2, <1>3, <1>4
<1> QED
  BY <1>1, <1>2, <1>4, <1>5 DEF Last

\* Two sequences of the same length and elements are one.
LEMMA SameSequences ==
  ASSUME NEW S, NEW s \in Seq(S), NEW t \in Seq(S), Len(s) = Len(t),
         \A i \in 1..Len(s) : s[i] = t[i]
  PROVE  s = t
OBVIOUS

\* Something is skipped just where an open element is removed.
LEMMA SkippingInside ==
  ASSUME NEW k \in Nat, NEW stack \in Seq(Tags), NEW skip \in Seq(Tags),
         Counted(k, stack, skip)
  PROVE  /\ skip = <<>> <=> k = Len(stack)
         /\ IsFiniteSet(Marks(k, stack))
<1>1. Len(stack) \in Nat
  OBVIOUS
<1>2. IsFiniteSet(Marks(k, stack))
  <2>1. IsFiniteSet(k + 1..Len(stack))
    BY <1>1, FS_Interval
  <2> QED
    BY <2>1, FS_Subset DEF Marks
<1>3. ASSUME k # Len(stack), skip = <<>> PROVE FALSE
  <2>1. k + 1 \in Marks(k, stack)
    BY <1>1, <1>3 DEF Marks, Counted
  <2>2. Cardinality(Marks(k, stack)) = 0
    BY <1>3 DEF Counted
  <2> QED
    BY <1>2, <2>1, <2>2, FS_EmptySet
<1> QED
  BY <1>2, <1>3 DEF Counted

\* An element that is kept is opened.
LEMMA KeptIsOpened ==
  ASSUME NEW stack \in Seq(Tags), NEW tag \in Tags, tag \notin RemovedTags,
         Counted(Len(stack), stack, <<>>)
  PROVE  Counted(Len(stack) + 1, Append(stack, tag), <<>>)
<1> DEFINE more == Append(stack, tag)
<1>1. /\ more \in Seq(Tags) /\ Len(stack) \in Nat /\ Len(more) = Len(stack) + 1
      /\ \A i \in 1..Len(stack) : more[i] = stack[i]
      /\ more[Len(stack) + 1] = tag
  BY Appended
<1> HIDE DEF more
<1>2. \A i \in 1..Len(stack) + 1 : more[i] \notin RemovedTags
  BY <1>1 DEF Counted
<1>3. Counted(Len(stack) + 1, more, <<>>)
  BY <1>1, <1>2 DEF Counted
<1> QED
  BY <1>3 DEF more

\* An element that is removed is opened.
LEMMA RemovedIsOpened ==
  ASSUME NEW stack \in Seq(Tags), NEW tag \in Tags, tag \in RemovedTags,
         Counted(Len(stack), stack, <<>>)
  PROVE  Counted(Len(stack), Append(stack, tag), <<tag>>)
<1> DEFINE more == Append(stack, tag)
           k == Len(stack)
<1>1. /\ more \in Seq(Tags) /\ k \in Nat /\ Len(more) = k + 1
      /\ \A i \in 1..k : more[i] = stack[i]
      /\ more[k + 1] = tag
  BY Appended
<1>2. \A i \in 1..k : stack[i] \notin RemovedTags
  BY DEF Counted
<1> HIDE DEF more, k
<1>3. Marks(k, more) = {k + 1}
  BY <1>1 DEF Marks
<1>4. Cardinality(Marks(k, more)) = 1
  BY <1>3, FS_Singleton
<1>5. Len(<<tag>>) = 1 /\ <<tag>>[1] = tag
  OBVIOUS
<1>6. Counted(k, more, <<tag>>)
  BY <1>1, <1>2, <1>4, <1>5 DEF Counted
<1> QED
  BY <1>6 DEF more, k

\* An element inside a removed one is opened.
LEMMA SkippedIsOpened ==
  ASSUME NEW k \in Nat, NEW stack \in Seq(Tags), NEW skip \in Seq(Tags), NEW tag \in Tags,
         skip # <<>>, Counted(k, stack, skip)
  PROVE  Counted(k, Append(stack, tag), IF Ends(skip, tag) THEN Append(skip, tag) ELSE skip)
<1> DEFINE more == Append(stack, tag)
           longer == Append(skip, tag)
<1>1. /\ more \in Seq(Tags) /\ Len(stack) \in Nat /\ Len(more) = Len(stack) + 1
      /\ \A i \in 1..Len(stack) : more[i] = stack[i]
      /\ more[Len(stack) + 1] = tag
  BY Appended
<1>2. /\ longer \in Seq(Tags) /\ Len(skip) \in Nat \ {0} /\ Len(longer) = Len(skip) + 1
      /\ \A i \in 1..Len(skip) : longer[i] = skip[i]
      /\ longer[Len(skip) + 1] = tag
  BY Appended
<1> HIDE DEF more, longer
<1>3. k + 1 \in 1..Len(stack) /\ IsFiniteSet(Marks(k, stack)) /\ k # Len(stack)
  <2>1. k # Len(stack) /\ IsFiniteSet(Marks(k, stack))
    BY SkippingInside
  <2>2. k \in 0..Len(stack)
    BY DEF Counted
  <2> QED
    BY <1>1, <2>1, <2>2
<1>4. PICK r : /\ r = stack[k + 1] /\ r = more[k + 1] /\ r \in RemovedTags
               /\ \A i \in 1..Len(skip) : skip[i] = r
               /\ Len(skip) = Cardinality(Marks(k, stack))
  BY <1>1, <1>3 DEF Counted
<1>5. /\ k \in 0..Len(more) /\ k # Len(more)
      /\ \A i \in 1..k : more[i] \notin RemovedTags
  <2>1. k \in 0..Len(stack) /\ \A i \in 1..k : stack[i] \notin RemovedTags
    BY DEF Counted
  <2>2. \A i \in 1..k : i \in 1..Len(stack)
    BY <1>1, <2>1
  <2> QED
    BY <1>1, <1>3, <2>1, <2>2
<1>6. /\ Marks(k, stack) = {i \in k + 1..Len(stack) : stack[i] = r}
      /\ Marks(k, more) = {i \in k + 1..Len(stack) + 1 : more[i] = r}
  BY <1>1, <1>4 DEF Marks
<1>7. Ends(skip, tag) <=> tag = r
  BY <1>2, <1>4 DEF Ends, Last
<1>8. CASE tag = r
  <2>1. Marks(k, more) = Marks(k, stack) \cup {Len(stack) + 1}
    BY <1>1, <1>3, <1>6, <1>8
  <2>2. Len(stack) + 1 \notin Marks(k, stack)
    BY <1>1, <1>6
  <2>3. Cardinality(Marks(k, more)) = Cardinality(Marks(k, stack)) + 1
    BY <1>3, <2>1, <2>2, FS_AddElement
  <2>4. \A i \in 1..Len(longer) : longer[i] = r
    BY <1>2, <1>4, <1>8
  <2>5. Counted(k, more, longer)
    BY <1>2, <1>4, <1>5, <2>3, <2>4 DEF Counted
  <2> QED
    BY <1>7, <1>8, <2>5 DEF more, longer
<1>9. CASE tag # r
  <2>1. Marks(k, more) = Marks(k, stack)
    <3>1. Marks(k, more) \subseteq Marks(k, stack)
      BY <1>1, <1>6, <1>9
    <3>2. Marks(k, stack) \subseteq Marks(k, more)
      BY <1>1, <1>6, <1>9
    <3> QED
      BY <3>1, <3>2
  <2>2. Counted(k, more, skip)
    BY <1>4, <1>5, <2>1 DEF Counted
  <2> QED
    BY <1>7, <1>9, <2>2 DEF more
<1> QED
  BY <1>8, <1>9

\* An element that is kept is closed.
LEMMA KeptIsClosed ==
  ASSUME NEW stack \in Seq(Tags), stack # <<>>, Counted(Len(stack), stack, <<>>)
  PROVE  Len(stack) - 1 \in Nat /\ Counted(Len(stack) - 1, Front(stack), <<>>)
<1> DEFINE less == Front(stack)
<1>1. /\ less \in Seq(Tags) /\ Len(stack) \in Nat \ {0} /\ Len(less) = Len(stack) - 1
      /\ \A i \in 1..Len(stack) - 1 : less[i] = stack[i]
  BY Popped
<1> HIDE DEF less
<1>2. \A i \in 1..Len(stack) - 1 : less[i] \notin RemovedTags
  BY <1>1 DEF Counted
<1>3. Counted(Len(stack) - 1, less, <<>>)
  BY <1>1, <1>2 DEF Counted
<1> QED
  BY <1>1, <1>3 DEF less

\* An element inside a removed one is closed, or that one itself.
LEMMA SkippedIsClosed ==
  ASSUME NEW k \in Nat, NEW stack \in Seq(Tags), NEW skip \in Seq(Tags),
         skip # <<>>, Counted(k, stack, skip), stack # <<>>
  PROVE  LET tag == Last(stack)
         IN  Counted(k, Front(stack), IF Ends(skip, tag) THEN Front(skip) ELSE skip)
<1> DEFINE less == Front(stack)
           shorter == Front(skip)
           tag == Last(stack)
<1>1. /\ less \in Seq(Tags) /\ Len(stack) \in Nat \ {0} /\ Len(less) = Len(stack) - 1
      /\ \A i \in 1..Len(stack) - 1 : less[i] = stack[i]
      /\ tag = stack[Len(stack)]
  BY Popped
<1>2. /\ shorter \in Seq(Tags) /\ Len(skip) \in Nat \ {0} /\ Len(shorter) = Len(skip) - 1
      /\ \A i \in 1..Len(skip) - 1 : shorter[i] = skip[i]
  BY Popped
<1> DEFINE Goal == Counted(k, less, IF Ends(skip, tag) THEN shorter ELSE skip)
<1> HIDE DEF less, shorter, tag
<1>3. k + 1 \in 1..Len(stack) /\ IsFiniteSet(Marks(k, stack)) /\ k # Len(stack)
  <2>1. k # Len(stack) /\ IsFiniteSet(Marks(k, stack))
    BY SkippingInside
  <2>2. k \in 0..Len(stack)
    BY DEF Counted
  <2> QED
    BY <1>1, <2>1, <2>2
<1>4. PICK r : /\ r = stack[k + 1] /\ r \in RemovedTags
               /\ \A i \in 1..Len(skip) : skip[i] = r
               /\ Len(skip) = Cardinality(Marks(k, stack))
  BY <1>1, <1>3 DEF Counted
<1>5. /\ k \in 0..Len(less)
      /\ \A i \in 1..k : less[i] \notin RemovedTags
  <2>1. \A i \in 1..k : stack[i] \notin RemovedTags
    BY DEF Counted
  <2>2. k \in 0..Len(less) /\ \A i \in 1..k : i \in 1..Len(stack) - 1
    BY <1>1, <1>3
  <2> QED
    BY <1>1, <2>1, <2>2
<1>6. Marks(k, stack) = {i \in k + 1..Len(stack) : stack[i] = r}
  BY <1>4 DEF Marks
<1>7. Ends(skip, tag) <=> tag = r
  BY <1>2, <1>4 DEF Ends, Last
<1>8. ASSUME k = Len(less) PROVE Goal
  <2>1. tag = r
    BY <1>1, <1>4, <1>8
  <2>2. Marks(k, stack) = {k + 1}
    BY <1>1, <1>4, <1>6, <1>8
  <2>3. Len(skip) = 1
    BY <1>4, <2>2, FS_Singleton
  <2>4. Len(shorter) = 0
    BY <1>2, <2>3
  <2>5. shorter = <<>>
    BY <1>2, <2>4
  <2>6. Counted(k, less, shorter)
    BY <1>5, <1>8, <2>5 DEF Counted
  <2> QED
    BY <1>7, <2>1, <2>6
<1>9. ASSUME k # Len(less) PROVE Goal
  <2>1. k + 1 \in 1..Len(less) /\ less[k + 1] = r
    BY <1>1, <1>3, <1>4, <1>9
  <2>2. Marks(k, less) = {i \in k + 1..Len(less) : less[i] = r}
    BY <2>1 DEF Marks
  <2>3. ASSUME NEW i \in k + 1..Len(less)
        PROVE  i \in k + 1..Len(stack) /\ i # Len(stack) /\ less[i] = stack[i]
    <3>1. i \in 1..Len(stack) - 1 /\ i \in k + 1..Len(stack)
      BY <1>1
    <3> QED
      BY <1>1, <3>1
  <2>4. Marks(k, less) \subseteq Marks(k, stack)
    BY <1>6, <2>2, <2>3
  <2>5. CASE tag = r
    <3>1. stack[Len(stack)] = r /\ Len(stack) \in k + 1..Len(stack)
      BY <1>1, <1>3, <2>5
    <3>2. Marks(k, less) \subseteq Marks(k, stack) \ {Len(stack)}
      BY <2>2, <2>3, <2>4
    <3>3. ASSUME NEW i \in Marks(k, stack) \ {Len(stack)} PROVE i \in Marks(k, less)
      <4>1. i \in k + 1..Len(less) /\ stack[i] = r
        BY <1>1, <1>6, <3>3
      <4> QED
        BY <2>2, <2>3, <4>1
    <3>4. Len(stack) \in Marks(k, stack) /\ Marks(k, less) = Marks(k, stack) \ {Len(stack)}
      BY <1>6, <3>1, <3>2, <3>3
    <3>5. Cardinality(Marks(k, less)) = Cardinality(Marks(k, stack)) - 1
      BY <1>3, <3>4, FS_RemoveElement
    <3>6. \A i \in 1..Len(shorter) : shorter[i] = r
      BY <1>2, <1>4
    <3>7. Len(shorter) = Cardinality(Marks(k, less))
      BY <1>2, <1>4, <3>5
    <3>8. less[k + 1] \in RemovedTags /\ \A i \in 1..Len(shorter) : shorter[i] = less[k + 1]
      BY <1>4, <2>1, <3>6
    <3>9. Counted(k, less, shorter)
      BY <1>5, <1>9, <3>7, <3>8 DEF Counted
    <3> QED
      BY <1>7, <2>5, <3>9
  <2>6. CASE tag # r
    <3>1. Marks(k, less) = Marks(k, stack)
      <4>1. ASSUME NEW i \in Marks(k, stack) PROVE i \in Marks(k, less)
        <5>1. i \in k + 1..Len(stack) /\ stack[i] = r /\ i # Len(stack)
          BY <1>1, <1>6, <2>6, <4>1
        <5>2. i \in k + 1..Len(less)
          BY <1>1, <5>1
        <5> QED
          BY <2>2, <2>3, <5>1, <5>2
      <4> QED
        BY <2>4, <4>1
    <3>2. Counted(k, less, skip)
      BY <1>4, <1>5, <1>9, <2>1, <3>1 DEF Counted
    <3> QED
      BY <1>7, <2>6, <3>2
  <2> QED
    BY <2>5, <2>6
<1>10. Goal
  BY <1>8, <1>9
<1> QED
  BY <1>10 DEF less, shorter, tag

\* What a validator becomes that reads <tag>.
LEMMA WhenStarted ==
  ASSUME NEW v \in Validators, NEW tag \in Tags
  PROVE  /\ Started(v, tag) \in Validators
         /\ v.valid /\ v.stack # <<>> => Started(v, tag).valid
         /\ v.valid /\ ~v.root /\ tag = "table" => Started(v, tag).valid
         /\ Started(v, tag).valid =>
              /\ v.valid /\ Started(v, tag).root
              /\ v.stack # <<>> \/ (tag = "table" /\ ~v.root)
              /\ tag \in VoidTags => Started(v, tag).stack = v.stack
              /\ tag \notin VoidTags => Started(v, tag).stack = Append(v.stack, tag)
<1>1. v.stack \in Seq(Tags) /\ v.root \in BOOLEAN /\ v.valid \in BOOLEAN
  BY DEF Validators
<1>2. PICK more \in Seq(Tags) : more = Append(v.stack, tag)
  BY <1>1, Appended
<1>3. CASE v.stack = <<>> /\ (v.root \/ tag # "table")
  <2>1. Started(v, tag) = [v EXCEPT !.valid = FALSE]
    BY <1>3 DEF Started
  <2> QED
    BY <1>1, <1>3, <2>1 DEF Validators
<1>4. CASE ~(v.stack = <<>> /\ (v.root \/ tag # "table"))
  <2>1. Started(v, tag) = [v EXCEPT !.root = TRUE,
                                    !.stack = IF tag \in VoidTags THEN v.stack ELSE more]
    BY <1>2, <1>4 DEF Started
  <2>2. (IF tag \in VoidTags THEN v.stack ELSE more) \in Seq(Tags)
    BY <1>1
  <2> QED
    BY <1>1, <1>2, <1>4, <2>1, <2>2 DEF Validators
<1> QED
  BY <1>3, <1>4

\* What a validator becomes that reads </tag>.
LEMMA WhenEnded ==
  ASSUME NEW v \in Validators, NEW tag \in Tags
  PROVE  /\ Ended(v, tag) \in Validators
         /\ v.valid /\ v.stack # <<>> /\ Last(v.stack) = tag => Ended(v, tag).valid
         /\ Ended(v, tag).valid =>
              /\ v.valid /\ v.stack # <<>> /\ Last(v.stack) = tag
              /\ Ended(v, tag).stack = Front(v.stack) /\ Ended(v, tag).root = v.root
<1>1. v.stack \in Seq(Tags) /\ v.root \in BOOLEAN /\ v.valid \in BOOLEAN
  BY DEF Validators
<1>2. CASE Ends(v.stack, tag)
  <2>1. v.stack # <<>> /\ Last(v.stack) = tag
    BY <1>2 DEF Ends
  <2>2. PICK less \in Seq(Tags) : less = Front(v.stack)
    BY <1>1, <2>1, Popped
  <2>3. Ended(v, tag) = [v EXCEPT !.stack = less]
    BY <1>2, <2>2 DEF Ended
  <2> QED
    BY <1>1, <2>1, <2>2, <2>3 DEF Validators
<1>3. CASE ~Ends(v.stack, tag)
  <2>1. Ended(v, tag) = [v EXCEPT !.valid = FALSE]
    BY <1>3 DEF Ended
  <2>2. ~(v.stack # <<>> /\ Last(v.stack) = tag)
    BY <1>3 DEF Ends
  <2> QED
    BY <1>1, <2>1, <2>2 DEF Validators
<1> QED
  BY <1>2, <1>3

\* Text leaves a validator as it is, or spoils it.
LEMMA WhenContained ==
  ASSUME NEW v \in Validators
  PROVE  /\ Contained(v) \in Validators
         /\ Contained(v).valid => Contained(v) = v /\ v.stack # <<>>
BY DEF Contained, Validators

\* Where nothing is skipped and the parsers have not diverged, both validators
\* are in the same state.
LEMMA NothingSkipped ==
  ASSUME NEW v \in Validators, NEW w \in Validators, NEW astray \in BOOLEAN,
         v.valid, Aligned(v, w, <<>>, astray)
  PROVE  /\ Counted(Len(v.stack), v.stack, <<>>) /\ Output(Len(v.stack), v, w, astray)
         /\ Len(v.stack) \in Nat /\ (~astray => w = v)
<1>1. v.stack \in Seq(Tags) /\ w.stack \in Seq(Tags) /\ Len(v.stack) \in Nat
  BY DEF Validators
<1>2. PICK k \in Nat : Counted(k, v.stack, <<>>) /\ Output(k, v, w, astray)
  BY DEF Aligned, EndlessSkip
<1>3. <<>> \in Seq(Tags)
  OBVIOUS
<1>4. k = Len(v.stack)
  BY <1>1, <1>2, <1>3, SkippingInside
<1>5. ASSUME ~astray PROVE w = v
  <2>1. w.valid /\ w.root = v.root /\ Len(w.stack) = Len(v.stack)
    BY <1>2, <1>4, <1>5 DEF Output
  <2>2. \A i \in 1..Len(w.stack) : w.stack[i] = v.stack[i]
    BY <1>2, <1>4, <1>5 DEF Output
  <2>3. w.stack = v.stack
    BY ONLY <1>1, <2>1, <2>2, SameSequences
  <2>4. w.valid = v.valid
    BY <2>1 DEF Validators
  <2> QED
    BY <2>1, <2>3, <2>4 DEF Validators
<1> QED
  BY <1>1, <1>2, <1>4, <1>5

\* The stack of a validator stays plain.
LEMMA PlainStarted ==
  ASSUME NEW v \in Validators, NEW tag \in Tags, StackIsPlain(v), Started(v, tag).valid
  PROVE  StackIsPlain(Started(v, tag))
<1>1. v.stack \in Seq(Tags) /\ Len(v.stack) \in Nat /\ Started(v, tag).root
  BY WhenStarted DEF Validators
<1>2. CASE tag \in VoidTags
  BY <1>1, <1>2, WhenStarted DEF StackIsPlain
<1>3. CASE tag \notin VoidTags
  <2> DEFINE more == Append(v.stack, tag)
  <2>1. /\ Len(more) = Len(v.stack) + 1 /\ more[Len(v.stack) + 1] = tag
        /\ \A i \in 1..Len(v.stack) : more[i] = v.stack[i]
    BY <1>1, Appended
  <2>2. Started(v, tag).stack = more
    BY <1>3, WhenStarted
  <2> HIDE DEF more
  <2>3. \A i \in 1..Len(v.stack) : v.stack[i] \notin VoidTags
    BY DEF StackIsPlain
  <2>4. \A i \in 1..Len(more) : more[i] \notin VoidTags
    BY <1>1, <1>3, <2>1, <2>3
  <2> QED
    BY <1>1, <2>2, <2>4 DEF StackIsPlain
<1> QED
  BY <1>2, <1>3

LEMMA PlainEnded ==
  ASSUME NEW v \in Validators, NEW tag \in Tags, StackIsPlain(v), Ended(v, tag).valid
  PROVE  StackIsPlain(Ended(v, tag)) /\ tag \notin VoidTags
<1>1. v.stack \in Seq(Tags) /\ v.stack # <<>> /\ Last(v.stack) = tag
  BY WhenEnded DEF Validators
<1> DEFINE less == Front(v.stack)
<1>2. /\ Len(v.stack) \in Nat \ {0} /\ Len(less) = Len(v.stack) - 1
      /\ \A i \in 1..Len(v.stack) - 1 : less[i] = v.stack[i]
      /\ tag = v.stack[Len(v.stack)]
  BY <1>1, Popped
<1>3. Ended(v, tag).stack = less /\ Ended(v, tag).root = v.root
  BY WhenEnded
<1> HIDE DEF less
<1>4. v.root /\ \A i \in 1..Len(v.stack) : v.stack[i] \notin VoidTags
  BY <1>1 DEF StackIsPlain
<1>5. tag \notin VoidTags /\ \A i \in 1..Len(less) : less[i] \notin VoidTags
  BY <1>2, <1>4
<1> QED
  BY <1>3, <1>4, <1>5 DEF StackIsPlain

\* <tag> while something is skipped.
LEMMA SkippedOpens ==
  ASSUME NEW v \in Validators, NEW w \in Validators, NEW skip \in Seq(Tags),
         NEW astray \in BOOLEAN, NEW tag \in Tags,
         skip # <<>>, Aligned(v, w, skip, astray), Started(v, tag).valid
  PROVE  Aligned(Started(v, tag), w, IF Ends(skip, tag) THEN Append(skip, tag) ELSE skip, astray)
<1> DEFINE next == IF Ends(skip, tag) THEN Append(skip, tag) ELSE skip
           u == Started(v, tag)
<1>1. u \in Validators /\ StackIsPlain(v) /\ StackIsPlain(u) /\ u.root
  BY WhenStarted, PlainStarted DEF Aligned
<1>2. /\ tag \in VoidTags => u.stack = v.stack
      /\ tag \notin VoidTags => u.stack = Append(v.stack, tag)
  BY WhenStarted
<1>3. v.stack \in Seq(Tags) /\ Len(v.stack) \in Nat
  BY DEF Validators
<1> HIDE DEF u
<1>4. CASE EndlessSkip(w, skip, astray)
  <2>1. /\ Append(skip, tag) \in Seq(Tags) /\ Len(skip) \in Nat \ {0}
        /\ Len(Append(skip, tag)) = Len(skip) + 1
        /\ \A i \in 1..Len(skip) : Append(skip, tag)[i] = skip[i]
        /\ Append(skip, tag)[Len(skip) + 1] = tag
    BY Appended
  <2>2. \A i \in 1..Len(skip) : skip[i] \in VoidTags
    BY <1>4 DEF EndlessSkip
  <2>3. CASE Ends(skip, tag)
    <3>1. next = Append(skip, tag) /\ tag = skip[Len(skip)]
      BY <2>3 DEF Ends, Last
    <3> HIDE DEF next
    <3>2. next # <<>> /\ \A i \in 1..Len(next) : next[i] \in VoidTags
      BY <2>1, <2>2, <3>1
    <3>3. EndlessSkip(w, next, astray)
      BY <1>4, <3>2 DEF EndlessSkip
    <3> QED
      BY <1>1, <3>3 DEF Aligned, next, u
  <2>4. CASE ~Ends(skip, tag)
    BY <1>1, <1>4, <2>4 DEF Aligned, next, u
  <2> QED
    BY <2>3, <2>4
<1>5. CASE \E k \in Nat : Counted(k, v.stack, skip) /\ Output(k, v, w, astray)
  <2>1. PICK k \in Nat : Counted(k, v.stack, skip) /\ Output(k, v, w, astray)
    BY <1>5
  <2>2. k # Len(v.stack)
    BY <1>3, <2>1, SkippingInside
  <2>3. k + 1 \in 1..Len(v.stack) /\ \A i \in 1..Len(skip) : skip[i] = v.stack[k + 1]
    BY <1>3, <2>1, <2>2 DEF Counted
  <2>4. Counted(k, u.stack, next)
    <3>1. CASE tag \in VoidTags
      <4>1. v.stack[k + 1] \notin VoidTags
        BY <1>1, <2>3 DEF StackIsPlain
      <4>2. Len(skip) \in 1..Len(skip)
        OBVIOUS
      <4>3. ~Ends(skip, tag)
        BY <2>3, <3>1, <4>1, <4>2 DEF Ends, Last
      <4> QED
        BY <1>2, <2>1, <3>1, <4>3
    <3>2. CASE tag \notin VoidTags
      <4>1. Counted(k, Append(v.stack, tag), next)
        BY <1>3, <2>1, SkippedIsOpened
      <4> QED
        BY <1>2, <3>2, <4>1
    <3> QED
      BY <3>1, <3>2
  <2>5. \A i \in 1..k : u.stack[i] = v.stack[i]
    <3>1. /\ \A i \in 1..Len(v.stack) : Append(v.stack, tag)[i] = v.stack[i]
      BY <1>3, Appended
    <3>2. \A i \in 1..k : i \in 1..Len(v.stack)
      BY <1>3, <2>3
    <3> QED
      BY <1>2, <3>1, <3>2
  <2>6. v.root /\ u.root
    <3>1. v.stack # <<>>
      BY <1>3, <2>3
    <3> QED
      BY <1>1, <3>1 DEF StackIsPlain
  <2>7. Output(k, u, w, astray)
    <3>1. ASSUME ~astray
          PROVE  /\ w.valid /\ w.root = u.root /\ Len(w.stack) = k
                 /\ \A i \in 1..k : w.stack[i] = u.stack[i]
      <4>1. w.valid /\ Len(w.stack) = k /\ w.root = v.root
        BY <2>1, <3>1 DEF Output
      <4>2. \A i \in 1..k : w.stack[i] = v.stack[i]
        BY <2>1, <3>1 DEF Output
      <4>3. w.root = u.root
        BY <2>6, <4>1, WhenStarted DEF Validators, u
      <4> QED
        BY <2>5, <4>1, <4>2, <4>3
    <3>2. astray /\ w.valid => Len(w.stack) > k
      BY <2>1 DEF Output
    <3> QED
      BY <3>1, <3>2 DEF Output
  <2> HIDE DEF next
  <2>8. Aligned(u, w, next, astray)
    BY <1>1, <2>4, <2>7 DEF Aligned
  <2> QED
    BY <2>8 DEF next, u
<1> QED
  BY <1>4, <1>5 DEF Aligned

\* <tag> of a removed element outside of others.
LEMMA RemovedOpens ==
  ASSUME NEW v \in Validators, NEW w \in Validators, NEW astray \in BOOLEAN, NEW tag \in Tags,
         tag \in RemovedTags, Aligned(v, w, <<>>, astray), Started(v, tag).valid
  PROVE  Aligned(Started(v, tag), w, <<tag>>, astray \/ tag \in VoidTags)
<1> DEFINE u == Started(v, tag)
           k == Len(v.stack)
<1>1. /\ u \in Validators /\ StackIsPlain(u) /\ StackIsPlain(v)
      /\ u.root \in BOOLEAN /\ u.root /\ v.valid
  BY WhenStarted, PlainStarted DEF Aligned, Validators
<1>2. /\ v.stack \in Seq(Tags) /\ v.stack # <<>> /\ v.root /\ v.root \in BOOLEAN
      /\ k \in Nat \ {0} /\ w.stack \in Seq(Tags)
  <2>1. v.stack # <<>>
    BY WhenStarted, FragmentAssumption
  <2> QED
    BY <1>1, <2>1 DEF Validators, StackIsPlain
<1>3. Counted(k, v.stack, <<>>) /\ Output(k, v, w, astray)
  BY <1>1, NothingSkipped
<1>4. /\ tag \in VoidTags => u.stack = v.stack
      /\ tag \notin VoidTags => u.stack = Append(v.stack, tag)
  BY WhenStarted
<1> HIDE DEF u
<1>5. <<tag>> # <<>> /\ Len(<<tag>>) = 1 /\ <<tag>>[1] = tag
  OBVIOUS
<1>6. CASE tag \in VoidTags
  <2>1. w.valid => w.stack # <<>>
    <3>1. w.valid => Len(w.stack) = k \/ Len(w.stack) > k
      BY <1>3 DEF Output
    <3>2. Len(w.stack) \in Nat
      BY <1>2
    <3>3. w.stack = <<>> => Len(w.stack) = 0
      OBVIOUS
    <3> HIDE DEF k
    <3> QED
      BY <1>2, <3>1, <3>2, <3>3
  <2>2. \A i \in 1..Len(<<tag>>) : <<tag>>[i] \in VoidTags
    BY <1>5, <1>6
  <2>3. EndlessSkip(w, <<tag>>, TRUE)
    BY <1>5, <2>1, <2>2 DEF EndlessSkip
  <2>4. (astray \/ tag \in VoidTags) = TRUE
    BY <1>6
  <2> QED
    BY <1>1, <2>3, <2>4 DEF Aligned, u
<1>7. CASE tag \notin VoidTags
  <2>1. Counted(k, u.stack, <<tag>>)
    BY <1>2, <1>3, <1>4, <1>7, RemovedIsOpened
  <2>2. \A i \in 1..k : u.stack[i] = v.stack[i]
    BY <1>2, <1>4, <1>7, Appended
  <2>3. Output(k, u, w, astray)
    <3>1. ASSUME ~astray
          PROVE  /\ w.valid /\ w.root = u.root /\ Len(w.stack) = k
                 /\ \A i \in 1..k : w.stack[i] = u.stack[i]
      <4>1. w.valid /\ Len(w.stack) = k /\ w.root = v.root
        BY <1>3, <3>1 DEF Output
      <4>2. \A i \in 1..k : w.stack[i] = v.stack[i]
        BY <1>3, <3>1 DEF Output
      <4> HIDE DEF k
      <4>3. w.root = u.root
        BY <1>1, <1>2, <4>1
      <4> QED
        BY <2>2, <4>1, <4>2, <4>3
    <3>2. astray /\ w.valid => Len(w.stack) > k
      BY <1>3 DEF Output
    <3> QED
      BY <3>1, <3>2 DEF Output
  <2>4. (astray \/ tag \in VoidTags) = astray
    BY <1>7
  <2> HIDE DEF k
  <2>5. k \in Nat
    BY <1>2
  <2>6. Aligned(u, w, <<tag>>, astray)
    BY <1>1, <2>1, <2>3, <2>5 DEF Aligned
  <2> QED
    BY <2>4, <2>6 DEF u
<1> QED
  BY <1>6, <1>7

\* <tag> of an element that is kept.
LEMMA KeptOpens ==
  ASSUME NEW v \in Validators, NEW w \in Validators, NEW astray \in BOOLEAN, NEW tag \in Tags,
         tag \notin RemovedTags, Aligned(v, w, <<>>, astray), Started(v, tag).valid
  PROVE  Aligned(Started(v, tag), Started(w, tag), <<>>, astray)
<1> DEFINE u == Started(v, tag)
           x == Started(w, tag)
           k == IF tag \in VoidTags THEN Len(v.stack) ELSE Len(v.stack) + 1
<1>1. /\ StackIsPlain(u) /\ v.valid
      /\ v.stack \in Seq(Tags) /\ w.stack \in Seq(Tags)
      /\ Len(v.stack) \in Nat /\ Len(w.stack) \in Nat
  BY WhenStarted, PlainStarted DEF Aligned, Validators
<1>2. /\ Counted(Len(v.stack), v.stack, <<>>) /\ Output(Len(v.stack), v, w, astray)
      /\ ~astray => w = v
  BY <1>1, NothingSkipped
<1>3. /\ tag \in VoidTags => u.stack = v.stack
      /\ tag \notin VoidTags => u.stack = Append(v.stack, tag)
  BY WhenStarted
<1>4. Counted(k, u.stack, <<>>) /\ k = Len(u.stack) /\ k \in Nat
  <2>1. CASE tag \in VoidTags
    BY <1>1, <1>2, <1>3, <2>1
  <2>2. CASE tag \notin VoidTags
    <3>1. Counted(Len(v.stack) + 1, Append(v.stack, tag), <<>>)
      BY <1>1, <1>2, KeptIsOpened
    <3>2. Len(Append(v.stack, tag)) = Len(v.stack) + 1
      BY <1>1, Appended
    <3>3. u.stack = Append(v.stack, tag) /\ k = Len(v.stack) + 1
      BY <1>3, <2>2
    <3> HIDE DEF u, k
    <3> QED
      BY <1>1, <3>1, <3>2, <3>3
  <2> QED
    BY <2>1, <2>2
<1>5. astray /\ x.valid => Len(x.stack) > k
  <2> SUFFICES ASSUME astray, x.valid PROVE Len(x.stack) > k
    OBVIOUS
  <2>1. w.valid /\ Len(w.stack) > Len(v.stack)
    BY <1>2, WhenStarted DEF Output
  <2>2. CASE tag \in VoidTags
    BY <2>1, <2>2, WhenStarted
  <2>3. CASE tag \notin VoidTags
    <3>1. x.stack = Append(w.stack, tag)
      BY <2>3, WhenStarted
    <3>2. Len(Append(w.stack, tag)) = Len(w.stack) + 1
      BY <1>1, Appended
    <3> QED
      BY <1>1, <2>1, <2>3, <3>1, <3>2
  <2> QED
    BY <2>2, <2>3
<1>6. ~astray => x = u /\ u.valid
  BY <1>2
<1> HIDE DEF u, x, k
<1>7. Output(k, u, x, astray)
  BY <1>4, <1>5, <1>6 DEF Output
<1>8. Aligned(u, x, <<>>, astray)
  BY <1>1, <1>4, <1>7 DEF Aligned
<1> QED
  BY <1>8 DEF u, x

\* What a validator becomes that reads <tag/>.
LEMMA WhenStartEnded ==
  ASSUME NEW v \in Validators, NEW tag \in Tags
  PROVE  /\ StartEnded(v, tag) \in Validators
         /\ StackIsPlain(v) /\ StartEnded(v, tag).valid =>
              /\ v.valid /\ tag \notin VoidTags
              /\ v.stack # <<>> \/ tag = "table"
              /\ StartEnded(v, tag).stack = v.stack /\ StartEnded(v, tag).root = TRUE
              /\ StackIsPlain(StartEnded(v, tag))
<1> DEFINE s == Started(v, tag)
<1>1. s \in Validators /\ s.valid \in BOOLEAN /\ s.root \in BOOLEAN
  BY WhenStarted DEF Validators
<1>2. StartEnded(v, tag) = IF s.valid THEN Ended(s, tag) ELSE s
  BY DEF StartEnded
<1>3. StartEnded(v, tag) \in Validators
  <2> HIDE DEF s
  <2> QED
    BY <1>1, <1>2, WhenEnded
<1>4. ASSUME StackIsPlain(v), StartEnded(v, tag).valid
      PROVE  /\ v.valid /\ tag \notin VoidTags
             /\ v.stack # <<>> \/ tag = "table"
             /\ StartEnded(v, tag).stack = v.stack /\ StartEnded(v, tag).root = TRUE
             /\ StackIsPlain(StartEnded(v, tag))
  <2>1. s.valid /\ StartEnded(v, tag) = Ended(s, tag) /\ Ended(s, tag).valid
    BY <1>2, <1>4
  <2>2. StackIsPlain(s) /\ v.valid /\ s.root /\ (v.stack # <<>> \/ tag = "table")
    BY <1>4, <2>1, WhenStarted, PlainStarted
  <2>3. StackIsPlain(Ended(s, tag)) /\ tag \notin VoidTags
    <3> HIDE DEF s
    <3> QED
      BY <1>1, <2>1, <2>2, PlainEnded
  <2>4. s.stack = Append(v.stack, tag)
    BY <2>1, <2>3, WhenStarted
  <2>5. Ended(s, tag).stack = Front(s.stack) /\ Ended(s, tag).root = TRUE
    <3> HIDE DEF s
    <3> QED
      BY <1>1, <2>1, <2>2, WhenEnded
  <2>6. Front(Append(v.stack, tag)) = v.stack
    <3>1. v.stack \in Seq(Tags)
      BY DEF Validators
    <3> QED
      BY <3>1 DEF Front
  <2> QED
    BY <2>1, <2>2, <2>3, <2>4, <2>5, <2>6
<1> QED
  BY <1>3, <1>4

\* <tag/> of an element that is kept: the parsers diverge.
LEMMA KeptOpensAndCloses ==
  ASSUME NEW v \in Validators, NEW w \in Validators, NEW astray \in BOOLEAN, NEW tag \in Tags,
         tag \notin RemovedTags, Aligned(v, w, <<>>, astray), StartEnded(v, tag).valid
  PROVE  Aligned(StartEnded(v, tag), Started(w, tag), <<>>, TRUE)
<1> DEFINE u == StartEnded(v, tag)
           x == Started(w, tag)
           k == Len(v.stack)
<1>1. v.valid /\ tag \notin VoidTags /\ u.stack = v.stack /\ StackIsPlain(u)
  BY WhenStartEnded DEF Aligned
<1>2. /\ v.stack \in Seq(Tags) /\ w.stack \in Seq(Tags)
      /\ k \in Nat /\ Len(w.stack) \in Nat
  BY DEF Validators
<1>3. Counted(k, v.stack, <<>>) /\ Output(k, v, w, astray)
  BY <1>1, NothingSkipped
<1>4. x.valid => Len(x.stack) > k
  <2> SUFFICES ASSUME x.valid PROVE Len(x.stack) > k
    OBVIOUS
  <2>1. w.valid /\ x.stack = Append(w.stack, tag)
    BY <1>1, WhenStarted
  <2>2. Len(Append(w.stack, tag)) = Len(w.stack) + 1
    BY <1>2, Appended
  <2> HIDE DEF k, x
  <2>3. Len(w.stack) = k \/ Len(w.stack) > k
    BY <1>3, <2>1 DEF Output
  <2> QED
    BY <1>2, <2>1, <2>2, <2>3
<1> HIDE DEF u, x, k
<1>5. Counted(k, u.stack, <<>>) /\ Output(k, u, x, TRUE)
  BY <1>1, <1>3, <1>4 DEF Output
<1>6. Aligned(u, x, <<>>, TRUE)
  BY <1>1, <1>2, <1>5 DEF Aligned
<1> QED
  BY <1>6 DEF u, x

\* <tag/> inside a removed element, or of one.
LEMMA SkippedOpensAndCloses ==
  ASSUME NEW v \in Validators, NEW w \in Validators, NEW skip \in Seq(Tags),
         NEW astray \in BOOLEAN, NEW tag \in Tags,
         skip # <<>> \/ tag \in RemovedTags,
         Aligned(v, w, skip, astray), StartEnded(v, tag).valid
  PROVE  Aligned(StartEnded(v, tag), w, skip, astray)
<1> DEFINE u == StartEnded(v, tag)
<1>1. /\ u.stack = v.stack /\ u.root = TRUE /\ StackIsPlain(u) /\ StackIsPlain(v)
      /\ v.stack # <<>> \/ tag = "table"
  BY WhenStartEnded DEF Aligned
<1> HIDE DEF u
<1>2. CASE EndlessSkip(w, skip, astray)
  BY <1>1, <1>2 DEF Aligned, u
<1>3. CASE \E k \in Nat : Counted(k, v.stack, skip) /\ Output(k, v, w, astray)
  <2>1. PICK k \in Nat : Counted(k, v.stack, skip) /\ Output(k, v, w, astray)
    BY <1>3
  <2>2. v.stack \in Seq(Tags) /\ v.root \in BOOLEAN
    BY DEF Validators
  <2>3. v.stack # <<>>
    <3>1. CASE skip # <<>>
      <4>1. k # Len(v.stack) /\ k \in 0..Len(v.stack)
        BY <2>1, <3>1 DEF Counted
      <4> QED
        BY <2>2, <4>1
    <3>2. CASE tag \in RemovedTags
      BY <1>1, <3>2, FragmentAssumption
    <3> QED
      BY <3>1, <3>2
  <2>4. v.root = TRUE
    BY <1>1, <2>2, <2>3 DEF StackIsPlain
  <2>5. Counted(k, u.stack, skip) /\ Output(k, u, w, astray)
    BY <1>1, <2>1, <2>4 DEF Output
  <2>6. Aligned(u, w, skip, astray)
    BY <1>1, <2>5 DEF Aligned
  <2> QED
    BY <2>6 DEF u
<1> QED
  BY <1>2, <1>3 DEF Aligned

\* </tag> of an element that is kept.
LEMMA KeptCloses ==
  ASSUME NEW v \in Validators, NEW w \in Validators, NEW astray \in BOOLEAN, NEW tag \in Tags,
         Aligned(v, w, <<>>, astray), Ended(v, tag).valid
  PROVE  Aligned(Ended(v, tag), Ended(w, tag), <<>>, astray)
<1> DEFINE u == Ended(v, tag)
           x == Ended(w, tag)
           k == Len(v.stack) - 1
<1>1. /\ v.valid /\ v.stack # <<>> /\ u.stack = Front(v.stack) /\ StackIsPlain(u)
      /\ v.stack \in Seq(Tags) /\ w.stack \in Seq(Tags)
  BY WhenEnded, PlainEnded DEF Aligned, Validators
<1>2. /\ Counted(Len(v.stack), v.stack, <<>>) /\ Output(Len(v.stack), v, w, astray)
      /\ ~astray => w = v
  BY <1>1, NothingSkipped
<1>3. k \in Nat /\ Counted(k, u.stack, <<>>) /\ Len(u.stack) = k
  <2>1. k \in Nat /\ Counted(k, Front(v.stack), <<>>)
    BY <1>1, <1>2, KeptIsClosed
  <2>2. Len(Front(v.stack)) = k
    BY <1>1, Popped
  <2> QED
    BY <1>1, <2>1, <2>2
<1>4. astray /\ x.valid => Len(x.stack) > k
  <2> SUFFICES ASSUME astray, x.valid PROVE Len(x.stack) > k
    OBVIOUS
  <2>1. w.valid /\ w.stack # <<>> /\ x.stack = Front(w.stack)
    BY WhenEnded
  <2>2. Len(Front(w.stack)) = Len(w.stack) - 1 /\ Len(w.stack) \in Nat
    BY <1>1, <2>1, Popped
  <2>3. Len(w.stack) > Len(v.stack)
    BY <1>2, <2>1 DEF Output
  <2>4. Len(v.stack) \in Nat
    BY <1>1
  <2> QED
    BY <2>1, <2>2, <2>3, <2>4
<1>5. ~astray => x = u /\ u.valid
  BY <1>2
<1> HIDE DEF u, x, k
<1>6. Output(k, u, x, astray)
  BY <1>3, <1>4, <1>5 DEF Output
<1>7. Aligned(u, x, <<>>, astray)
  BY <1>1, <1>3, <1>6 DEF Aligned
<1> QED
  BY <1>7 DEF u, x

\* </tag> while something is skipped.
LEMMA SkippedCloses ==
  ASSUME NEW v \in Validators, NEW w \in Validators, NEW skip \in Seq(Tags),
         NEW astray \in BOOLEAN, NEW tag \in Tags,
         skip # <<>>, Aligned(v, w, skip, astray), Ended(v, tag).valid
  PROVE  Aligned(Ended(v, tag), w, IF Ends(skip, tag) THEN Front(skip) ELSE skip, astray)
<1> DEFINE u == Ended(v, tag)
           next == IF Ends(skip, tag) THEN Front(skip) ELSE skip
<1>1. /\ v.stack # <<>> /\ Last(v.stack) = tag /\ v.stack \in Seq(Tags)
      /\ u.stack = Front(v.stack) /\ u.root = v.root
      /\ StackIsPlain(u) /\ tag \notin VoidTags
  BY WhenEnded, PlainEnded DEF Aligned, Validators
<1> HIDE DEF u
<1>2. CASE EndlessSkip(w, skip, astray)
  <2>1. Len(skip) \in 1..Len(skip)
    OBVIOUS
  <2>2. ~Ends(skip, tag)
    BY <1>1, <1>2, <2>1 DEF EndlessSkip, Ends, Last
  <2> QED
    BY <1>1, <1>2, <2>2 DEF Aligned, u
<1>3. CASE \E k \in Nat : Counted(k, v.stack, skip) /\ Output(k, v, w, astray)
  <2>1. PICK k \in Nat : Counted(k, v.stack, skip) /\ Output(k, v, w, astray)
    BY <1>3
  <2>2. Counted(k, u.stack, next)
    BY <1>1, <2>1, SkippedIsClosed
  <2>3. \A i \in 1..k : u.stack[i] = v.stack[i]
    <3>1. /\ Len(v.stack) \in Nat /\ Len(Front(v.stack)) = Len(v.stack) - 1
          /\ \A i \in 1..Len(v.stack) - 1 : Front(v.stack)[i] = v.stack[i]
      BY <1>1, Popped
    <3>2. k \in 0..Len(v.stack) - 1
      <4>1. k \in 0..Len(u.stack)
        BY <2>2 DEF Counted
      <4> QED
        BY <1>1, <3>1, <4>1
    <3>3. \A i \in 1..k : i \in 1..Len(v.stack) - 1
      BY <3>1, <3>2
    <3> QED
      BY <1>1, <3>1, <3>3
  <2>4. Output(k, u, w, astray)
    BY <1>1, <2>1, <2>3 DEF Output
  <2> HIDE DEF next
  <2>5. Aligned(u, w, next, astray)
    BY <1>1, <2>2, <2>4 DEF Aligned
  <2> QED
    BY <2>5 DEF u, next
<1> QED
  BY <1>2, <1>3 DEF Aligned

\* Text outside of what is skipped.
LEMMA TextIsKept ==
  ASSUME NEW v \in Validators, NEW w \in Validators, NEW astray \in BOOLEAN,
         v.valid, v.stack # <<>>, Aligned(v, w, <<>>, astray)
  PROVE  Aligned(v, Contained(w), <<>>, astray)
<1> DEFINE k == Len(v.stack)
           x == Contained(w)
<1>1. /\ Counted(k, v.stack, <<>>) /\ Output(k, v, w, astray) /\ k \in Nat
      /\ ~astray => w = v
  BY NothingSkipped
<1>2. ~astray => x = w
  BY <1>1 DEF Contained
<1>3. x.valid => x = w
  BY WhenContained
<1> HIDE DEF k, x
<1>4. Output(k, v, x, astray)
  BY <1>1, <1>2, <1>3 DEF Output
<1>5. Aligned(v, x, <<>>, astray)
  BY <1>1, <1>4 DEF Aligned
<1> QED
  BY <1>5 DEF x

\* The types hold whatever the tokens are.
LEMMA FragmentTyped ==
  ASSUME FragmentTypeOK, FragmentNext PROVE FragmentTypeOK'
<1>1. /\ fragment \in Validators /\ sanitized \in Validators
      /\ skipped \in Seq(Tags) /\ diverged \in BOOLEAN
  BY DEF FragmentTypeOK
<1>2. ASSUME NEW tag \in Tags, Open(tag) PROVE FragmentTypeOK'
  <2>1. /\ fragment' = Started(fragment, tag)
        /\ sanitized' = sanitized \/ sanitized' = Started(sanitized, tag)
        /\ skipped' = skipped \/ skipped' = Append(skipped, tag) \/ skipped' = <<tag>>
        /\ diverged' \in BOOLEAN
    BY <1>1, <1>2 DEF Open
  <2>2. skipped' \in Seq(Tags)
    <3>1. Append(skipped, tag) \in Seq(Tags) /\ <<tag>> \in Seq(Tags)
      BY <1>1
    <3> QED
      BY <1>1, <2>1, <3>1
  <2> QED
    BY <1>1, <2>1, <2>2, WhenStarted DEF FragmentTypeOK
<1>3. ASSUME NEW tag \in Tags, Close(tag) PROVE FragmentTypeOK'
  <2>1. /\ fragment' = Ended(fragment, tag)
        /\ sanitized' = sanitized \/ sanitized' = Ended(sanitized, tag)
        /\ skipped' = IF Ends(skipped, tag) THEN Front(skipped) ELSE skipped
        /\ diverged' = diverged
    BY <1>3 DEF Close
  <2>2. skipped' \in Seq(Tags)
    BY <1>1, <2>1, Popped DEF Ends
  <2> QED
    BY <1>1, <2>1, <2>2, WhenEnded DEF FragmentTypeOK
<1>4. ASSUME NEW tag \in Tags, OpenClose(tag) PROVE FragmentTypeOK'
  <2>1. /\ fragment' = StartEnded(fragment, tag)
        /\ sanitized' = sanitized \/ sanitized' = Started(sanitized, tag)
        /\ skipped' = skipped /\ diverged' \in BOOLEAN
    BY <1>1, <1>4 DEF OpenClose
  <2>2. fragment' \in Validators
    BY <1>1, <2>1, WhenStartEnded
  <2>3. sanitized' \in Validators
    BY <1>1, <2>1, WhenStarted
  <2> QED
    BY <1>1, <2>1, <2>2, <2>3 DEF FragmentTypeOK
<1>5. ASSUME Other PROVE FragmentTypeOK'
  <2>1. /\ fragment' = Contained(fragment)
        /\ sanitized' = sanitized \/ sanitized' = Contained(sanitized)
        /\ skipped' = skipped /\ diverged' = diverged
    BY <1>5 DEF Other
  <2> QED
    BY <1>1, <2>1, WhenContained DEF FragmentTypeOK
<1> QED
  BY <1>2, <1>3, <1>4, <1>5 DEF FragmentNext

LEMMA FragmentInvariantHolds == FragmentSpec => []FragmentInvariant
<1>1. FragmentInit => FragmentInvariant
  <2> SUFFICES ASSUME FragmentInit PROVE FragmentInvariant
    OBVIOUS
  <2>1. /\ <<>> \in Seq(Tags) /\ skipped = <<>> /\ diverged = FALSE
        /\ fragment.stack = <<>> /\ fragment.root = FALSE /\ fragment.valid = TRUE
        /\ sanitized = fragment /\ fragment \in Validators
    BY DEF FragmentInit, NewValidator, Validators
  <2>2. Counted(0, fragment.stack, skipped) /\ Output(0, fragment, sanitized, diverged)
    BY <2>1 DEF Counted, Output
  <2>3. StackIsPlain(fragment)
    BY <2>1 DEF StackIsPlain
  <2> QED
    BY <2>1, <2>2, <2>3 DEF FragmentInvariant, FragmentTypeOK, Aligned
<1>2. FragmentInvariant /\ [FragmentNext]_fragmentVars => FragmentInvariant'
  <2>1. CASE UNCHANGED fragmentVars
    BY <2>1 DEF fragmentVars, FragmentInvariant, FragmentTypeOK
  <2>2. ASSUME FragmentInvariant, FragmentNext PROVE FragmentInvariant'
    <3> SUFFICES ASSUME fragment'.valid
                 PROVE  Aligned(fragment', sanitized', skipped', diverged')
      BY <2>2, FragmentTyped DEF FragmentInvariant
    <3>1. /\ fragment \in Validators /\ sanitized \in Validators
          /\ skipped \in Seq(Tags) /\ diverged \in BOOLEAN
          /\ Aligned(fragment, sanitized, skipped, diverged)
      BY <2>2 DEF FragmentInvariant, FragmentTypeOK, FragmentNext
    <3>2. ASSUME NEW tag \in Tags, Open(tag)
          PROVE  Aligned(fragment', sanitized', skipped', diverged')
      <4>1. fragment' = Started(fragment, tag)
        BY <3>2 DEF Open
      <4>2. CASE skipped # <<>>
        <5>1. /\ sanitized' = sanitized /\ diverged' = diverged
              /\ skipped' = IF Ends(skipped, tag) THEN Append(skipped, tag) ELSE skipped
          BY <3>1, <3>2, <4>2 DEF Open
        <5> QED
          BY <3>1, <4>1, <4>2, <5>1, SkippedOpens
      <4>3. CASE skipped = <<>> /\ tag \in RemovedTags
        <5>1. /\ sanitized' = sanitized /\ skipped' = <<tag>>
              /\ diverged' = (diverged \/ tag \in VoidTags)
          BY <3>1, <3>2, <4>3 DEF Open
        <5> QED
          BY <3>1, <4>1, <4>3, <5>1, RemovedOpens
      <4>4. CASE skipped = <<>> /\ tag \notin RemovedTags
        <5>1. /\ sanitized' = Started(sanitized, tag) /\ skipped' = <<>>
              /\ diverged' = diverged
          BY <3>1, <3>2, <4>4 DEF Open
        <5> QED
          BY <3>1, <4>1, <4>4, <5>1, KeptOpens
      <4> QED
        BY <4>2, <4>3, <4>4
    <3>3. ASSUME NEW tag \in Tags, Close(tag)
          PROVE  Aligned(fragment', sanitized', skipped', diverged')
      <4>1. fragment' = Ended(fragment, tag) /\ diverged' = diverged
        BY <3>3 DEF Close
      <4>2. CASE skipped # <<>>
        <5>1. /\ sanitized' = sanitized
              /\ skipped' = IF Ends(skipped, tag) THEN Front(skipped) ELSE skipped
          BY <3>3, <4>2 DEF Close
        <5> QED
          BY <3>1, <4>1, <4>2, <5>1, SkippedCloses
      <4>3. CASE skipped = <<>>
        <5>1. tag \notin VoidTags
          BY <3>1, <4>1, PlainEnded DEF Aligned
        <5>2. sanitized' = Ended(sanitized, tag) /\ skipped' = <<>>
          BY <3>3, <4>3, <5>1 DEF Close, Ends
        <5> QED
          BY <3>1, <4>1, <4>3, <5>2, KeptCloses
      <4> QED
        BY <4>2, <4>3
    <3>4. ASSUME NEW tag \in Tags, OpenClose(tag)
          PROVE  Aligned(fragment', sanitized', skipped', diverged')
      <4>1. fragment' = StartEnded(fragment, tag) /\ skipped' = skipped
        BY <3>4 DEF OpenClose
      <4>2. CASE skipped = <<>> /\ tag \notin RemovedTags
        <5>1. sanitized' = Started(sanitized, tag) /\ diverged' = TRUE
          BY <3>4, <4>2 DEF OpenClose
        <5> QED
          BY <3>1, <4>1, <4>2, <5>1, KeptOpensAndCloses
      <4>3. CASE skipped # <<>> \/ tag \in RemovedTags
        <5>1. sanitized' = sanitized /\ diverged' = diverged
          BY <3>4, <4>3 DEF OpenClose
        <5> QED
          BY <3>1, <4>1, <4>3, <5>1, SkippedOpensAndCloses
      <4> QED
        BY <4>2, <4>3
    <3>5. ASSUME Other PROVE Aligned(fragment', sanitized', skipped', diverged')
      <4>1. fragment' = fragment /\ fragment.stack # <<>>
        BY <3>1, <3>5, WhenContained DEF Other
      <4>2. skipped' = skipped /\ diverged' = diverged
        BY <3>5 DEF Other
      <4>3. CASE sanitized' = sanitized
        BY <3>1, <4>1, <4>2, <4>3
      <4>4. CASE skipped = <<>> /\ sanitized' = Contained(sanitized)
        BY <3>1, <4>1, <4>2, <4>4, TextIsKept
      <4> QED
        BY <3>5, <4>3, <4>4 DEF Other
    <3> QED
      BY <2>2, <3>2, <3>3, <3>4, <3>5 DEF FragmentNext
  <2> QED
    BY <2>1, <2>2
<1> QED
  BY <1>1, <1>2, PTL DEF FragmentSpec

\* Whatever the tags and however deep the fragment: as long as the fragment has a
\* removed element open, the sanitizer skips (browser_artifacts.py:100-232).
THEOREM RemovedNeverWritten == FragmentSpec => []RemovedStaysOut
<1>1. FragmentInvariant => RemovedStaysOut
  <2> SUFFICES ASSUME FragmentInvariant, fragment.valid, skipped = <<>>,
                      NEW i \in DOMAIN fragment.stack
               PROVE  fragment.stack[i] \notin RemovedTags
    BY DEF RemovedStaysOut
  <2>1. /\ fragment \in Validators /\ sanitized \in Validators /\ diverged \in BOOLEAN
        /\ Aligned(fragment, sanitized, <<>>, diverged)
    BY DEF FragmentInvariant, FragmentTypeOK
  <2>2. Counted(Len(fragment.stack), fragment.stack, <<>>)
    BY <2>1, NothingSkipped
  <2>3. i \in 1..Len(fragment.stack)
    BY <2>1 DEF Validators
  <2> QED
    BY <2>2, <2>3 DEF Counted
<1> QED
  BY <1>1, FragmentInvariantHolds, PTL

\* What is written of an accepted fragment is a single table exactly if the
\* sanitizer took every tag as the validator did (browser_artifacts.py:100-232).
THEOREM TablesStaySingle == FragmentSpec => []TableIsKept
<1>1. FragmentInvariant => TableIsKept
  <2> SUFFICES ASSUME FragmentInvariant, Accepted(fragment)
               PROVE  Accepted(sanitized) <=> ~diverged
    BY DEF TableIsKept
  <2>1. /\ fragment.valid /\ fragment.root /\ fragment.stack = <<>>
        /\ sanitized.stack \in Seq(Tags)
        /\ Aligned(fragment, sanitized, skipped, diverged)
    BY DEF FragmentInvariant, FragmentTypeOK, Validators, Accepted
  <2>2. CASE EndlessSkip(sanitized, skipped, diverged)
    BY <2>2 DEF EndlessSkip, Accepted
  <2>3. CASE \E k \in Nat : /\ Counted(k, fragment.stack, skipped)
                            /\ Output(k, fragment, sanitized, diverged)
    <3>1. PICK k \in Nat : /\ Counted(k, fragment.stack, skipped)
                           /\ Output(k, fragment, sanitized, diverged)
      BY <2>3
    <3>2. k = 0
      BY <2>1, <3>1 DEF Counted
    <3>3. sanitized.stack = <<>> <=> Len(sanitized.stack) = 0
      BY <2>1
    <3>4. ASSUME diverged PROVE ~Accepted(sanitized)
      BY <3>1, <3>2, <3>3, <3>4 DEF Output, Accepted
    <3>5. ASSUME ~diverged PROVE Accepted(sanitized)
      BY <2>1, <3>1, <3>2, <3>3, <3>5 DEF Output, Accepted
    <3> QED
      BY <3>4, <3>5
  <2> QED
    BY <2>1, <2>2, <2>3 DEF Aligned
<1> QED
  BY <1>1, FragmentInvariantHolds, PTL

\* Until they diverge, the output is open exactly where the fragment is, down to
\* the first removed element (browser_artifacts.py:100-232).
THEOREM OutputIsTheKeptPart == FragmentSpec => []OutputFollowsFragment
<1>1. FragmentInvariant => OutputFollowsFragment
  <2> SUFFICES ASSUME FragmentInvariant, fragment.valid, ~diverged
               PROVE  OutputFollowsFragment
    BY DEF OutputFollowsFragment
  <2>1. PICK k \in Nat : /\ Counted(k, fragment.stack, skipped)
                         /\ Output(k, fragment, sanitized, diverged)
    BY DEF FragmentInvariant, Aligned, EndlessSkip
  <2>2. /\ fragment.stack \in Seq(Tags) /\ sanitized.stack \in Seq(Tags)
        /\ Len(fragment.stack) \in Nat /\ k <= Len(fragment.stack)
    BY <2>1 DEF FragmentInvariant, FragmentTypeOK, Validators, Counted
  <2> DEFINE K == {n \in 0..Len(fragment.stack) :
                        \A i \in 1..n : fragment.stack[i] \notin RemovedTags}
  <2>3. k \in K
    BY <2>1, <2>2 DEF Counted
  <2>4. ASSUME NEW n \in K PROVE n <= k
    <3> SUFFICES ASSUME n > k PROVE FALSE
      BY <2>2
    <3>1. k + 1 \in 1..n /\ k # Len(fragment.stack)
      BY <2>2
    <3> QED
      BY <2>1, <3>1 DEF Counted
  <2>5. k = CHOOSE n \in K : \A m \in K : m <= n
    <3>1. K \subseteq Nat
      BY <2>2
    <3> HIDE DEF K
    <3> DEFINE most == CHOOSE n \in K : \A m \in K : m <= n
    <3>2. most \in K /\ \A m \in K : m <= most
      BY <2>3, <2>4
    <3> HIDE DEF most
    <3>3. k = most
      BY <2>2, <2>3, <2>4, <3>1, <3>2
    <3> QED
      BY <3>3 DEF most
  <2>6. sanitized.stack = SubSeq(fragment.stack, 1, k)
    <3> DEFINE part == SubSeq(fragment.stack, 1, k)
    <3>1. part \in Seq(Tags) /\ Len(part) = k /\ \A i \in 1..k : part[i] = fragment.stack[i]
      <4>1. \A i \in 1..k : i \in 1..Len(fragment.stack) /\ fragment.stack[i] \in Tags
        BY <2>2
      <4>2. part = [i \in 1..k |-> fragment.stack[i]]
        BY <2>2
      <4> QED
        BY <2>2, <4>1, <4>2
    <3> HIDE DEF part
    <3>2. Len(sanitized.stack) = k /\ \A i \in 1..k : sanitized.stack[i] = fragment.stack[i]
      BY <2>1 DEF Output
    <3>3. sanitized.stack = part
      BY <2>2, <3>1, <3>2, SameSequences
    <3> QED
      BY <3>3 DEF part
  <2> QED
    BY <2>5, <2>6 DEF OutputFollowsFragment
<1> QED
  BY <1>1, FragmentInvariantHolds, PTL
=============================================================================
