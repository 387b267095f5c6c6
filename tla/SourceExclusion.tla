--------------------------- MODULE SourceExclusion ---------------------------
(***************************************************************************)
(* What run_with_source_lease promises its callers, without Redis, leases, *)
(* threads or time: every run executes its operation at most once, and the *)
(* operations of one source never overlap.                                 *)
(***************************************************************************)
CONSTANTS Sources, Runs, SourceOf

VARIABLE phase   \* of a run: before, in or past its operation

Init == phase = [r \in Runs |-> "waiting"]

\* An operation starts only when no other one of its source is running.
Start(r) ==
  /\ phase[r] = "waiting"
  /\ \A q \in Runs : SourceOf[q] = SourceOf[r] => phase[q] # "running"
  /\ phase' = [phase EXCEPT ![r] = "running"]

\* It returns, raises, is skipped or dies; it never runs again.
End(r) ==
  /\ phase[r] \in {"waiting", "running"}
  /\ phase' = [phase EXCEPT ![r] = "over"]

Next == \E r \in Runs : Start(r) \/ End(r)

Spec == Init /\ [][Next]_phase
=============================================================================
