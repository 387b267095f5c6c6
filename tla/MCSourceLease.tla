---------------------------- MODULE MCSourceLease ----------------------------
(* Instances of SourceLease for TLC: the runs compete for one source.       *)
EXTENDS SourceLease, TLC

CONSTANTS s1, r1, r2, r3

SameSource == [r \in Runs |-> s1]

OperationOnly == {"operate"}
\* The points the try statement or the lease command itself covers.
GuardedPoints == {"acquire", "skip", "operate", "recordOk", "except",
                  "recordFail", "join", "release"}

SymmetricRuns == Permutations(Runs)
=============================================================================
