---------------------------- MODULE MCTaskDelivery ----------------------------
(* Instances of TaskDelivery for TLC: one source. *)
EXTENDS TaskDelivery, TLC

CONSTANTS s1, r1, r2, m1, m2

SameSource == [r \in Runs |-> s1]
SameQueue == [m \in Messages |-> s1]
OperationOnly == {"operate"}
AnyPoint == ControlPoints
Interchangeable == Permutations(Messages)
=============================================================================
