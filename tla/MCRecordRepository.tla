-------------------------- MODULE MCRecordRepository --------------------------
(* Instances of RecordRepository for TLC. *)
EXTENDS RecordRepository, TLC

CONSTANTS a, b, h1, h2, t1, t2, t3

Of(i, h) == [id |-> i, hash |-> h]

\* Empty and overlapping collections; one gives an id two contents.
Responses == {<<>>, <<Of(a, h2), Of(a, h1)>>, <<Of(b, h1), Of(a, h2)>>}

=============================================================================
