------------------------------ MODULE MCBulkJob ------------------------------
(* TLC instances of BulkJob. *)
EXTENDS BulkJob, TLC

CONSTANTS t1, t2, t3, y1, none, m1, m2, s1, s2

\* t1 and t2 sanitize to one model name (a.b_c and a_b.c); y1 is not green.
MCModelOf == [t \in Tables |-> IF t \in {t1, t2} THEN m1 ELSE m2]
MCQueue == [t \in Tables |-> IF t = y1 THEN "yellow" ELSE "green"]

List(a, b) == [s \in Slots |-> IF s = s1 THEN a ELSE b]

MCSingleRequests == {List(t1, t1), List(t1, t3), List(t3, y1)}
MCLiveRequests == {List(t1, t3)}
MCEmptyRequests == {List(y1, none), List(t3, none)}
MCPairRequests == {List(t1, none), List(t2, y1)}

\* The two jobs of BulkPair differ only in their names.
MCJobSymmetry == Permutations(Jobs)

=============================================================================
