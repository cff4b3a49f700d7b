----------------------------- MODULE MCAuditLog -----------------------------
(* TLC instance of AuditLog: two processes; one setting that records in    *)
(* spite of a typing error and of a no in the file, but not the denials,   *)
(* one that records them all, and one that records no decision: there the  *)
(* log is shortest and three breaks may meet.                              *)
EXTENDS AuditLog, TLC

CONSTANTS p1, p2, m1, m2

From(e, f) == [env |-> e, file |-> f]

MCSettings ==
  {[enabled |-> From("typo", "no"), include_denied |-> From("no", "yes")],
   [enabled |-> From(Absent, "yes"), include_denied |-> From("typo", "no")],
   [enabled |-> From(Absent, "no"), include_denied |-> From("yes", Absent)]}

MCBreaks == [s \in MCSettings |-> IF AuditFlag(s.enabled) THEN 1 ELSE 3]

Symmetry == Permutations({p1, p2}) \cup Permutations({m1, m2})
=============================================================================
