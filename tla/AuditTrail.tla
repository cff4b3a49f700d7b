----------------------------- MODULE AuditTrail -----------------------------
(***************************************************************************)
(* What the audit log promises about one call: decisions of the ACL first, *)
(* none after a denial, then at most one record of the run. A run is no    *)
(* success after a denial, and where the CLI's ACL governs the call and    *)
(* allowing decisions are kept, a success takes one.                       *)
(***************************************************************************)

VARIABLES
  governed,  \* an ACL that the CLI attached judges the call, fixed
  kept,      \* the decisions that are kept, fixed
  decided,   \* the decisions about the call on record
  outcome    \* its run on record: "none", "success", "error"

vars == <<governed, kept, decided, outcome>>

Verdicts == {"allow", "deny"}

Init ==
  /\ governed \in BOOLEAN /\ kept \in SUBSET Verdicts
  /\ decided = {} /\ outcome = "none"

Decide(verdict) ==
  /\ outcome = "none" /\ "deny" \notin decided
  /\ governed /\ verdict \in kept
  /\ decided' = decided \cup {verdict}
  /\ UNCHANGED <<governed, kept, outcome>>

Record(status) ==
  /\ outcome = "none"
  /\ status = "success" =>
       /\ "deny" \notin decided
       /\ governed /\ "allow" \in kept => "allow" \in decided
  /\ outcome' = status
  /\ UNCHANGED <<governed, kept, decided>>

Next ==
  \/ \E verdict \in Verdicts : Decide(verdict)
  \/ \E status \in {"success", "error"} : Record(status)

Spec == Init /\ [][Next]_vars
=============================================================================
