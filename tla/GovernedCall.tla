---------------------------- MODULE GovernedCall ----------------------------
(***************************************************************************)
(* What one command line of apcore-cli promises about the module it names: *)
(* the module starts only when it is permitted, and what is reported is    *)
(* what happened. A rehearsal (dry run, validate) starts nothing.          *)
(***************************************************************************)

VARIABLES
  rehearsal,  \* the command line only asks what would happen
  detached,   \* the module may get a process of its own
  permitted,  \* access is granted and whoever must approve has approved
  effect,     \* the module: "none", "started", "done"
  report      \* what the caller learns: "pending", "success", "failure"

vars == <<rehearsal, detached, permitted, effect, report>>

Init ==
  /\ rehearsal \in BOOLEAN /\ detached \in BOOLEAN /\ permitted \in BOOLEAN
  /\ effect = "none" /\ report = "pending"

Permit ==
  /\ effect = "none" /\ report = "pending"
  /\ permitted' = TRUE
  /\ UNCHANGED <<rehearsal, detached, effect, report>>

(* Giving up on a module does not hold it back in its own process.         *)
Begin ==
  /\ permitted /\ ~rehearsal
  /\ effect = "none"
  /\ report = "pending" \/ (detached /\ report = "failure")
  /\ effect' = "started"
  /\ UNCHANGED <<rehearsal, detached, permitted, report>>

Finish ==
  /\ effect = "started" /\ report = "pending"
  /\ effect' = "done"
  /\ UNCHANGED <<rehearsal, detached, permitted, report>>

Report ==
  /\ report = "pending"
  /\ \/ report' = "failure"
     \/ report' = "success" /\ (effect = "done" \/ rehearsal)
  /\ UNCHANGED <<rehearsal, detached, permitted, effect>>

Next == Permit \/ Begin \/ Finish \/ Report

Spec == Init /\ [][Next]_vars
=============================================================================
