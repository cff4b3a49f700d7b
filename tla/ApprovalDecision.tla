-------------------------- MODULE ApprovalDecision --------------------------
(***************************************************************************)
(* What one pass through the approval gate promises, with the terminal,    *)
(* the timer and the flags abstracted away: a call is granted only when it *)
(* was exempt from the start (no approval required, or an explicit bypass) *)
(* or a human consented, and a decision once taken is never revised.       *)
(***************************************************************************)

VARIABLES exempt,    \* the call needs no human: not required, or bypassed
          consent,   \* a human has said yes
          decision   \* "pending", "granted" or "refused"

vars == <<exempt, consent, decision>>

Init ==
  /\ exempt \in BOOLEAN
  /\ consent = FALSE
  /\ decision = "pending"

(* A human can only consent while the question is still open.              *)
Consent ==
  /\ decision = "pending"
  /\ ~exempt
  /\ consent' = TRUE
  /\ UNCHANGED <<exempt, decision>>

Grant ==
  /\ decision = "pending"
  /\ exempt \/ consent
  /\ decision' = "granted"
  /\ UNCHANGED <<exempt, consent>>

(* A refusal is possible even after a consent: the answer may arrive after *)
(* the deadline has been acted upon. An exempt call is never refused.      *)
Refuse ==
  /\ decision = "pending"
  /\ ~exempt
  /\ decision' = "refused"
  /\ UNCHANGED <<exempt, consent>>

Next == Consent \/ Grant \/ Refuse

(* The question may stay open for as long as the human likes, but the gate *)
(* itself must eventually decide.                                          *)
Spec == Init /\ [][Next]_vars /\ WF_vars(Grant \/ Refuse)
=============================================================================
