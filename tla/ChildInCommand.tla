--------------------------- MODULE ChildInCommand ---------------------------
(***************************************************************************)
(* Sandbox as the part of Invocation it details: seen from the command     *)
(* that awaits the promise, a child is on its way, may start the module,   *)
(* and answers with a value or an error, or the command is killed first.   *)
(***************************************************************************)
EXTENDS Sandbox

(* A module command with --sandbox, past its gates. No ACL, no strategy:   *)
(* they have been asked before the child is spawned.                       *)
Parent ==
  [ command |-> "module", approve |-> "ask", tty |-> FALSE, sandbox |-> TRUE,
    dryRun |-> FALSE, trace |-> FALSE, stream |-> "no", strategy |-> "none",
    identity |-> "nobody", canTrace |-> TRUE, canValidate |-> TRUE,
    acl |-> "none", declares |-> "nothing" ]

(* The answer, if there is one, is the last the command learns of a child. *)
Place ==
  IF outcome = "value" THEN "print"
  ELSE IF outcome # "pending" THEN "failing"
  ELSE IF up THEN "child" ELSE "killed"

Command == INSTANCE Invocation WITH
  Strategies <- {}, Bypassing <- {}, NoStrategy <- "none",
  Identities <- {}, Nobody <- "nobody", Rules <- {}, NoAcl <- "none",
  call <- Parent, pc <- Place, route <- "child",
  err <- IF outcome \in Failures THEN "error" ELSE "none",
  ran <- IF ran THEN "child" ELSE "no",
  ended <- outcome = "value",
  aclAsks <- FALSE, consent <- {}, banner <- FALSE, decisions <- <<>>,
  records <- <<>>, exit <- -1

(* Whatever parent and child do in whatever order, the command sees what   *)
(* Invocation takes for granted: one answer, a value only of a child that  *)
(* came to the code of the extensions, and nothing of it afterwards,       *)
(* except that a child on its way may still start that code.               *)
ImplementsChild == []Command!TypeOK /\ [][Command!Next]_(Command!vars)
=============================================================================
