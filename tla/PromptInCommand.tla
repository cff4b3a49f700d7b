--------------------------- MODULE PromptInCommand --------------------------
(***************************************************************************)
(* ApprovalPrompt as the part of Invocation it details: seen from the      *)
(* command that awaits checkApproval, or from the pipeline that awaits the *)
(* handler, the gate lets the call pass, refuses it, or is killed.         *)
(***************************************************************************)
EXTENDS ApprovalPrompt

CONSTANT NoAcl   \* no ACL is configured

RulesHere == [{"nobody"} -> {"allow", "ask", "deny"}]

ASSUME NoAclAssumption == NoAcl \notin [held : BOOLEAN, rule : RulesHere]

ByHandler == call.entry = "handler"

(* The command line that leads to this pass through the gate. What the ACL *)
(* requires it requires of a sandboxed call; the terminal does not matter  *)
(* to a call that skips the question.                                      *)
Surroundings ==
  [ command |-> CASE call.entry = "exec"   -> "exec"
                  [] call.entry = "system" -> "mutate"
                  [] OTHER                 -> "module",
    approve |-> IF call.autoEnv = "one" THEN "env" ELSE IF call.yes THEN "yes" ELSE "ask",
    tty |-> call.tty \/ Bypassed(call), sandbox |-> call.acl,
    dryRun |-> FALSE, trace |-> FALSE, stream |-> "no", strategy |-> "none",
    identity |-> "nobody", canTrace |-> TRUE, canValidate |-> TRUE,
    acl |-> IF call.acl THEN [held |-> TRUE, rule |-> [who \in {"nobody"} |-> "ask"]]
            ELSE NoAcl,
    declares |-> IF ByHandler THEN IF call.free THEN "nothing" ELSE "annotation"
                 ELSE IF call.field = "yes" THEN "field"
                 ELSE IF call.field = "no" THEN "waived"
                 ELSE IF call.annotation THEN "annotation" ELSE "nothing" ]

Place ==
  CASE phase \in {"gate", "asking"} -> IF ByHandler THEN "approval" ELSE "gate"
    [] phase = "granted"            -> IF ByHandler THEN "running" ELSE "route"
    [] phase = "killed"             -> "killed"
    [] OTHER                        -> "failing"

Command == INSTANCE Invocation WITH
  Strategies <- {}, Bypassing <- {}, NoStrategy <- "none",
  Identities <- {}, Nobody <- "nobody",
  Rules <- RulesHere, NoAcl <- NoAcl,
  call <- Surroundings, pc <- Place,
  err <- IF phase \in {"denied", "timedOut"} THEN "approval" ELSE "none",
  consent <- IF phase = "granted" /\ typed = "yes"
               THEN {IF ByHandler THEN "handler" ELSE "gate"} ELSE {},
  route <- IF ByHandler THEN "direct" ELSE "none",
  aclAsks <- call.acl, ran <- "no", ended <- FALSE, banner <- FALSE,
  decisions <- IF call.acl THEN <<"allow">> ELSE <<>>,
  records <- <<>>, exit <- -1

(* Whatever the line, the timer, the closing terminal and Ctrl-C do in     *)
(* whatever order, the command sees what Invocation takes for granted: the *)
(* gate passes the exempt and those a human said yes to at a terminal,     *)
(* refuses others, or the process dies; and it does so once.               *)
ImplementsGate == []Command!TypeOK /\ [][Command!Next]_(Command!vars)
=============================================================================
