----------------------------- MODULE Invocation -----------------------------
(***************************************************************************)
(* One command line of apcore-cli that names a module: a module command    *)
(* (main.ts), `apcli exec` and `apcli validate` (discovery.ts), a system   *)
(* command that changes something ("mutate") or only looks ("inspect",     *)
(* system-cmd.ts). It composes the approval gate, the ACL, the execution   *)
(* routes (stream, trace, strategy, sandboxed child, direct call) and the  *)
(* audit log.                                                              *)
(*                                                                         *)
(* ApprovalPrompt details the gate and Sandbox the child; here a prompt    *)
(* and a child simply answer, in any way those modules allow. The executor *)
(* is the library apcore-js: its pipeline is modelled from PRESET_STEPS    *)
(* and from how the commands call it.                                      *)
(***************************************************************************)
EXTENDS Integers, Sequences

CONSTANTS
  Strategies, Bypassing,  \* the strategies; those without acl_check
  NoStrategy,             \* no --strategy and no APCORE_CLI_STRATEGY
  Identities, Nobody,     \* what --identity-id and its kin assert; nothing
  Rules,                  \* ACLs: what each caller gets
  NoAcl                   \* no ACL is configured

Callers == Identities \cup {Nobody}
Accesses == {"allow", "ask", "deny"}

ASSUME InvocationAssumption ==
  /\ Bypassing \subseteq Strategies /\ NoStrategy \notin Strategies
  /\ Nobody \notin Identities
  /\ Rules \subseteq [Callers -> Accesses]
  /\ NoAcl \notin [held : BOOLEAN, rule : Rules]

(* The command line, and what it meets.                                    *)
(*   approve : how prompts are to be skipped: --yes, or AUTO_APPROVE=1     *)
(*   stream  : --stream, and whether module and executor can serve it      *)
(*   can...  : the optional methods of the executor                        *)
(*   acl     : the executor's ACL; `held` when the CLI attached it itself, *)
(*             not when the host's executor brought it along               *)
(*   declares: the module's requiresApproval field and annotation: the     *)
(*             field, when present, decides alone in the CLI               *)
(* Mutate and inspect are the system commands that go to the executor; all *)
(* do but config get, which only reads the configuration and is left out.  *)
Commands == {"module", "exec", "validate", "mutate", "inspect"}
Calls ==
  { c \in [ command : Commands, approve : {"ask", "yes", "env"}, tty : BOOLEAN,
            sandbox : BOOLEAN, dryRun : BOOLEAN, trace : BOOLEAN,
            stream : {"no", "unserved", "served"},
            strategy : Strategies \cup {NoStrategy}, identity : Callers,
            canTrace : BOOLEAN, canValidate : BOOLEAN,
            acl : [held : BOOLEAN, rule : Rules] \cup {NoAcl},
            declares : {"nothing", "annotation", "waived", "field"} ] :
      /\ c.command \notin {"module", "exec"} =>
           /\ ~c.sandbox /\ ~c.dryRun /\ ~c.trace /\ c.strategy = NoStrategy
           /\ (c.declares = "nothing" \/ (c.command = "mutate" /\ c.declares = "annotation"))
      /\ c.command # "module" => c.stream = "no"
      /\ c.command \in {"validate", "inspect"} => c.approve # "yes"
      \* What makes no difference is left out.
      /\ c.approve = "env" => c.tty
      /\ c.dryRun => ~c.trace /\ c.stream = "no" /\ c.strategy = NoStrategy
      /\ ~c.canTrace => c.trace \/ c.strategy # NoStrategy
      /\ ~c.canValidate => c.dryRun \/ c.command = "validate"
      /\ c.acl = NoAcl => c.identity = Nobody }

VARIABLES
  call,       \* the command line and its surroundings, fixed
  pc,         \* where the command is
  err,        \* the error on its way to the catch block
  aclAsks,    \* aclRequiresApproval
  consent,    \* prompts a human said yes to: {"gate", "handler"}
  route,      \* how the module is run
  ran,        \* where the module has started: "no", "parent", "child"
  ended,      \* the module has returned
  banner,     \* the bypass of the ACL has been announced
  decisions,  \* decisions about this call of an ACL the CLI attached, as its
              \* audit callback hears of them
  records,    \* execution records appended to the audit log
  exit        \* the exit code, -1 before

vars == <<call, pc, err, aclAsks, consent, route, ran, ended, banner,
          decisions, records, exit>>

Steps == {"parse", "preflight", "schema", "access", "gate", "route", "acl",
          "approval", "running", "child", "print", "record", "failing",
          "exited", "killed"}
Routes == {"none", "stream", "trace", "strategy", "child", "direct"}
Errors == {"none", "acl", "approval", "schema", "error"}
ExitCodes == {0, 1, 2, 44, 45, 46, 77}
Records == [status : {"success", "error"}, code : ExitCodes]

-----------------------------------------------------------------------------
(* The rules.                                                              *)

(* Required by the module itself, as checkApproval sees it: a system       *)
(* command brings a synthetic descriptor that always is.                   *)
ModuleRequires(c) == c.command = "mutate" \/ c.declares \in {"annotation", "field"}

(* Required by the module itself, as the executor sees it.                 *)
Annotated(c) == c.declares \in {"annotation", "waived"}

SkipsGate(c) == c.approve \in {"yes", "env"}

(* The handler the CLI wires to the executor was built without --yes.      *)
SkipsHandler(c) == c.approve = "env"

(* What the executor's ACL gives a caller.                                 *)
Access(c, who) == IF c.acl = NoAcl THEN "allow" ELSE c.acl.rule[who]

(* The ACL is one the CLI attached: loaded, with its callback for the audit*)
(* log, as it is here, or an object of the host's, which the CLI enforces  *)
(* alike but which has no such callback. The decisions below are those of  *)
(* the former, and with acl.audit.enabled as it is by default.             *)
Held(c) == c.acl # NoAcl /\ c.acl.held

(* Variant with a bug: without an identity no context and no decision.     *)
DelegatedAccessIdentified(c) ==
  IF c.acl # NoAcl /\ c.identity # Nobody THEN Access(c, c.identity) ELSE "allow"

(* assertDelegatedAccess: only an ACL the CLI attached is consulted, always*)
(* with the asserted identity.                                             *)
DelegatedAccess(c) ==
  IF Held(c) THEN Access(c, c.identity) ELSE "allow"

(* callWithTrace alone takes a strategy; otherwise the executor's own runs.*)
Gated(c, r) == ~(r \in {"trace", "strategy"} /\ c.strategy \in Bypassing)

(* exitCodeForError                                                        *)
ExitCode(e) ==
  CASE e = "acl" -> 77 [] e = "approval" -> 46 [] e = "schema" -> 45
    [] OTHER -> 1

(* Enable, disable, reload, config set, health and usage write no record.  *)
Audited(c) == c.command \in {"module", "exec", "validate"}

-----------------------------------------------------------------------------
Init ==
  /\ call \in Calls
  /\ pc = "parse" /\ err = "none" /\ aclAsks = FALSE /\ consent = {}
  /\ route = "none" /\ ran = "no" /\ ended = FALSE
  /\ banner = FALSE /\ decisions = <<>> /\ records = <<>> /\ exit = -1

Goto(p) == pc' = p /\ UNCHANGED <<err, exit>>
Throw(e) == pc' = "failing" /\ err' = e /\ UNCHANGED exit
Exit(code) == pc' = "exited" /\ exit' = code /\ UNCHANGED err

(* createAclAuditCallback hears of every decision of the attached ACL; that*)
(* a human is to be asked is a decision to allow.                          *)
Decide(judged, access) ==
  decisions' =
    IF judged THEN Append(decisions, IF access = "deny" THEN "deny" ELSE "allow")
    ELSE decisions

-----------------------------------------------------------------------------
(* Before the gates.                                                       *)

(* The module id, its lookup and the input are in order.                   *)
ParseInput ==
  /\ pc = "parse"
  /\ \/ call.command = "module" /\ ~call.dryRun /\ Goto("schema")
     \/ call.command = "module" /\ call.dryRun /\ Goto("preflight")
     \/ call.command = "validate" /\ Goto("preflight")
     \/ call.command = "exec" /\ Goto("access")
     \/ call.command = "mutate" /\ Goto("gate")
     \/ call.command = "inspect" /\ Goto("route")
  /\ UNCHANGED <<call, aclAsks, consent, route, ran, ended, banner,
                 decisions, records>>

(* They are not: process.exit, past the catch block. A stdin that cannot be*)
(* read throws instead, which only the module command catches.             *)
RejectInput ==
  /\ pc = "parse" /\ call.command \in {"module", "exec", "validate"}
  /\ \/ Exit(2)
     \/ call.command # "module" /\ (Exit(44) \/ Exit(1))
     \/ call.command = "module" /\ Throw("error")
  /\ UNCHANGED <<call, aclAsks, consent, route, ran, ended, banner,
                 decisions, records>>

(* executor.validate gets the caller's context. Whether the library's      *)
(* preflight puts the question to the ACL is its own affair.               *)
PreflightDecides ==
  \E judged \in BOOLEAN :
    Decide(judged /\ Held(call) /\ call.canValidate, Access(call, call.identity))

(* --dry-run and validate: the exit code tells the preflight's result.     *)
Preflight ==
  /\ pc = "preflight" /\ call.command # "exec"
  /\ \/ ~call.canValidate /\ Exit(1)
     \/ call.canValidate /\ \E code \in ExitCodes : Exit(code)
     \/ call.canValidate /\ Throw("error")
  /\ PreflightDecides
  /\ UNCHANGED <<call, aclAsks, consent, route, ran, ended, banner, records>>

(* exec --dry-run prints the result, or {valid: true}, and returns.        *)
ExecPreflight ==
  /\ pc = "preflight" /\ call.command = "exec"
  /\ \/ Exit(0)
     \/ call.canValidate /\ Throw("error")
  /\ PreflightDecides
  /\ UNCHANGED <<call, aclAsks, consent, route, ran, ended, banner, records>>

(* validateInputSchema: only a module command checks the input itself.     *)
ValidateSchema ==
  /\ pc = "schema"
  /\ Goto("access") \/ Throw("schema")
  /\ UNCHANGED <<call, aclAsks, consent, route, ran, ended, banner,
                 decisions, records>>

-----------------------------------------------------------------------------
(* The CLI's own gates.                                                    *)

(* Variant with a bug: the decision is left to Sandbox.execute.            *)
CheckAccessLater ==
  /\ pc = "access"
  /\ Goto("gate")
  /\ UNCHANGED <<call, aclAsks, consent, route, ran, ended, banner,
                 decisions, records>>

(* With --sandbox the parent asks its ACL before the approval gate.        *)
CheckAccess ==
  /\ pc = "access"
  /\ IF call.sandbox /\ DelegatedAccess(call) = "deny"
       THEN Throw("acl") /\ UNCHANGED aclAsks
       ELSE /\ Goto("gate")
            /\ aclAsks' = (call.sandbox /\ DelegatedAccess(call) = "ask")
  /\ Decide(call.sandbox /\ Held(call), DelegatedAccess(call))
  /\ UNCHANGED <<call, consent, route, ran, ended, banner, records>>

AfterGate == IF call.dryRun THEN "preflight" ELSE "route"

(* checkApproval, with the union of the module's and the ACL's requirement.*)
GatePasses ==
  /\ pc = "gate"
  /\ ~(ModuleRequires(call) \/ aclAsks) \/ SkipsGate(call)
  /\ Goto(AfterGate)
  /\ UNCHANGED <<call, aclAsks, consent, route, ran, ended, banner,
                 decisions, records>>

(* Variant with a bug: the gate fails open when the time runs out.         *)
GateAsksFailsOpen ==
  /\ pc = "gate"
  /\ ModuleRequires(call) \/ aclAsks
  /\ ~SkipsGate(call)
  /\ \/ call.tty /\ Goto(AfterGate) /\ consent' = consent \cup {"gate"}
     \/ call.tty /\ Goto(AfterGate) /\ UNCHANGED consent
     \/ Throw("approval") /\ UNCHANGED consent
  /\ UNCHANGED <<call, aclAsks, route, ran, ended, banner, decisions, records>>

(* A human is asked and says yes, says no or lets the time run out; without*)
(* a terminal nobody is asked.                                             *)
GateAsks ==
  /\ pc = "gate"
  /\ ModuleRequires(call) \/ aclAsks
  /\ ~SkipsGate(call)
  /\ \/ call.tty /\ Goto(AfterGate) /\ consent' = consent \cup {"gate"}
     \/ Throw("approval") /\ UNCHANGED consent
  /\ UNCHANGED <<call, aclAsks, route, ran, ended, banner, decisions, records>>

-----------------------------------------------------------------------------
(* Running the module.                                                     *)

(* The first alternative that applies wins: --sandbox comes last.          *)
RouteOf(c) ==
  IF c.command \in {"mutate", "inspect"} THEN "direct"
  ELSE IF c.stream = "served" THEN "stream"
  ELSE IF c.command = "module" /\ c.trace /\ c.canTrace THEN "trace"
  ELSE IF (c.trace \/ c.strategy # NoStrategy) /\ c.canTrace THEN "strategy"
  ELSE IF c.sandbox THEN "child"
  ELSE "direct"

(* The caller the executor's pipeline sees: only Sandbox.execute is given  *)
(* buildCliContext(); stream, callWithTrace and callSystemModule are not.  *)
Presented(c, r) ==
  IF r = "direct" /\ c.command \in {"module", "exec"} THEN c.identity ELSE Nobody

(* warnStrategyBypassesAcl                                                 *)
Warns(c) == Held(c) /\ c.strategy \in Bypassing

(* Variant with a bug: exec announces nothing, the call is yet to come.    *)
TakeRouteQuietly ==
  /\ pc = "route"
  /\ route' = RouteOf(call)
  /\ \/ route' # "child" /\ Goto("acl")
     \/ route' = "child" /\ DelegatedAccess(call) = "deny" /\ Throw("acl")
     \/ route' = "child" /\ DelegatedAccess(call) # "deny" /\ Goto("child")
  /\ Decide(route' = "child" /\ Held(call), DelegatedAccess(call))
  /\ UNCHANGED <<call, aclAsks, consent, ran, ended, banner, records>>

(* exec announces the bypass before the call. Sandbox.execute asks the     *)
(* CLI's ACL again before it spawns the child.                             *)
TakeRoute ==
  /\ pc = "route"
  /\ route' = RouteOf(call)
  /\ banner' = (call.command = "exec" /\ route' = "strategy" /\ Warns(call))
  /\ \/ route' # "child" /\ Goto("acl")
     \/ route' = "child" /\ DelegatedAccess(call) = "deny" /\ Throw("acl")
     \/ route' = "child" /\ DelegatedAccess(call) # "deny" /\ Goto("child")
  /\ Decide(route' = "child" /\ Held(call), DelegatedAccess(call))
  /\ UNCHANGED <<call, aclAsks, consent, ran, ended, records>>

(* The module starts in the child: perhaps only after the timeout has      *)
(* answered for it or this process has ended, for a child on its way is    *)
(* not held back. Whoever is refused by the ACL never gets a child.        *)
ChildStarts ==
  /\ route = "child" /\ err # "acl" /\ ran = "no"
  /\ ran' = "child"
  /\ UNCHANGED <<call, pc, err, aclAsks, consent, route, ended, banner,
                 decisions, records, exit>>

(* Variant with a bug: only a value settles the promise.                   *)
ChildAnswersValues ==
  /\ pc = "child" /\ ran = "child" /\ Goto("print") /\ ended' = TRUE
  /\ UNCHANGED <<call, aclAsks, consent, route, ran, banner, decisions, records>>

(* A value, which takes a module that ran to its end, or a rejection.      *)
ChildAnswers ==
  /\ pc = "child"
  /\ \/ ran = "child" /\ Goto("print") /\ ended' = TRUE
     \/ Throw("error") /\ UNCHANGED ended
  /\ UNCHANGED <<call, aclAsks, consent, route, ran, banner, decisions, records>>

(* Variant with a bug: the executor gets an ACL without the audit callback.*)
AclStepUnlogged ==
  /\ pc = "acl"
  /\ IF Gated(call, route) /\ Access(call, Presented(call, route)) = "deny"
       THEN Throw("acl") ELSE Goto("approval")
  /\ UNCHANGED <<call, aclAsks, consent, route, ran, ended, banner,
                 decisions, records>>

(* The executor's acl_check.                                               *)
AclStep ==
  /\ pc = "acl"
  /\ IF Gated(call, route) /\ Access(call, Presented(call, route)) = "deny"
       THEN Throw("acl") ELSE Goto("approval")
  /\ Decide(Held(call) /\ Gated(call, route), Access(call, Presented(call, route)))
  /\ UNCHANGED <<call, aclAsks, consent, route, ran, ended, banner, records>>

HandlerAsked(c, r) ==
  Gated(c, r) /\ (Annotated(c) \/ Access(c, Presented(c, r)) = "ask")

(* The executor's approval_gate, put to the handler the CLI wired: it      *)
(* asks at a terminal and rejects without one.                             *)
ApprovalStep ==
  /\ pc = "approval"
  /\ IF ~HandlerAsked(call, route) \/ SkipsHandler(call)
       THEN Goto("running") /\ UNCHANGED consent
       ELSE \/ call.tty /\ Goto("running") /\ consent' = consent \cup {"handler"}
            \/ Throw("approval") /\ UNCHANGED consent
  /\ UNCHANGED <<call, aclAsks, route, ran, ended, banner, decisions, records>>

(* Every other step of the pipeline may fail before the module is reached. *)
PipelineFails ==
  /\ pc \in {"acl", "approval"}
  /\ Throw("error") \/ Throw("schema")
  /\ UNCHANGED <<call, aclAsks, consent, route, ran, ended, banner,
                 decisions, records>>

ModuleStarts ==
  /\ pc = "running" /\ ran = "no"
  /\ ran' = "parent"
  /\ UNCHANGED <<call, pc, err, aclAsks, consent, route, ended, banner,
                 decisions, records, exit>>

(* A stream has been printed chunk by chunk. The module command announces  *)
(* a bypass only now, and only on the route without --trace.               *)
ModuleReturns ==
  /\ pc = "running" /\ ran = "parent"
  /\ ended' = TRUE
  /\ Goto(IF route = "stream" THEN "record" ELSE "print")
  /\ banner' = (banner \/ (call.command = "module" /\ route = "strategy" /\ Warns(call)))
  /\ UNCHANGED <<call, aclAsks, consent, route, ran, decisions, records>>

(* The module's own error, or one of a call it made through the executor,  *)
(* which comes back with the code it has there.                            *)
ModuleThrows ==
  /\ pc = "running" /\ ran = "parent"
  /\ \E e \in Errors \ {"none"} : Throw(e)
  /\ UNCHANGED <<call, aclAsks, consent, route, ran, ended, banner,
                 decisions, records>>

-----------------------------------------------------------------------------
(* Reporting.                                                              *)

Append1(status, code) ==
  records' = IF Audited(call)
               THEN Append(records, [status |-> status, code |-> code]) ELSE records

(* Variant with a bug: the success is recorded before it is printed.       *)
FormatAfterRecord ==
  /\ pc = "print"
  /\ \/ Goto("record") /\ UNCHANGED records
     \/ Append1("success", 0) /\ Throw("error")
  /\ UNCHANGED <<call, aclAsks, consent, route, ran, ended, banner, decisions>>

(* formatExecResult prints the result or throws.                           *)
Format ==
  /\ pc = "print"
  /\ Goto("record") \/ Throw("error")
  /\ UNCHANGED <<call, aclAsks, consent, route, ran, ended, banner,
                 decisions, records>>

RecordSuccess ==
  /\ pc = "record"
  /\ Append1("success", 0)
  /\ Exit(0)
  /\ UNCHANGED <<call, aclAsks, consent, route, ran, ended, banner, decisions>>

(* Variant with a bug: the error is reported but not turned into an exit.  *)
FailQuietly ==
  /\ pc = "failing"
  /\ Append1("error", ExitCode(err)) /\ Exit(0)
  /\ UNCHANGED <<call, aclAsks, consent, route, ran, ended, banner, decisions>>

(* The catch block: record the error, then process.exit with its code.     *)
Fail ==
  /\ pc = "failing"
  /\ Append1("error", ExitCode(err))
  /\ Exit(ExitCode(err))
  /\ UNCHANGED <<call, aclAsks, consent, route, ran, ended, banner, decisions>>

(* Ctrl-C or a kill between any two steps; no handler is installed.        *)
Interrupt ==
  /\ pc \notin {"exited", "killed"}
  /\ pc' = "killed"
  /\ UNCHANGED <<call, err, aclAsks, consent, route, ran, ended, banner,
                 decisions, records, exit>>

-----------------------------------------------------------------------------
Read == ParseInput \/ RejectInput

(* The steps the CLI and the pipeline owe, once the input has arrived.     *)
Proceed ==
  \/ Preflight \/ ExecPreflight \/ ValidateSchema
  \/ CheckAccess \/ GatePasses \/ GateAsks \/ TakeRoute
  \/ AclStep \/ ApprovalStep \/ PipelineFails \/ ModuleStarts
  \/ ChildAnswers \/ Format \/ RecordSuccess \/ Fail

Next ==
  \/ Read \/ Proceed \/ ChildStarts
  \/ ModuleReturns \/ ModuleThrows \/ Interrupt

(* Prompts are settled (ApprovalPrompt) and children answer (Sandbox). The *)
(* input may never end and a module in this process may never return.      *)
Spec == Init /\ [][Next]_vars /\ WF_vars(Proceed)

-----------------------------------------------------------------------------
TypeOK ==
  /\ call \in Calls
  /\ pc \in Steps /\ err \in Errors /\ route \in Routes
  /\ aclAsks \in BOOLEAN /\ ended \in BOOLEAN /\ banner \in BOOLEAN
  /\ consent \in SUBSET {"gate", "handler"}
  /\ ran \in {"no", "parent", "child"}
  /\ decisions \in Seq({"allow", "deny"}) /\ Len(decisions) <= 2
  /\ records \in Seq(Records)
  /\ exit \in ExitCodes \cup {-1}

Decided == {decisions[i] : i \in DOMAIN decisions}

(* What an ACL and the human must have said, by the route that is taken:   *)
(* the CLI itself answers for the child, the executor for this process.    *)
AccessGiven(r) ==
  IF r = "child"
    THEN Held(call) => call.acl.rule[call.identity] # "deny"
    ELSE Gated(call, r) /\ call.acl # NoAcl => call.acl.rule[Presented(call, r)] # "deny"

ApprovalGiven(r) ==
  /\ \/ ModuleRequires(call)
     \/ r = "child" /\ Held(call) /\ call.acl.rule[call.identity] = "ask"
     => SkipsGate(call) \/ "gate" \in consent
  /\ r # "child" /\ HandlerAsked(call, r) => SkipsHandler(call) \/ "handler" \in consent

(* No module starts, here or in a child, before the ACL that governs its   *)
(* route has admitted the caller.                                          *)
AdmittedBeforeStart == ran # "no" => AccessGiven(route)

(* No module starts before everyone who must approve it has: the module's  *)
(* own requirement and the ACL's are both put to a human, on every route,  *)
(* unless the user chose to skip the question.                             *)
ApprovedBeforeStart == ran # "no" => ApprovalGiven(route)

(* The audit log tells what the exit code tells: at most one record for a  *)
(* command, agreeing with it, and one for every module that was started;   *)
(* and whoever the CLI's own ACL turned away finds the denial in there.    *)
OneTruthfulRecord ==
  pc = "exited" =>
    /\ Len(records) <= 1
    /\ Len(records) = 1 =>
         records[1] = [status |-> IF exit = 0 THEN "success" ELSE "error", code |-> exit]
    /\ ran # "no" /\ Audited(call) => Len(records) = 1
    /\ err = "acl" /\ ran = "no" /\ Held(call) =>
         "deny" \in Decided

(* A script can trust the exit code: 0 is a module that ended or a dry run,*)
(* and 77 and 46 mean that nothing was started, or that a module in this   *)
(* process was itself refused a call and did not get over it.              *)
ExitCodeTellsOutcome ==
  /\ exit = 0 => ended \/ call.dryRun \/ call.command = "validate"
  /\ exit \in {46, 77} => ran = "no" \/ (ran = "parent" /\ ~ended)

(* A module that runs around the ACL the CLI attached is announced, except *)
(* on the traced route and, in a module command, until it has returned:    *)
(* nothing is said of one that throws.                                     *)
BypassIsAnnounced ==
  ran # "no" /\ Warns(call) /\ ~Gated(call, route) =>
    banner \/ route = "trace" \/ (call.command = "module" /\ ~ended)

(* Once its input is there a command ends, unless a module that runs in    *)
(* this process does not.                                                  *)
CommandEnds ==
  pc \notin {"parse", "exited", "killed"} ~>
    pc \in {"exited", "killed"} \/ (ran = "parent" /\ ~ended)

-----------------------------------------------------------------------------
(* A command line implements GovernedCall.                                 *)

Rehearsal == call.dryRun \/ call.command = "validate"
Permitted == route # "none" /\ AccessGiven(route) /\ ApprovalGiven(route)
Effect == IF ran = "no" THEN "none" ELSE IF ended THEN "done" ELSE "started"
Report ==
  IF pc = "killed" \/ (pc = "exited" /\ exit # 0) THEN "failure"
  ELSE IF pc = "exited" THEN "success" ELSE "pending"

Governed == INSTANCE GovernedCall WITH
  rehearsal <- Rehearsal, detached <- call.sandbox,
  permitted <- Permitted, effect <- Effect, report <- Report

(* Every command line is a call the abstract specification allows: gates,  *)
(* start, end and report in that order, a rehearsal without a start.       *)
ImplementsGovernedCall == Governed!Spec

-----------------------------------------------------------------------------
(* A command line implements AuditTrail, whoever else writes to the log.   *)

(* The ACL that the CLI attached is put the question before any success.   *)
Judged(c) == Held(c) /\ (c.sandbox \/ Gated(c, RouteOf(c)))

Outcome ==
  IF records = <<>> THEN "none"
  ELSE IF Len(records) = 1 THEN records[1].status ELSE "several"

Trail == INSTANCE AuditTrail WITH
  governed <- Judged(call), kept <- {"allow", "deny"},
  decided <- Decided,
  outcome <- Outcome

(* What a command line hands to the audit log is one trail: no decision    *)
(* follows a denial or the record of the run, and no call that the CLI's   *)
(* own ACL governs is recorded as a success without a decision to allow it.*)
ImplementsAuditTrail == Trail!Spec

-----------------------------------------------------------------------------
(* What the documents say and the code does not do.                        *)

(* main.ts: the identity is recorded before any action so that module      *)
(* dispatch hands it on: nothing the ACL denies to the asserted identity   *)
(* runs while the ACL is enforced.                                         *)
AssertedIdentityJudged ==
  ran = "parent" /\ call.command \in {"module", "exec"} /\ Gated(call, route)
    /\ call.acl # NoAcl => call.acl.rule[call.identity] # "deny"
=============================================================================
