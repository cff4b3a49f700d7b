-------------------------- MODULE InvocationProofs --------------------------
(***************************************************************************)
(* Proofs about Invocation for every set of strategies, identities and     *)
(* rules. The inductive invariant says, for each place in the command,     *)
(* what the gates passed so far have established; the safety properties    *)
(* and the refinements of GovernedCall and AuditTrail are read off it.     *)
(***************************************************************************)
EXTENDS Invocation, TLAPS

BeforeRoute == {"parse", "preflight", "schema", "access", "gate", "route"}
OnRoute == {"acl", "approval", "running", "child"}
Reporting == {"print", "record"}
Over == {"exited", "killed"}

(* Until a route is taken nothing runs; a module that ended had started;   *)
(* only --sandbox leads to a child.                                        *)
Starting ==
  /\ route = "child" => call.sandbox
  /\ pc \in BeforeRoute => route = "none"
  /\ pc \in BeforeRoute \cup {"acl", "approval"} => ran = "no"
  /\ ended => ran # "no"
  /\ pc \in OnRoute => ~ended
  /\ pc \in Reporting => ended
  /\ ran # "no" => route # "none"

(* A rehearsal never gets as far as a route.                               *)
Rehearsing ==
  /\ pc = "preflight" => call.dryRun \/ call.command = "validate"
  /\ pc \in {"route"} \cup OnRoute \cup Reporting =>
       ~call.dryRun /\ call.command # "validate"
  /\ pc \in {"schema", "access", "gate"} => call.command # "validate"
  /\ pc = "schema" => ~call.dryRun
  /\ route # "none" => ~call.dryRun /\ call.command # "validate"

(* An error is being reported or has been. No human refuses a child, and   *)
(* the gates' own exit codes are for the errors of the gates.              *)
Erring ==
  /\ err # "none" => pc \in {"failing"} \cup Over
  /\ route = "child" => err # "approval"
  /\ exit \in {46, 77} /\ route = "child" => err = "acl"

(* What the CLI's ACL asks for on behalf of a child is known to the gate.  *)
AsksKnown ==
  call.sandbox /\ pc \in {"gate", "route"} =>
    (DelegatedAccess(call) = "ask" => aclAsks)

(* The gate lies behind every route.                                       *)
GateCleared ==
  /\ pc = "parse" => ~aclAsks
  /\ pc = "route" => (ModuleRequires(call) \/ aclAsks => SkipsGate(call) \/ "gate" \in consent)
  /\ route # "none" => (ModuleRequires(call) => SkipsGate(call) \/ "gate" \in consent)

(* What each place on a route has behind it.                               *)
RouteCleared ==
  /\ pc \in {"acl", "approval", "running"} => route # "none" /\ route # "child"
  /\ pc \in {"approval", "running"} => AccessGiven(route)
  /\ pc = "child" => route = "child" /\ AccessGiven(route)
  /\ pc \in {"running", "child"} => ApprovalGiven(route)
  /\ route = "child" /\ err # "acl" => AccessGiven(route) /\ ApprovalGiven(route)

(* Nothing is reported before the end, and the report is the outcome.      *)
Reported ==
  /\ pc \notin Over => records = <<>>
  /\ pc # "exited" => exit = -1
  /\ pc = "failing" => err # "none"
  /\ pc = "failing" /\ err \in {"acl", "approval"} =>
       ran = "no" \/ (ran = "parent" /\ ~ended)
  /\ pc = "exited" /\ route # "none" /\ Audited(call) => Len(records) = 1

(* A denial ends the command. Past a gate that asks the CLI's own ACL there*)
(* is its decision to allow, and what that ACL turned away it was asked.   *)
Deciding ==
  /\ route \in {"none", RouteOf(call)}
  /\ pc \in {"parse", "schema", "access"} => decisions = <<>>
  /\ pc \in BeforeRoute \cup {"acl"} => Len(decisions) <= 1
  /\ "deny" \in Decided => pc \in {"failing"} \cup Over
  /\ call.sandbox /\ Held(call) /\ pc \in {"gate", "route"} \cup OnRoute \cup Reporting =>
       "allow" \in Decided
  /\ Judged(call) /\ pc \in {"approval", "running", "child"} \cup Reporting =>
       "allow" \in Decided
  /\ pc = "failing" /\ err = "acl" /\ ran = "no" /\ Held(call) => "deny" \in Decided

Control == Starting /\ Rehearsing /\ Erring /\ AsksKnown
Gates == GateCleared /\ RouteCleared /\ AdmittedBeforeStart /\ ApprovedBeforeStart
Reports == Reported /\ OneTruthfulRecord /\ ExitCodeTellsOutcome

IInv == TypeOK /\ Control /\ Gates /\ Reports /\ Deciding

(* What the kind of command says about its options.                        *)
LEMMA CallFacts ==
  ASSUME NEW c \in Calls
  PROVE  /\ c.command \in Commands
         /\ c.sandbox \/ c.dryRun => c.command \in {"module", "exec"}
         /\ c.sandbox \in BOOLEAN /\ c.dryRun \in BOOLEAN
         /\ c.command = "inspect" => ~ModuleRequires(c)
BY DEF Calls, ModuleRequires

(* Only --sandbox leads to a child.                                        *)
LEMMA RouteFacts ==
  ASSUME NEW c \in Calls
  PROVE  /\ RouteOf(c) \in Routes \ {"none"}
         /\ RouteOf(c) = "child" => c.sandbox
BY DEF RouteOf, Routes

(* A system command has the direct route only.                             *)
LEMMA RouteIsDirect ==
  ASSUME NEW c, c.command \in {"mutate", "inspect"}
  PROVE  RouteOf(c) = "direct"
BY DEF RouteOf

(* Every error has one of the exit codes of a failure.                     *)
LEMMA ExitCodeFacts ==
  ASSUME NEW e \in Errors
  PROVE  /\ ExitCode(e) \in ExitCodes \ {0}
         /\ ExitCode(e) \in {46, 77} => e \in {"acl", "approval"}
BY DEF Errors, ExitCode, ExitCodes

(* Whether the CLI's own ACL is there, and asked, is a truth value.        *)
LEMMA HeldFacts ==
  ASSUME NEW c \in Calls, NEW r
  PROVE  Held(c) \in BOOLEAN /\ Gated(c, r) \in BOOLEAN
BY DEF Held, Gated, Calls

(* What the audit callback adds to what it has heard.                      *)
LEMMA DecideFacts ==
  ASSUME decisions \in Seq({"allow", "deny"}), NEW judged \in BOOLEAN, NEW access,
         Decide(judged, access)
  PROVE  /\ decisions' \in Seq({"allow", "deny"})
         /\ Len(decisions') <= Len(decisions) + 1
         /\ ~judged => decisions' = decisions /\ Decided' = Decided
         /\ judged =>
              Decided' = Decided \cup {IF access = "deny" THEN "deny" ELSE "allow"}
<1>1. CASE ~judged
  BY <1>1 DEF Decide, Decided
<1>2. CASE judged
  <2> DEFINE verdict == IF access = "deny" THEN "deny" ELSE "allow"
  <2>1. verdict \in {"allow", "deny"} /\ decisions' = Append(decisions, verdict)
    BY <1>2 DEF Decide
  <2> HIDE DEF verdict
  <2>2. /\ decisions' \in Seq({"allow", "deny"})
        /\ Len(decisions') = Len(decisions) + 1
        /\ decisions'[Len(decisions) + 1] = verdict
        /\ \A i \in 1..Len(decisions) : decisions'[i] = decisions[i]
    BY <2>1
  <2>3. Decided' = Decided \cup {verdict}
    <3>1. /\ DOMAIN decisions = 1..Len(decisions)
          /\ DOMAIN decisions' = 1..Len(decisions) \cup {Len(decisions) + 1}
      BY <2>2
    <3> QED
      BY <2>2, <3>1 DEF Decided
  <2> QED
    BY <1>2, <2>2, <2>3 DEF verdict
<1> QED
  BY <1>1, <1>2

(* The preflight's ACL check, if it makes one, is one decision.            *)
LEMMA PreflightFacts ==
  ASSUME decisions \in Seq({"allow", "deny"}), PreflightDecides
  PROVE  /\ decisions' \in Seq({"allow", "deny"})
         /\ Len(decisions') <= Len(decisions) + 1
         /\ \/ decisions' = decisions
            \/ Held(call) /\ \E verdict \in {"allow", "deny"} :
                               Decided' = Decided \cup {verdict}
<1>1. PICK judged \in BOOLEAN :
        Decide(judged /\ Held(call) /\ call.canValidate, Access(call, call.identity))
  BY DEF PreflightDecides
<1> DEFINE asked == judged /\ Held(call) /\ call.canValidate
<1>2. asked \in BOOLEAN /\ (asked => Held(call))
  OBVIOUS
<1>3. Decide(asked, Access(call, call.identity))
  BY <1>1
<1> HIDE DEF asked
<1>4. CASE asked
  BY <1>2, <1>3, <1>4, DecideFacts
<1>5. CASE ~asked
  BY <1>2, <1>3, <1>5, DecideFacts
<1> QED
  BY <1>4, <1>5

(* The initial state satisfies the invariant: nothing has been read.       *)
LEMMA InitIInv == Init => IInv
<1> SUFFICES ASSUME Init PROVE IInv
  OBVIOUS
<1>1. TypeOK
  <2>1. records \in Seq(Records) /\ consent \in SUBSET {"gate", "handler"}
    BY DEF Init
  <2>3. decisions \in Seq({"allow", "deny"}) /\ Len(decisions) <= 2
    BY DEF Init
  <2>2. exit \in ExitCodes \cup {-1}
    BY DEF Init
  <2> QED
    BY <2>1, <2>2, <2>3 DEF Init, TypeOK, Steps, Errors, Routes
<1>2. Control
  BY CallFacts DEF Init, Control, Starting, Rehearsing, Erring, AsksKnown,
    BeforeRoute, OnRoute, Reporting
<1>3. Gates
  BY DEF Init, Gates, GateCleared, RouteCleared, AdmittedBeforeStart,
    ApprovedBeforeStart
<1>4. Reports
  BY DEF Init, Reports, Reported, OneTruthfulRecord, ExitCodeTellsOutcome, Over
<1>5. Deciding
  BY DEF Init, Deciding, BeforeRoute, OnRoute, Reporting, Decided
<1> QED
  BY <1>1, <1>2, <1>3, <1>4, <1>5 DEF IInv

(* Every step keeps every variable in its type.                            *)
LEMMA NextTypeOK == IInv /\ [Next]_vars => TypeOK'
<1> SUFFICES ASSUME IInv, [Next]_vars PROVE TypeOK'
  OBVIOUS
<1> USE DEF IInv, TypeOK, Steps, Errors, ExitCodes
<1>1. CASE ParseInput
  BY <1>1 DEF ParseInput, Goto
<1>2. CASE RejectInput
  BY <1>2 DEF RejectInput, Throw, Exit
<1>3. CASE Preflight
  <2>1. decisions' \in Seq({"allow", "deny"}) /\ Len(decisions') <= 2
    BY <1>3, PreflightFacts DEF Preflight, Deciding, BeforeRoute
  <2> QED
    BY <1>3, <2>1 DEF Preflight, Throw, Exit
<1>4. CASE ExecPreflight
  <2>1. decisions' \in Seq({"allow", "deny"}) /\ Len(decisions') <= 2
    BY <1>4, PreflightFacts DEF ExecPreflight, Deciding, BeforeRoute
  <2> QED
    BY <1>4, <2>1 DEF ExecPreflight, Throw, Exit
<1>5. CASE ValidateSchema
  BY <1>5 DEF ValidateSchema, Goto, Throw
<1>6. CASE CheckAccess
  <2>1. aclAsks' \in BOOLEAN
    BY <1>6 DEF CheckAccess, TypeOK
  <2>2. pc' \in Steps /\ err' \in Errors /\ exit' = exit
    BY <1>6 DEF CheckAccess, Goto, Throw, TypeOK, Steps, Errors
  <2>3. decisions' \in Seq({"allow", "deny"}) /\ Len(decisions') <= 2
    BY <1>6, CallFacts, HeldFacts, DecideFacts DEF CheckAccess, Deciding, BeforeRoute
  <2> QED
    BY <1>6, <2>1, <2>2, <2>3 DEF CheckAccess, TypeOK
<1>7. CASE GatePasses
  BY <1>7 DEF GatePasses, Goto, AfterGate
<1>8. CASE GateAsks
  <2>1. consent' \in SUBSET {"gate", "handler"}
    BY <1>8 DEF GateAsks, TypeOK
  <2>2. pc' \in Steps /\ err' \in Errors /\ exit' = exit
    BY <1>8 DEF GateAsks, AfterGate, Goto, Throw, TypeOK, Steps, Errors
  <2> QED
    BY <1>8, <2>1, <2>2 DEF GateAsks, TypeOK
<1>9. CASE TakeRoute
  <2>1. decisions' \in Seq({"allow", "deny"}) /\ Len(decisions') <= 2
    <3> DEFINE asked == route' = "child" /\ Held(call)
    <3>1. Decide(asked, DelegatedAccess(call)) /\ asked \in BOOLEAN
      BY <1>9 DEF TakeRoute
    <3>2. Len(decisions) <= 1 /\ Len(decisions) \in Nat
      BY <1>9 DEF TakeRoute, Deciding, BeforeRoute
    <3> HIDE DEF asked
    <3> QED
      BY <3>1, <3>2, DecideFacts
  <2> QED
    BY RouteFacts, <1>9, <2>1 DEF TakeRoute, Goto, Throw
<1>10. CASE AclStep
  <2>1. decisions' \in Seq({"allow", "deny"}) /\ Len(decisions') <= 2
    BY <1>10, HeldFacts, DecideFacts DEF AclStep, Deciding
  <2> QED
    BY <1>10, <2>1 DEF AclStep, Goto, Throw
<1>11. CASE ApprovalStep
  <2>1. consent' \in SUBSET {"gate", "handler"}
    BY <1>11 DEF ApprovalStep, TypeOK
  <2>2. pc' \in Steps /\ err' \in Errors /\ exit' = exit
    BY <1>11 DEF ApprovalStep, Goto, Throw, TypeOK, Steps, Errors
  <2> QED
    BY <1>11, <2>1, <2>2 DEF ApprovalStep, TypeOK
<1>12. CASE PipelineFails
  BY <1>12 DEF PipelineFails, Throw
<1>13. CASE ModuleStarts
  BY <1>13 DEF ModuleStarts
<1>14. CASE ChildStarts
  BY <1>14 DEF ChildStarts
<1>15. CASE ChildAnswers
  <2>1. ended' \in BOOLEAN
    BY <1>15 DEF ChildAnswers, TypeOK
  <2>2. pc' \in Steps /\ err' \in Errors /\ exit' = exit
    BY <1>15 DEF ChildAnswers, Goto, Throw, TypeOK, Steps, Errors
  <2> QED
    BY <1>15, <2>1, <2>2 DEF ChildAnswers, TypeOK
<1>16. CASE ModuleReturns
  BY <1>16 DEF ModuleReturns, Goto
<1>17. CASE ModuleThrows
  BY <1>17 DEF ModuleThrows, Throw
<1>18. CASE Format
  BY <1>18 DEF Format, Goto, Throw
<1>19. CASE RecordSuccess
  <2>1. records' \in Seq(Records)
    <3>1. [status |-> "success", code |-> 0] \in Records
      BY DEF Records, ExitCodes
    <3> QED
      BY <1>19, <3>1 DEF RecordSuccess, Append1, TypeOK
  <2>2. pc' \in Steps /\ err' = err /\ exit' \in ExitCodes
    BY <1>19 DEF RecordSuccess, Exit, Steps, ExitCodes
  <2> QED
    BY <1>19, <2>1, <2>2 DEF RecordSuccess, TypeOK
<1>20. CASE Fail
  <2>1. records' \in Seq(Records)
    <3>1. [status |-> "error", code |-> ExitCode(err)] \in Records
      BY ExitCodeFacts DEF Records, TypeOK
    <3> QED
      BY <1>20, <3>1 DEF Fail, Append1, TypeOK
  <2>2. pc' \in Steps /\ err' = err /\ exit' \in ExitCodes
    BY ExitCodeFacts, <1>20 DEF Fail, Exit, TypeOK, Steps
  <2> QED
    BY <1>20, <2>1, <2>2 DEF Fail, TypeOK
<1>21. CASE Interrupt
  BY <1>21 DEF Interrupt
<1>22. CASE UNCHANGED vars
  BY <1>22 DEF vars
<1> QED
  BY <1>1, <1>2, <1>3, <1>4, <1>5, <1>6, <1>7, <1>8, <1>9, <1>10, <1>11, <1>12,
    <1>13, <1>14, <1>15, <1>16, <1>17, <1>18, <1>19, <1>20, <1>21, <1>22 DEF
    Next, Read, Proceed

(* Every step leads to a place that fits the kind of command.              *)
LEMMA NextControl == IInv /\ [Next]_vars => Control'
<1> SUFFICES ASSUME IInv, [Next]_vars PROVE Control'
  OBVIOUS
<1> USE DEF IInv, Control, Starting, Rehearsing, Erring, AsksKnown, TypeOK,
      BeforeRoute, OnRoute, Reporting, Over
<1>1. CASE ParseInput
  BY CallFacts, <1>1 DEF ParseInput, Goto
<1>2. CASE RejectInput
  BY <1>2 DEF RejectInput, Throw, Exit
<1>3. CASE Preflight
  BY <1>3 DEF Preflight, Throw, Exit
<1>4. CASE ExecPreflight
  BY <1>4 DEF ExecPreflight, Throw, Exit
<1>5. CASE ValidateSchema
  BY <1>5 DEF ValidateSchema, Goto, Throw
<1>6. CASE CheckAccess
  BY <1>6 DEF CheckAccess, Goto, Throw
<1>7. CASE GatePasses
  BY <1>7 DEF GatePasses, Goto, AfterGate
<1>8. CASE GateAsks
  BY <1>8 DEF GateAsks, Goto, Throw, AfterGate
<1>9. CASE TakeRoute
  BY CallFacts, RouteFacts, <1>9 DEF TakeRoute, Goto, Throw, Reports, Reported
<1>10. CASE AclStep
  BY <1>10 DEF AclStep, Goto, Throw
<1>11. CASE ApprovalStep
  BY <1>11 DEF ApprovalStep, Goto, Throw, Gates, RouteCleared
<1>12. CASE PipelineFails
  BY <1>12 DEF PipelineFails, Throw
<1>13. CASE ModuleStarts
  BY <1>13 DEF ModuleStarts, Gates, RouteCleared
<1>14. CASE ChildStarts
  BY <1>14 DEF ChildStarts, Gates, RouteCleared
<1>15. CASE ChildAnswers
  BY <1>15 DEF ChildAnswers, Goto, Throw
<1>16. CASE ModuleReturns
  BY <1>16 DEF ModuleReturns, Goto
<1>17. CASE ModuleThrows
  BY <1>17 DEF ModuleThrows, Throw, Gates, RouteCleared
<1>18. CASE Format
  BY <1>18 DEF Format, Goto, Throw
<1>19. CASE RecordSuccess
  BY <1>19 DEF RecordSuccess, Exit, Append1
<1>20. CASE Fail
  BY ExitCodeFacts, <1>20 DEF Fail, Exit, Append1, Reports, Reported
<1>21. CASE Interrupt
  BY <1>21 DEF Interrupt
<1>22. CASE UNCHANGED vars
  BY <1>22 DEF vars
<1> QED
  BY <1>1, <1>2, <1>3, <1>4, <1>5, <1>6, <1>7, <1>8, <1>9, <1>10, <1>11, <1>12,
    <1>13, <1>14, <1>15, <1>16, <1>17, <1>18, <1>19, <1>20, <1>21, <1>22 DEF
    Next, Read, Proceed

(* Every step onwards from a gate has what the gate establishes.           *)
LEMMA NextGates == IInv /\ [Next]_vars => Gates'
<1> SUFFICES ASSUME IInv, [Next]_vars PROVE Gates'
  OBVIOUS
<1> USE DEF IInv, Gates, GateCleared, RouteCleared, AdmittedBeforeStart,
      ApprovedBeforeStart, AccessGiven, ApprovalGiven, Control, Starting,
      BeforeRoute, TypeOK
<1>1. CASE ParseInput
  BY CallFacts, <1>1 DEF ParseInput, Goto
<1>2. CASE RejectInput
  BY <1>2 DEF RejectInput, Throw, Exit
<1>3. CASE Preflight
  BY <1>3 DEF Preflight, Throw, Exit
<1>4. CASE ExecPreflight
  BY <1>4 DEF ExecPreflight, Throw, Exit
<1>5. CASE ValidateSchema
  BY <1>5 DEF ValidateSchema, Goto, Throw
<1>6. CASE CheckAccess
  BY <1>6 DEF CheckAccess, Goto, Throw
<1>7. CASE GatePasses
  BY <1>7 DEF GatePasses, Goto, AfterGate
<1>8. CASE GateAsks
  BY <1>8 DEF GateAsks, Goto, Throw, AfterGate
<1>9. CASE TakeRoute
  BY CallFacts, RouteFacts, <1>9 DEF TakeRoute, Goto, Throw, AsksKnown,
    DelegatedAccess, Access, Held
<1>10. CASE AclStep
  BY <1>10 DEF AclStep, Goto, Throw, Access
<1>11. CASE ApprovalStep
  BY <1>11 DEF ApprovalStep, Goto, Throw
<1>12. CASE PipelineFails
  BY <1>12 DEF PipelineFails, Throw
<1>13. CASE ModuleStarts
  BY <1>13 DEF ModuleStarts
<1>14. CASE ChildStarts
  BY <1>14 DEF ChildStarts
<1>15. CASE ChildAnswers
  BY <1>15 DEF ChildAnswers, Goto, Throw
<1>16. CASE ModuleReturns
  BY <1>16 DEF ModuleReturns, Goto
<1>17. CASE ModuleThrows
  BY <1>17 DEF ModuleThrows, Throw
<1>18. CASE Format
  BY <1>18 DEF Format, Goto, Throw, Erring, Over
<1>19. CASE RecordSuccess
  BY <1>19 DEF RecordSuccess, Exit, Append1
<1>20. CASE Fail
  BY <1>20 DEF Fail, Exit, Append1
<1>21. CASE Interrupt
  BY <1>21 DEF Interrupt
<1>22. CASE UNCHANGED vars
  BY <1>22 DEF vars
<1> QED
  BY <1>1, <1>2, <1>3, <1>4, <1>5, <1>6, <1>7, <1>8, <1>9, <1>10, <1>11, <1>12,
    <1>13, <1>14, <1>15, <1>16, <1>17, <1>18, <1>19, <1>20, <1>21, <1>22 DEF
    Next, Read, Proceed

(* Every step that ends the command reports what happened.                 *)
LEMMA NextReports == IInv /\ [Next]_vars => Reports'
<1> SUFFICES ASSUME IInv, [Next]_vars PROVE Reports'
  OBVIOUS
<1> USE DEF IInv, Reports, Reported, OneTruthfulRecord,
      ExitCodeTellsOutcome, Over, Control, Starting, Rehearsing, TypeOK,
      Reporting, BeforeRoute, OnRoute
<1>1. CASE ParseInput
  BY <1>1 DEF ParseInput, Goto
<1>2. CASE RejectInput
  BY <1>2 DEF RejectInput, Throw, Exit, Erring
<1>3. CASE Preflight
  BY <1>3 DEF Preflight, Throw, Exit, Erring
<1>4. CASE ExecPreflight
  BY <1>4 DEF ExecPreflight, Throw, Exit, Erring
<1>5. CASE ValidateSchema
  BY <1>5 DEF ValidateSchema, Goto, Throw
<1>6. CASE CheckAccess
  BY <1>6 DEF CheckAccess, Goto, Throw
<1>7. CASE GatePasses
  BY <1>7 DEF GatePasses, Goto, AfterGate
<1>8. CASE GateAsks
  BY <1>8 DEF GateAsks, Goto, Throw, AfterGate
<1>9. CASE TakeRoute
  BY <1>9 DEF TakeRoute, Goto, Throw
<1>10. CASE AclStep
  BY <1>10 DEF AclStep, Goto, Throw
<1>11. CASE ApprovalStep
  BY <1>11 DEF ApprovalStep, Goto, Throw
<1>12. CASE PipelineFails
  BY <1>12 DEF PipelineFails, Throw
<1>13. CASE ModuleStarts
  BY <1>13 DEF ModuleStarts
<1>14. CASE ChildStarts
  BY <1>14 DEF ChildStarts, Erring
<1>15. CASE ChildAnswers
  BY <1>15 DEF ChildAnswers, Goto, Throw
<1>16. CASE ModuleReturns
  BY <1>16 DEF ModuleReturns, Goto
<1>17. CASE ModuleThrows
  BY <1>17 DEF ModuleThrows, Throw
<1>18. CASE Format
  BY <1>18 DEF Format, Goto, Throw
<1>19. CASE RecordSuccess
  BY <1>19 DEF RecordSuccess, Exit, Append1, Erring
<1>20. CASE Fail
  <2>1. err = "acl" /\ ran = "no" /\ Held(call) => "deny" \in Decided
    BY <1>20 DEF Fail, Deciding
  <2>2. UNCHANGED Decided
    BY <1>20 DEF Fail, Decided
  <2>3. UNCHANGED Held(call)
    BY <1>20 DEF Fail
  <2> QED
    BY ExitCodeFacts, <1>20, <2>1, <2>2, <2>3 DEF Fail, Exit, Append1
<1>21. CASE Interrupt
  BY <1>21 DEF Interrupt
<1>22. CASE UNCHANGED vars
  BY <1>22 DEF vars, Decided
<1> QED
  BY <1>1, <1>2, <1>3, <1>4, <1>5, <1>6, <1>7, <1>8, <1>9, <1>10, <1>11, <1>12,
    <1>13, <1>14, <1>15, <1>16, <1>17, <1>18, <1>19, <1>20, <1>21, <1>22 DEF
    Next, Read, Proceed

(* Every decision is heard before the command goes on, and a denial ends it. *)
LEMMA NextDeciding == IInv /\ [Next]_vars => Deciding'
<1> SUFFICES ASSUME IInv, [Next]_vars PROVE Deciding'
  OBVIOUS
<1> USE DEF IInv, Deciding, TypeOK, BeforeRoute, OnRoute, Reporting, Over, Control,
      Starting
<1>1. CASE ParseInput \/ RejectInput
  <2>1. call.command \in {"module", "exec"} \/ ~call.sandbox
    BY CallFacts
  <2>2. UNCHANGED <<call, decisions, route>> /\ pc = "parse" /\ err = "none"
    BY <1>1 DEF ParseInput, RejectInput, Erring
  <2>3. UNCHANGED <<Decided, Held(call), Judged(call)>>
    BY <2>2 DEF Decided
  <2> QED
    BY <1>1, <2>1, <2>2, <2>3 DEF ParseInput, RejectInput, Goto, Throw, Exit
<1>2. CASE Preflight \/ ExecPreflight
  <2>1. pc' \in {"exited", "failing"} /\ (pc' = "failing" => err' = "error")
    BY <1>2 DEF Preflight, ExecPreflight, Throw, Exit
  <2> QED
    BY <1>2, <2>1 DEF Preflight, ExecPreflight
<1>3. CASE CheckAccess
  <2>1. Decide(call.sandbox /\ Held(call), DelegatedAccess(call))
    BY <1>3 DEF CheckAccess
  <2>2. (call.sandbox /\ Held(call)) \in BOOLEAN
    OBVIOUS
  <2>3. Len(decisions) = 0 /\ Decided = {}
    BY <1>3 DEF CheckAccess, Decided
  <2>4. UNCHANGED <<call, route, ran>>
    BY <1>3 DEF CheckAccess
  <2>5. UNCHANGED <<Held(call), Judged(call)>>
    BY <2>4
  <2>6. CASE call.sandbox /\ Held(call)
    <3>1. Decided' = {IF DelegatedAccess(call) = "deny" THEN "deny" ELSE "allow"}
      BY <2>1, <2>2, <2>3, <2>6, DecideFacts
    <3>2. Len(decisions') <= 1
      <4> DEFINE asked == call.sandbox /\ Held(call)
      <4>1. Decide(asked, DelegatedAccess(call)) /\ asked \in BOOLEAN
        BY <2>1, <2>2
      <4> HIDE DEF asked
      <4>2. Len(decisions') <= Len(decisions) + 1
        BY <4>1, DecideFacts
      <4> QED
        BY <2>3, <4>2
    <3> QED
      BY <1>3, <2>4, <2>5, <2>6, <3>1, <3>2 DEF CheckAccess, Goto, Throw
  <2>7. CASE ~(call.sandbox /\ Held(call))
    <3>1. Decided' = {} /\ decisions' = decisions
      BY <2>1, <2>2, <2>3, <2>7, DecideFacts
    <3>2. call.sandbox => DelegatedAccess(call) = "allow"
      BY <2>7 DEF DelegatedAccess
    <3> QED
      BY <1>3, <2>3, <2>4, <2>5, <2>7, <3>1, <3>2 DEF CheckAccess, Goto, Throw
  <2> QED
    BY <2>6, <2>7
<1>4. CASE TakeRoute
  <2>1. Decide(route' = "child" /\ Held(call), DelegatedAccess(call))
    BY <1>4 DEF TakeRoute
  <2>2. (route' = "child" /\ Held(call)) \in BOOLEAN
    OBVIOUS
  <2>3. /\ route' = RouteOf(call) /\ UNCHANGED <<call, ran>>
        /\ pc = "route" /\ Len(decisions) <= 1 /\ "deny" \notin Decided
    BY <1>4 DEF TakeRoute
  <2>4. UNCHANGED <<Held(call), Judged(call), RouteOf(call)>>
    BY <2>3
  <2>5. CASE route' = "child" /\ Held(call)
    <3>1. Decided' = Decided \cup {IF DelegatedAccess(call) = "deny" THEN "deny"
                                   ELSE "allow"}
      BY <2>1, <2>2, <2>5, DecideFacts
    <3> QED
      BY <1>4, <2>3, <2>4, <2>5, <3>1 DEF TakeRoute, Goto, Throw
  <2>6. CASE ~(route' = "child" /\ Held(call))
    <3>1. decisions' = decisions /\ Decided' = Decided
      BY <2>1, <2>2, <2>6, DecideFacts
    <3>2. route' = "child" => ~Held(call) /\ ~Judged(call)
      BY <2>6 DEF Judged
    <3> QED
      BY <1>4, <2>3, <2>4, <3>1, <3>2 DEF TakeRoute, Goto, Throw
  <2> QED
    BY <2>5, <2>6
<1>5. CASE AclStep
  <2> DEFINE asked == Held(call) /\ Gated(call, route)
             access == Access(call, Presented(call, route))
  <2>1. Decide(asked, access) /\ asked \in BOOLEAN
    BY <1>5 DEF AclStep
  <2>2. /\ UNCHANGED <<call, route, ran>> /\ pc = "acl" /\ "deny" \notin Decided
        /\ pc' \in {"approval", "failing"}
        /\ pc' = "approval" => ~(Gated(call, route) /\ access = "deny")
        /\ pc' = "failing" => Gated(call, route) /\ access = "deny"
    BY <1>5 DEF AclStep, Goto, Throw
  <2>3. UNCHANGED <<Held(call), Judged(call), RouteOf(call)>>
    BY <2>2
  <2>4. route = RouteOf(call)
    BY <2>2 DEF Gates, RouteCleared
  <2>5. Judged(call) => asked \/ "allow" \in Decided
    BY <2>2, <2>4 DEF Judged
  <2>6. asked => Gated(call, route)
    OBVIOUS
  <2>7. Held(call) /\ Gated(call, route) => asked
    OBVIOUS
  <2> HIDE DEF asked, access
  <2>8. CASE asked
    <3>1. Decided' = Decided \cup {IF access = "deny" THEN "deny" ELSE "allow"}
      BY <2>1, <2>8, DecideFacts
    <3> QED
      BY <2>2, <2>3, <2>6, <2>8, <3>1
  <2>9. CASE ~asked
    <3>1. decisions' = decisions /\ Decided' = Decided
      BY <2>1, <2>9, DecideFacts
    <3> QED
      BY <2>2, <2>3, <2>5, <2>7, <2>9, <3>1
  <2> QED
    BY <2>8, <2>9
<1>6. CASE \/ ValidateSchema \/ GatePasses \/ GateAsks \/ ApprovalStep
           \/ PipelineFails \/ ModuleStarts \/ ChildStarts \/ ChildAnswers
           \/ ModuleReturns \/ ModuleThrows \/ Format \/ RecordSuccess \/ Fail
           \/ Interrupt \/ UNCHANGED vars
  <2>1. UNCHANGED <<call, decisions, route>>
    BY <1>6 DEF ValidateSchema, GatePasses, GateAsks, ApprovalStep, PipelineFails,
      ModuleStarts, ChildStarts, ChildAnswers, ModuleReturns, ModuleThrows, Format,
      RecordSuccess, Fail, Interrupt, vars
  <2>2. UNCHANGED <<Decided, Held(call), Judged(call), RouteOf(call)>>
    BY <2>1 DEF Decided
  <2>3. \/ pc' = pc /\ err' = err /\ ran' \in {ran, "child", "parent"}
        \/ pc' \in Over
        \/ pc = "schema" /\ pc' = "access"
        \/ pc = "gate" /\ pc' \in {"preflight", "route"}
        \/ pc' = "failing" /\ (err' # "acl" \/ ran' = "parent")
        \/ pc \in {"approval", "running", "child", "print"} /\ pc' \in {"running", "print", "record"}
    BY <1>6 DEF ValidateSchema, GatePasses, GateAsks, AfterGate, ApprovalStep,
      PipelineFails, ModuleStarts, ChildStarts, ChildAnswers, ModuleReturns,
      ModuleThrows, Format, RecordSuccess, Fail, Interrupt, vars, Goto, Throw, Exit
  <2> QED
    BY <2>1, <2>2, <2>3
<1> QED
  BY <1>1, <1>2, <1>3, <1>4, <1>5, <1>6 DEF Next, Read, Proceed

(* The invariant holds throughout every command.                           *)
LEMMA Invariance == Spec => []IInv
<1>1. IInv /\ [Next]_vars => IInv'
  BY NextTypeOK, NextControl, NextGates, NextReports, NextDeciding DEF IInv
<1> QED
  BY InitIInv, <1>1, PTL DEF Spec

-----------------------------------------------------------------------------
(* Every variable of a command stays in its type.                          *)
THEOREM TypeCorrect == Spec => []TypeOK
<1>1. IInv => TypeOK
  BY DEF IInv
<1> QED
  BY Invariance, <1>1, PTL

(* Whatever the rules, identities and strategies: no route starts a module *)
(* that the ACL governing that route denies to the caller it presents.     *)
THEOREM AdmissionTheorem == Spec => []AdmittedBeforeStart
<1>1. IInv => AdmittedBeforeStart
  BY DEF IInv, Gates
<1> QED
  BY Invariance, <1>1, PTL

(* No route starts a module that still waits for the module's or the ACL's *)
(* approval.                                                               *)
THEOREM ApprovalTheorem == Spec => []ApprovedBeforeStart
<1>1. IInv => ApprovedBeforeStart
  BY DEF IInv, Gates
<1> QED
  BY Invariance, <1>1, PTL

(* The audit log and the exit code agree on every command.                 *)
THEOREM AuditTheorem == Spec => []OneTruthfulRecord
<1>1. IInv => OneTruthfulRecord
  BY DEF IInv, Reports
<1> QED
  BY Invariance, <1>1, PTL

(* The exit codes 0, 46 and 77 mean what scripts take them to mean.        *)
THEOREM ExitCodeTheorem == Spec => []ExitCodeTellsOutcome
<1>1. IInv => ExitCodeTellsOutcome
  BY DEF IInv, Reports
<1> QED
  BY Invariance, <1>1, PTL

(* The banner: exec prints it with the route, a module command with the    *)
(* return of the module.                                                   *)
Announcing ==
  route = "strategy" =>
    /\ call.command \in {"module", "exec"}
    /\ Warns(call) /\ (call.command = "exec" \/ ended) => banner

(* No step takes a route, or returns, without the banner that belongs to it. *)
LEMMA NextAnnouncing == IInv /\ Announcing /\ [Next]_vars => Announcing'
<1> SUFFICES ASSUME IInv, Announcing, [Next]_vars PROVE Announcing'
  OBVIOUS
<1>1. UNCHANGED Warns(call)
  BY DEF Warns, Next, Read, Proceed, ParseInput, RejectInput, Preflight, ExecPreflight,
    ValidateSchema, CheckAccess, GatePasses, GateAsks, TakeRoute, AclStep,
    ApprovalStep, PipelineFails, ModuleStarts, ChildStarts, ChildAnswers,
    ModuleReturns, ModuleThrows, Format, RecordSuccess, Fail, Interrupt, vars
<1>2. CASE TakeRoute
  <2>1. call.command \in Commands /\ call.command # "validate" /\ ~ended
    BY <1>2, CallFacts DEF TakeRoute, IInv, Control, Rehearsing, Starting, BeforeRoute,
      TypeOK
  <2>2. call.command \in {"mutate", "inspect"} => RouteOf(call) # "strategy"
    BY RouteIsDirect
  <2>3. call.command \in {"module", "exec"} \/ call.command \in {"mutate", "inspect"}
    BY <2>1 DEF Commands
  <2> QED
    BY <1>2, <2>1, <2>2, <2>3 DEF TakeRoute, Announcing, Warns
<1>3. CASE ModuleReturns
  BY <1>1, <1>3 DEF ModuleReturns, Announcing
<1>4. CASE ChildAnswers
  BY <1>4 DEF ChildAnswers, Announcing, IInv, Gates, RouteCleared
<1>5. CASE \/ ParseInput \/ RejectInput \/ Preflight \/ ExecPreflight
           \/ ValidateSchema \/ CheckAccess \/ GatePasses \/ GateAsks \/ AclStep
           \/ ApprovalStep \/ PipelineFails \/ ModuleStarts \/ ChildStarts
           \/ ModuleThrows \/ Format \/ RecordSuccess \/ Fail \/ Interrupt
           \/ UNCHANGED vars
  <2>1. UNCHANGED <<call, route, ended, banner>>
    BY <1>5 DEF ParseInput, RejectInput, Preflight, ExecPreflight, ValidateSchema,
      CheckAccess, GatePasses, GateAsks, AclStep, ApprovalStep, PipelineFails,
      ModuleStarts, ChildStarts, ModuleThrows, Format, RecordSuccess, Fail, Interrupt,
      vars
  <2> QED
    BY <1>1, <2>1 DEF Announcing
<1> QED
  BY <1>2, <1>3, <1>4, <1>5 DEF Next, Read, Proceed

(* Whatever the rules and strategies: the only silent ways around an ACL   *)
(* are the traced route and a module that does not return.                 *)
THEOREM AnnouncementTheorem == Spec => []BypassIsAnnounced
<1>1. Init => Announcing
  BY DEF Init, Announcing
<1>2. IInv /\ Announcing => BypassIsAnnounced
  <2> SUFFICES ASSUME IInv, Announcing, ~Gated(call, route), Warns(call),
                      route # "trace"
               PROVE  banner \/ (call.command = "module" /\ ~ended)
    BY DEF BypassIsAnnounced
  <2>1. route = "strategy"
    BY DEF Gated
  <2> QED
    BY <2>1 DEF Announcing
<1> QED
  BY <1>1, <1>2, NextAnnouncing, Invariance, PTL DEF Spec

-----------------------------------------------------------------------------
(* A step that leaves the module, its route and its approvals alone leaves *)
(* the abstract call alone, except perhaps for the report.                 *)
LEMMA QuietSteps ==
  UNCHANGED <<call, route, consent, ran, ended>> =>
    UNCHANGED <<Rehearsal, Permitted, Effect>>
BY DEF Rehearsal, Permitted, Effect, AccessGiven, ApprovalGiven

(* A further approval never withdraws the permission.                      *)
LEMMA ConsentGrows ==
  ASSUME UNCHANGED <<call, route>>, consent \subseteq consent', Permitted
  PROVE  Permitted'
BY DEF Permitted, AccessGiven, ApprovalGiven

(* Reading, refusing and printing move the command along, nothing else.    *)
LEMMA SilentRefines ==
  ASSUME IInv, pc \notin Over, pc' \notin Over,
         UNCHANGED <<call, route, consent, ran, ended>>
  PROVE  UNCHANGED Governed!vars
<1>1. UNCHANGED Report
  BY DEF Report, Over
<1> QED
  BY <1>1, QuietSteps DEF Governed!vars

(* A step that ends the command is an abstract report of what happened.    *)
LEMMA ReportRefines ==
  ASSUME IInv, IInv', pc \notin Over, pc' \in Over,
         UNCHANGED <<call, route, consent, ran, ended>>
  PROVE  Governed!Report
<1>1. Report = "pending"
  BY DEF Report, Over
<1>2. Report' = "failure" \/ (Report' = "success" /\ exit' = 0)
  BY DEF Report, Over
<1>3. exit' = 0 => Effect = "done" \/ Rehearsal
  BY DEF IInv, Reports, ExitCodeTellsOutcome, Control, Starting, Effect, Rehearsal
<1> QED
  BY <1>1, <1>2, <1>3, QuietSteps DEF Governed!Report

(* A step that approves or takes a route is an abstract permission, or     *)
(* nothing.                                                                *)
LEMMA PermitRefines ==
  ASSUME IInv, pc \notin Over, pc' \notin Over, ran = "no",
         UNCHANGED <<call, ran, ended>>,
         Permitted => Permitted'
  PROVE  Governed!Permit \/ UNCHANGED Governed!vars
<1>1. UNCHANGED <<Rehearsal, Effect, Report>> /\ Effect = "none" /\ Report = "pending"
  BY DEF Rehearsal, Effect, Report, Over
<1>2. CASE Permitted'
  BY <1>1, <1>2 DEF Governed!Permit
<1>3. CASE ~Permitted'
  <2>1. ~Permitted
    BY <1>3
  <2>2. Permitted' = Permitted
    BY <1>3, <2>1 DEF Permitted
  <2> QED
    BY <1>1, <2>2 DEF Governed!vars
<1> QED
  BY <1>2, <1>3

(* The module's start is an abstract beginning: it is permitted by then.   *)
LEMMA BeginRefines ==
  ASSUME IInv, ran = "no", ran' # "no",
         \/ pc = "running"
         \/ route = "child" /\ err # "acl",
         UNCHANGED <<call, pc, route, consent, ended, exit>>
  PROVE  Governed!Begin
<1>1. Permitted
  BY DEF IInv, Gates, RouteCleared, Permitted
<1>2. ~Rehearsal
  BY DEF IInv, Control, Rehearsing, OnRoute, Rehearsal
<1>3. Effect = "none" /\ Effect' = "started"
  BY DEF IInv, Control, Starting, OnRoute, Effect
<1>4. /\ Report = "pending" \/ (call.sandbox /\ Report = "failure")
      /\ Report' = Report
  <2>1. UNCHANGED Report
    BY DEF Report
  <2>2. CASE pc = "running"
    BY <2>1, <2>2 DEF Report
  <2>3. CASE route = "child"
    <3>1. call.sandbox /\ ~ended
      BY <2>3 DEF IInv, Control, Starting
    <3>2. exit # 0
      BY <1>2, <3>1 DEF IInv, Reports, ExitCodeTellsOutcome, Rehearsal
    <3> QED
      BY <2>1, <3>1, <3>2 DEF Report
  <2> QED
    BY <2>2, <2>3
<1>5. UNCHANGED <<Rehearsal, Permitted>>
  BY DEF Rehearsal, Permitted, AccessGiven, ApprovalGiven
<1> QED
  BY <1>1, <1>2, <1>3, <1>4, <1>5 DEF Governed!Begin

(* The module's return is its abstract end.                                *)
LEMMA FinishRefines ==
  ASSUME IInv, pc \in {"running", "child"}, pc' \in Reporting, ran # "no", ended',
         UNCHANGED <<call, route, consent, ran>>
  PROVE  Governed!Finish
<1>1. Effect = "started" /\ Effect' = "done"
  BY DEF IInv, Control, Starting, OnRoute, Effect
<1>2. Report = "pending" /\ Report' = "pending"
  BY DEF Report, Reporting
<1>3. UNCHANGED <<Rehearsal, Permitted>>
  BY DEF Rehearsal, Permitted, AccessGiven, ApprovalGiven
<1> QED
  BY <1>1, <1>2, <1>3 DEF Governed!Finish

(* Every step of a command is an abstract step or a stutter.               *)
LEMMA StepRefines == IInv /\ IInv' /\ [Next]_vars => [Governed!Next]_(Governed!vars)
<1> SUFFICES ASSUME IInv, IInv', [Next]_vars
             PROVE  Governed!Next \/ UNCHANGED Governed!vars
  OBVIOUS
<1>1. CASE ParseInput \/ ValidateSchema \/ CheckAccess \/ GatePasses \/ AclStep
           \/ PipelineFails \/ ModuleThrows \/ Format
  BY <1>1, SilentRefines DEF ParseInput, ValidateSchema, CheckAccess, GatePasses,
    AfterGate, AclStep, PipelineFails, ModuleThrows, Format, Goto, Throw, Over
<1>2. CASE RejectInput \/ Preflight \/ ExecPreflight
  <2>1. pc \notin Over /\ UNCHANGED <<call, route, consent, ran, ended>>
    BY <1>2 DEF RejectInput, Preflight, ExecPreflight, Over
  <2>2. pc' \in Over \/ pc' \notin Over
    OBVIOUS
  <2> QED
    BY <2>1, <2>2, SilentRefines, ReportRefines DEF Governed!Next
<1>3. CASE RecordSuccess \/ Fail \/ Interrupt
  BY <1>3, ReportRefines DEF RecordSuccess, Fail, Interrupt, Exit, Over, Governed!Next
<1>4. CASE GateAsks \/ ApprovalStep
  <2>1. consent \subseteq consent' /\ UNCHANGED <<call, route, ran, ended>>
    BY <1>4 DEF GateAsks, ApprovalStep
  <2>2. pc \notin Over /\ pc' \notin Over /\ ran = "no"
    BY <1>4 DEF GateAsks, ApprovalStep, AfterGate, Goto, Throw, Over, IInv, Control,
      Starting, BeforeRoute
  <2> QED
    BY <2>1, <2>2, ConsentGrows, PermitRefines DEF Governed!Next
<1>5. CASE TakeRoute
  <2>1. pc \notin Over /\ pc' \notin Over /\ ran = "no" /\ UNCHANGED <<call, ran, ended>>
    BY <1>5 DEF TakeRoute, Goto, Throw, Over, IInv, Control, Starting, BeforeRoute
  <2>2. ~Permitted
    BY <1>5 DEF TakeRoute, IInv, Control, Starting, BeforeRoute, Permitted
  <2> QED
    BY <2>1, <2>2, PermitRefines DEF Governed!Next
<1>6. CASE ModuleStarts \/ ChildStarts
  BY <1>6, BeginRefines DEF ModuleStarts, ChildStarts, Governed!Next
<1>7. CASE ModuleReturns
  BY <1>7, FinishRefines DEF ModuleReturns, Goto, Reporting, Governed!Next
<1>8. CASE ChildAnswers
  <2>1. CASE ended' /\ ran = "child" /\ pc' = "print"
    BY <1>8, <2>1, FinishRefines DEF ChildAnswers, Reporting, Governed!Next
  <2>2. CASE pc' = "failing" /\ UNCHANGED ended
    BY <1>8, <2>2, SilentRefines DEF ChildAnswers, Over
  <2> QED
    BY <1>8, <2>1, <2>2 DEF ChildAnswers, Goto, Throw
<1>9. CASE UNCHANGED vars
  <2>1. UNCHANGED Report
    BY <1>9 DEF vars, Report
  <2> QED
    BY <1>9, <2>1, QuietSteps DEF vars, Governed!vars
<1> QED
  BY <1>1, <1>2, <1>3, <1>4, <1>5, <1>6, <1>7, <1>8, <1>9 DEF Next, Read, Proceed

(* An initial state is an abstract initial state.                          *)
LEMMA InitRefines == Init => Governed!Init
<1> SUFFICES ASSUME Init PROVE Governed!Init
  OBVIOUS
<1>1. Effect = "none" /\ Report = "pending" /\ Permitted = FALSE
  BY DEF Init, Effect, Report, Permitted
<1>2. Rehearsal \in BOOLEAN
  BY DEF Rehearsal
<1> QED
  BY CallFacts, <1>1, <1>2 DEF Init, Governed!Init

(* Every command line, under every configuration, is a governed call.      *)
THEOREM RefinementTheorem == Spec => ImplementsGovernedCall
<1>1. Spec => Governed!Init /\ [][Governed!Next]_(Governed!vars)
  BY Invariance, InitRefines, StepRefines, PTL DEF Spec
<1> QED
  BY <1>1 DEF ImplementsGovernedCall, Governed!Spec

-----------------------------------------------------------------------------
(* A rehearsal names no strategy, so that the ACL the CLI attached governs *)
(* it on every route.                                                      *)
LEMMA RehearsalIsJudged ==
  ASSUME NEW c \in Calls, c.dryRun \/ c.command = "validate", Held(c)
  PROVE  Judged(c)
<1>1. c.strategy = NoStrategy
  BY DEF Calls
<1>2. c.strategy \notin Bypassing
  BY <1>1, InvocationAssumption
<1> QED
  BY <1>2 DEF Judged, Gated

(* A step that hands nothing to the audit log leaves the trail alone.      *)
LEMMA TrailQuiet ==
  ASSUME UNCHANGED <<call, decisions, records>>
  PROVE  UNCHANGED Trail!vars
BY DEF Trail!vars, Decided, Outcome

(* What the ACL decides about a call it governs, while nothing is recorded *)
(* and nothing denied, is an abstract decision.                            *)
LEMMA TrailDecides ==
  ASSUME records = <<>>, "deny" \notin Decided, Judged(call),
         UNCHANGED <<call, records>>,
         NEW verdict \in {"allow", "deny"}, Decided' = Decided \cup {verdict}
  PROVE  Trail!Next
<1>1. Trail!Decide(verdict)
  BY DEF Trail!Decide, Outcome
<1> QED
  BY <1>1 DEF Trail!Next, Trail!Verdicts

(* One step of the audit callback: an abstract decision, or none.          *)
LEMMA TrailAnswers ==
  ASSUME IInv, records = <<>>, "deny" \notin Decided, UNCHANGED <<call, records>>,
         NEW judged \in BOOLEAN, NEW access, Decide(judged, access),
         judged => Judged(call)
  PROVE  Trail!Next \/ UNCHANGED Trail!vars
<1>1. decisions \in Seq({"allow", "deny"})
  BY DEF IInv, TypeOK
<1>2. CASE judged
  <2> DEFINE verdict == IF access = "deny" THEN "deny" ELSE "allow"
  <2>1. Decided' = Decided \cup {verdict} /\ verdict \in {"allow", "deny"}
    BY <1>1, <1>2, DecideFacts
  <2> HIDE DEF verdict
  <2> QED
    BY <1>2, <2>1, TrailDecides
<1>3. CASE ~judged
  BY <1>1, <1>3, DecideFacts, TrailQuiet
<1> QED
  BY <1>2, <1>3

(* The record of the run, if the command keeps one, is the abstract record.*)
LEMMA TrailRecords ==
  ASSUME records = <<>>, UNCHANGED <<call, decisions>>,
         NEW status \in {"success", "error"}, NEW code, Append1(status, code),
         status = "success" =>
           "deny" \notin Decided /\ (Judged(call) => "allow" \in Decided)
  PROVE  Trail!Next \/ UNCHANGED Trail!vars
<1>1. CASE ~Audited(call)
  BY <1>1, TrailQuiet DEF Append1
<1>2. CASE Audited(call)
  <2>1. records' = <<[status |-> status, code |-> code]>>
    BY <1>2 DEF Append1
  <2>2. Outcome = "none" /\ Outcome' = status
    BY <2>1 DEF Outcome
  <2>3. UNCHANGED <<Judged(call), Decided>>
    BY DEF Decided
  <2>4. Trail!Record(status)
    BY <2>2, <2>3 DEF Trail!Record, Outcome
  <2> QED
    BY <2>4 DEF Trail!Next
<1> QED
  BY <1>1, <1>2

(* Every step of a command is a step of the trail or leaves it alone.      *)
LEMMA TrailStep == IInv /\ [Next]_vars => [Trail!Next]_(Trail!vars)
<1> SUFFICES ASSUME IInv, [Next]_vars
             PROVE  Trail!Next \/ UNCHANGED Trail!vars
  OBVIOUS
<1>1. CASE \/ ParseInput \/ RejectInput \/ ValidateSchema \/ GatePasses \/ GateAsks
           \/ ApprovalStep \/ PipelineFails \/ ModuleStarts \/ ChildStarts
           \/ ChildAnswers \/ ModuleReturns \/ ModuleThrows \/ Format \/ Interrupt
           \/ UNCHANGED vars
  <2>1. UNCHANGED <<call, decisions, records>>
    BY <1>1 DEF ParseInput, RejectInput, ValidateSchema, GatePasses, GateAsks,
      ApprovalStep, PipelineFails, ModuleStarts, ChildStarts, ChildAnswers,
      ModuleReturns, ModuleThrows, Format, Interrupt, vars
  <2> QED
    BY <2>1, TrailQuiet
<1>2. CASE Preflight \/ ExecPreflight
  <2>1. pc = "preflight" /\ PreflightDecides /\ UNCHANGED <<call, records>>
    BY <1>2 DEF Preflight, ExecPreflight
  <2>2. records = <<>> /\ "deny" \notin Decided
    BY <2>1 DEF IInv, Reports, Reported, Deciding, Over
  <2>3. Held(call) => Judged(call)
    BY <2>1, RehearsalIsJudged DEF IInv, TypeOK, Control, Rehearsing
  <2>4. decisions \in Seq({"allow", "deny"})
    BY DEF IInv, TypeOK
  <2>5. CASE decisions' = decisions
    BY <2>1, <2>5, TrailQuiet
  <2>6. CASE decisions' # decisions
    BY <2>1, <2>2, <2>3, <2>4, <2>6, PreflightFacts, TrailDecides
  <2> QED
    BY <2>5, <2>6
<1>3. CASE CheckAccess
  <2>1. records = <<>> /\ "deny" \notin Decided
    BY <1>3 DEF CheckAccess, IInv, Reports, Reported, Deciding, Over
  <2> DEFINE asked == call.sandbox /\ Held(call)
  <2>2. Decide(asked, DelegatedAccess(call)) /\ asked \in BOOLEAN
    BY <1>3 DEF CheckAccess
  <2>3. asked => Judged(call)
    BY DEF Judged
  <2> HIDE DEF asked
  <2> QED
    BY <1>3, <2>1, <2>2, <2>3, TrailAnswers DEF CheckAccess
<1>4. CASE TakeRoute
  <2>1. records = <<>> /\ "deny" \notin Decided
    BY <1>4 DEF TakeRoute, IInv, Reports, Reported, Deciding, Over
  <2> DEFINE asked == route' = "child" /\ Held(call)
  <2>2. Decide(asked, DelegatedAccess(call)) /\ asked \in BOOLEAN
    BY <1>4 DEF TakeRoute
  <2>3. asked => Judged(call)
    BY <1>4, RouteFacts DEF TakeRoute, Judged, IInv, TypeOK
  <2> HIDE DEF asked
  <2> QED
    BY <1>4, <2>1, <2>2, <2>3, TrailAnswers DEF TakeRoute
<1>5. CASE AclStep
  <2>1. records = <<>> /\ "deny" \notin Decided
    BY <1>5 DEF AclStep, IInv, Reports, Reported, Deciding, Over
  <2> DEFINE asked == Held(call) /\ Gated(call, route)
             access == Access(call, Presented(call, route))
  <2>2. Decide(asked, access) /\ asked \in BOOLEAN
    BY <1>5 DEF AclStep
  <2>3. asked => Judged(call)
    BY <1>5 DEF AclStep, Judged, IInv, Deciding, Gates, RouteCleared
  <2> HIDE DEF asked, access
  <2> QED
    BY <1>5, <2>1, <2>2, <2>3, TrailAnswers DEF AclStep
<1>6. CASE RecordSuccess
  BY <1>6, TrailRecords DEF RecordSuccess, IInv, Reports, Reported, Deciding, Over,
    Reporting
<1>7. CASE Fail
  BY <1>7, TrailRecords DEF Fail, IInv, Reports, Reported, Over
<1> QED
  BY <1>1, <1>2, <1>3, <1>4, <1>5, <1>6, <1>7 DEF Next, Read, Proceed

(* Whatever the rules and the strategies: what a command line hands to the *)
(* audit log is one trail, and its success is one the CLI's ACL allowed.   *)
THEOREM TrailTheorem == Spec => ImplementsAuditTrail
<1>1. Init => Trail!Init
  <2> SUFFICES ASSUME Init PROVE Trail!Init
    OBVIOUS
  <2>1. Decided = {} /\ Outcome = "none"
    BY DEF Init, Decided, Outcome
  <2>2. Judged(call) \in BOOLEAN
    BY HeldFacts DEF Init, Judged
  <2> QED
    BY <2>1, <2>2 DEF Trail!Init, Trail!Verdicts, Outcome
<1>2. Spec => Trail!Init /\ [][Trail!Next]_(Trail!vars)
  BY <1>1, Invariance, TrailStep, PTL DEF Spec
<1> QED
  BY <1>2 DEF ImplementsAuditTrail, Trail!Spec

-----------------------------------------------------------------------------
(* How far a command is from its end, and whether its module can yet start.*)
Distance ==
  CASE pc = "parse" -> 10
    [] pc = "schema" -> 9
    [] pc = "access" -> 8
    [] pc = "gate" -> 7
    [] pc \in {"preflight", "route"} -> 6
    [] pc = "acl" -> 5
    [] pc = "approval" -> 4
    [] pc \in {"running", "child"} -> 3
    [] pc = "print" -> 2
    [] pc \in {"record", "failing"} -> 1
    [] pc \in Over -> 0

Rank == 2 * Distance + (IF ran = "no" THEN 1 ELSE 0)

(* Every step either goes on to a place nearer to the end or starts the    *)
(* module, which is done once.                                             *)
LEMMA StepGoesOn ==
  ASSUME IInv, Next
  PROVE  \/ Distance' < Distance
         \/ Distance' = Distance /\ ran = "no" /\ ran' # "no"
<1> USE DEF Distance, Over
<1>1. CASE ParseInput \/ RejectInput
  BY <1>1 DEF ParseInput, RejectInput, Goto, Throw, Exit
<1>2. CASE Preflight \/ ExecPreflight \/ ValidateSchema
  BY <1>2 DEF Preflight, ExecPreflight, ValidateSchema, Goto, Throw, Exit
<1>3. CASE CheckAccess \/ GatePasses \/ GateAsks
  BY <1>3 DEF CheckAccess, GatePasses, GateAsks, AfterGate, Goto, Throw
<1>4. CASE TakeRoute
  BY <1>4 DEF TakeRoute, Goto, Throw
<1>5. CASE AclStep \/ ApprovalStep \/ PipelineFails
  BY <1>5 DEF AclStep, ApprovalStep, PipelineFails, Goto, Throw
<1>6. CASE ModuleStarts \/ ChildStarts
  <2>1. UNCHANGED pc /\ ran = "no" /\ ran' # "no"
    BY <1>6 DEF ModuleStarts, ChildStarts
  <2> QED
    BY <2>1
<1>7. CASE ChildAnswers \/ ModuleReturns \/ ModuleThrows
  BY <1>7 DEF ChildAnswers, ModuleReturns, ModuleThrows, Goto, Throw
<1>8. CASE Format \/ RecordSuccess \/ Fail
  BY <1>8 DEF Format, RecordSuccess, Fail, Goto, Throw, Exit
<1>9. CASE Interrupt
  <2>1. Distance > 0
    BY <1>9 DEF Interrupt, IInv, TypeOK, Steps
  <2>2. Distance' = 0
    BY <1>9 DEF Interrupt
  <2> QED
    BY <1>9, <2>1, <2>2 DEF Interrupt
<1> QED
  BY <1>1, <1>2, <1>3, <1>4, <1>5, <1>6, <1>7, <1>8, <1>9 DEF Next, Read, Proceed

(* Every step of a command brings a number between 0 and 21 down: no       *)
(* command line takes more steps than that, in whatever order the gates,   *)
(* the child and a kill come. (That the steps owed are taken is fairness.) *)
THEOREM EndTheorem == Spec => [](Rank \in 0..21) /\ [][Rank' < Rank]_vars
<1>1. IInv => Rank \in 0..21
  <2> SUFFICES ASSUME IInv PROVE Rank \in 0..21
    OBVIOUS
  <2>1. Distance \in 0..10
    BY DEF IInv, TypeOK, Steps, Distance, Over
  <2> QED
    BY <2>1 DEF Rank
<1>2. IInv /\ IInv' /\ [Next]_vars => [Rank' < Rank]_vars
  <2> SUFFICES ASSUME IInv, IInv', Next PROVE Rank' < Rank
    OBVIOUS
  <2>1. Distance \in 0..10 /\ Distance' \in 0..10
    BY DEF IInv, TypeOK, Steps, Distance, Over
  <2> DEFINE waits == IF ran = "no" THEN 1 ELSE 0
  <2>2. \A d, e \in 0..10 : \A v, w \in 0..1 :
          e < d \/ (e = d /\ w < v) => 2 * e + w < 2 * d + v
    OBVIOUS
  <2>3. /\ waits \in 0..1 /\ waits' \in 0..1
        /\ ran = "no" /\ ran' # "no" => waits' < waits
    OBVIOUS
  <2>4. Rank = 2 * Distance + waits /\ Rank' = 2 * Distance' + waits'
    BY Zenon DEF Rank
  <2>5. Distance' < Distance \/ (Distance' = Distance /\ waits' < waits)
    BY <2>3, StepGoesOn
  <2> HIDE DEF waits
  <2> QED
    BY <2>1, <2>2, <2>3, <2>4, <2>5, Zenon
<1> QED
  BY <1>1, <1>2, Invariance, PTL DEF Spec
=============================================================================
