------------------------ MODULE ApprovalPromptProofs ------------------------
(***************************************************************************)
(* Proofs about ApprovalPrompt, for every clamp, default, horizon and set  *)
(* of option values. The inductive invariant ties the three resources of   *)
(* promptWithTimeout together: the timer is armed exactly while the prompt *)
(* is asking, readline is open only then, and each verdict carries the     *)
(* evidence it was taken on.                                               *)
(***************************************************************************)
EXTENDS PromptInCommand, Sequences, TLAPS

IInv ==
  /\ TypeOK
  /\ phase = "asking" <=> timer = "armed"
  /\ phase = "gate" => typed = "none"
  /\ phase = "asking" => call.tty
  /\ rl = "open" => phase = "asking"
  /\ phase \in {"asking", "denied", "timedOut", "killed"} => ~Exempt(call)
  /\ phase = "granted" /\ ~Exempt(call) => typed = "yes" /\ timer # "fired"
  /\ phase = "timedOut" => clock >= Deadline(call)

-----------------------------------------------------------------------------
(* The timer never runs before the clamped number of seconds of whoever    *)
(* asked, and that number is in 1..MaxTimeout unless it does not parse.    *)
LEMMA DeadlineInRange ==
  ASSUME NEW c \in Calls
  PROVE  /\ Deadline(c) \in Nat
         /\ EffectiveTimeout(c) # NaN => Deadline(c) \in 1..MaxTimeout
<1>1. c.flag \in FlagTimeouts /\ c.env \in EnvTimeouts
  BY DEF Calls
<1>2. EnvOrDefault(c.env) \in Int
  BY TimeoutAssumption DEF EnvOrDefault, Positive
<1>3. c.flag \in Int \cup {Absent, NaN}
  BY <1>1, TimeoutAssumption
<1>4. EffectiveTimeout(c) \in Int \cup {NaN}
  BY <1>2, <1>3 DEF EffectiveTimeout, Positive
<1>. QED
  BY <1>4, TimeoutAssumption DEF Deadline, ClampTimeout

(* A usable or absent flag is honoured: the deadline is then the number of *)
(* seconds asked for, cut at MaxTimeout.                                   *)
LEMMA DeadlineIsWanted ==
  ASSUME NEW c \in Calls, Positive(c.flag) \/ c.flag = Absent
  PROVE  LET wanted == IF Positive(c.flag) THEN c.flag ELSE EnvOrDefault(c.env)
         IN  Deadline(c) = IF wanted > MaxTimeout THEN MaxTimeout ELSE wanted
<1>1. c.flag \in FlagTimeouts /\ c.env \in EnvTimeouts
  BY DEF Calls
<1>2. EffectiveTimeout(c) =
        IF Positive(c.flag) THEN c.flag ELSE EnvOrDefault(c.env)
  BY <1>1, TimeoutAssumption DEF EffectiveTimeout, Positive
<1>3. EffectiveTimeout(c) \in Int /\ EffectiveTimeout(c) > 0
  BY <1>1, <1>2, TimeoutAssumption DEF EnvOrDefault, Positive
<1>. QED
  BY <1>2, <1>3, TimeoutAssumption DEF Deadline, ClampTimeout

-----------------------------------------------------------------------------
LEMMA InitIInv == Init => IInv
<1> SUFFICES ASSUME Init PROVE IInv
  OBVIOUS
<1>1. clock \in 0..Horizon
  BY TimeoutAssumption DEF Init
<1>2. TypeOK
  BY <1>1 DEF Init, TypeOK, Phases
<1>. QED
  BY <1>2 DEF Init, IInv

LEMMA NextIInv == IInv /\ [Next]_vars => IInv'
<1> SUFFICES ASSUME IInv, [Next]_vars PROVE IInv'
  OBVIOUS
<1> USE DEF IInv, TypeOK, Phases
<1>1. CASE PassWithoutPrompt
  BY <1>1 DEF PassWithoutPrompt
<1>2. CASE DenyWithoutTerminal
  BY <1>2 DEF DenyWithoutTerminal
<1>3. CASE OpenPrompt
  BY <1>3 DEF OpenPrompt
<1>4. CASE TypeLine
  BY <1>4 DEF TypeLine
<1>5. CASE ReadLine
  BY <1>5 DEF ReadLine
<1>6. CASE CloseInput
  BY <1>6 DEF CloseInput
<1>7. CASE Kill
  BY <1>7 DEF Kill
<1>8. CASE TimerFires
  BY <1>8 DEF TimerFires
<1>9. CASE Tick
  <2>1. clock' \in 0..Horizon
    BY <1>9, TimeoutAssumption DEF Tick
  <2>. QED
    BY <1>9, <2>1 DEF Tick
<1>10. CASE UNCHANGED vars
  BY <1>10 DEF vars
<1>. QED
  BY <1>1, <1>2, <1>3, <1>4, <1>5, <1>6, <1>7, <1>8, <1>9, <1>10 DEF Next, Gate

LEMMA Invariance == Spec => []IInv
  BY InitIInv, NextIInv, PTL DEF Spec

-----------------------------------------------------------------------------
(* Every variable keeps its type.                                          *)
THEOREM TypeCorrect == Spec => []TypeOK
  BY Invariance, PTL DEF IInv

(* No grant without a human's yes, unless the call was exempt.             *)
THEOREM ConsentTheorem == Spec => []GrantNeedsConsent
<1>1. IInv => GrantNeedsConsent
  BY DEF IInv, GrantNeedsConsent
<1>. QED
  BY <1>1, Invariance, PTL

(* The gate leaves neither a timer nor a readline interface behind.        *)
THEOREM ReleaseTheorem == Spec => []NothingHeldAfterSettling
<1>1. IInv => NothingHeldAfterSettling
  BY DEF IInv, NothingHeldAfterSettling, Settled
<1>. QED
  BY <1>1, Invariance, PTL

(* A usable timeout is never cut short, for every value of the options.    *)
THEOREM TimeoutTheorem == Spec => []UsableTimeoutHonoured
<1>1. IInv => UsableTimeoutHonoured
  BY DeadlineIsWanted DEF IInv, TypeOK, UsableTimeoutHonoured
<1>. QED
  BY <1>1, Invariance, PTL

(* An open prompt is never stuck: its timer is armed, and it is due or     *)
(* time can still pass. Of PromptSettles this leaves to fairness only that *)
(* time does pass and that a timer which is due is run.                    *)
SomethingIsDue ==
  phase = "asking" => timer = "armed" /\ (clock >= Deadline(call) \/ clock < Horizon)

(* For every option value an open prompt still has its timer to end it.    *)
THEOREM NeverStuck == Spec => []SomethingIsDue
<1>1. IInv => SomethingIsDue
  <2> SUFFICES ASSUME IInv, phase = "asking"
               PROVE  timer = "armed" /\ (clock >= Deadline(call) \/ clock < Horizon)
    BY DEF SomethingIsDue
  <2>1. Deadline(call) \in Nat /\ Deadline(call) <= MaxTimeout
    BY DeadlineInRange, TimeoutAssumption DEF IInv, TypeOK, Deadline, ClampTimeout
  <2>2. clock \in Nat /\ clock <= Horizon /\ timer = "armed"
    BY DEF IInv, TypeOK
  <2> QED
    BY <2>1, <2>2, TimeoutAssumption
<1>. QED
  BY <1>1, Invariance, PTL

-----------------------------------------------------------------------------
(* Safety part of the refinement.                                          *)

LEMMA InitRefines == Init => Decision!Init
  BY DEF Init, Decision!Init, Exempt, Required, Bypassed

LEMMA StepRefines == IInv /\ [Next]_vars => [Decision!Next]_(Decision!vars)
<1> SUFFICES ASSUME IInv, [Next]_vars PROVE [Decision!Next]_(Decision!vars)
  OBVIOUS
<1> USE DEF IInv, Decision!Next, Decision!vars
<1>1. CASE PassWithoutPrompt
  BY <1>1 DEF PassWithoutPrompt, Decision!Grant
<1>2. CASE DenyWithoutTerminal
  BY <1>2 DEF DenyWithoutTerminal, Decision!Refuse
<1>3. CASE OpenPrompt
  BY <1>3 DEF OpenPrompt
<1>4. CASE TypeLine
  BY <1>4 DEF TypeLine, Decision!Consent
<1>5. CASE ReadLine
  BY <1>5 DEF ReadLine, Decision!Grant, Decision!Refuse
<1>6. CASE CloseInput
  BY <1>6 DEF CloseInput
<1>7. CASE Kill
  BY <1>7 DEF Kill, Decision!Refuse
<1>8. CASE TimerFires
  BY <1>8 DEF TimerFires, Decision!Refuse
<1>9. CASE Tick
  BY <1>9 DEF Tick
<1>10. CASE UNCHANGED vars
  BY <1>10 DEF vars
<1>. QED
  BY <1>1, <1>2, <1>3, <1>4, <1>5, <1>6, <1>7, <1>8, <1>9, <1>10 DEF Next, Gate

(* Every behaviour of the prompt is, step by step, one ApprovalDecision    *)
(* allows. (That a verdict is always reached is checked by TLC.)           *)
THEOREM RefinementTheorem ==
  Spec => Decision!Init /\ [][Decision!Next]_(Decision!vars)
  BY InitRefines, StepRefines, Invariance, PTL DEF Spec

-----------------------------------------------------------------------------
(* The prompt as a part of the command.                                    *)

(* Every pass through the gate has a command line that leads to it.        *)
LEMMA SurroundingsAreACall ==
  ASSUME call \in Calls
  PROVE  Surroundings \in Command!Calls
<1> DEFINE asks == [held |-> TRUE, rule |-> [who \in {"nobody"} |-> "ask"]]
           acl == IF call.acl THEN asks ELSE NoAcl
<1>1. /\ call.entry \in Entries /\ call.acl \in BOOLEAN /\ call.tty \in BOOLEAN
      /\ call.entry = "system" => ~call.acl /\ call.field = "unset" /\ call.annotation
      /\ call.entry = "handler" => ~call.acl
      /\ call.yes \in BOOLEAN
  BY DEF Calls
<1>2. asks \in [held : BOOLEAN, rule : RulesHere]
  BY DEF RulesHere
<1>3. /\ acl \in [held : BOOLEAN, rule : RulesHere] \cup {NoAcl}
      /\ acl = NoAcl <=> ~call.acl
  BY <1>1, <1>2, NoAclAssumption
<1> QED
  BY <1>1, <1>2, <1>3 DEF Surroundings, Bypassed, ByHandler, Entries,
    Command!Calls, Command!Commands, Command!Callers

(* The command is somewhere it can be.                                     *)
LEMMA PlaceIsInCommand == IInv => Command!TypeOK
<1> SUFFICES ASSUME IInv PROVE Command!TypeOK
  OBVIOUS
<1>1. Surroundings \in Command!Calls
  BY SurroundingsAreACall DEF IInv, TypeOK
<1>2. Place \in Command!Steps
  BY DEF Place, Command!Steps
<1>3. call.acl \in BOOLEAN
  BY DEF IInv, TypeOK, Calls
<1>4. CASE call.acl
  <2>1. <<"allow">> \in Seq({"allow", "deny"}) /\ Len(<<"allow">>) <= 2
    OBVIOUS
  <2> QED
    BY <1>1, <1>2, <1>4, <2>1 DEF Command!TypeOK, Command!Errors, Command!Routes,
      Command!ExitCodes
<1>5. CASE ~call.acl
  <2>1. <<>> \in Seq({"allow", "deny"}) /\ Len(<<>>) <= 2
    OBVIOUS
  <2> QED
    BY <1>1, <1>2, <1>3, <1>5, <2>1 DEF Command!TypeOK, Command!Errors,
      Command!Routes, Command!ExitCodes
<1> QED
  BY <1>3, <1>4, <1>5

(* Both models of the gate ask the same calls for the same reasons.        *)
LEMMA GuardsAgree ==
  ASSUME call \in Calls
  PROVE  /\ ~ByHandler =>
              /\ Required(call) <=> Command!ModuleRequires(Surroundings) \/ call.acl
              /\ Bypassed(call) <=> Command!SkipsGate(Surroundings)
         /\ ByHandler =>
              /\ Required(call) <=> Command!HandlerAsked(Surroundings, "direct")
              /\ Bypassed(call) <=> Command!SkipsHandler(Surroundings)
         /\ ~Bypassed(call) => Surroundings.tty = call.tty
         /\ ~Surroundings.dryRun
<1>1. /\ call.entry \in Entries /\ call.field \in {"unset", "yes", "no"}
      /\ call.entry = "system" => call.field = "unset" /\ call.annotation
      /\ call.entry = "handler" => ~call.yes /\ ~call.acl
      /\ call.yes \in BOOLEAN /\ call.tty \in BOOLEAN
  BY DEF Calls
<1>2. ByHandler => Command!Gated(Surroundings, "direct")
  BY DEF Command!Gated
<1>3. ByHandler => Command!Access(Surroundings, Command!Presented(Surroundings, "direct"))
                     = "allow"
  BY <1>1 DEF Command!Access, Surroundings, ByHandler
<1> QED
  BY <1>1, <1>2, <1>3 DEF Required, Bypassed, Surroundings, ByHandler, Entries,
    Command!ModuleRequires, Command!SkipsGate, Command!HandlerAsked,
    Command!Annotated, Command!SkipsHandler

(* A step of the prompt is a step of the command at its gate, or none.     *)
LEMMA StepIsOfCommand == IInv /\ [Next]_vars => [Command!Next]_(Command!vars)
<1> SUFFICES ASSUME IInv, [Next]_vars
             PROVE  \/ Command!GatePasses \/ Command!GateAsks
                    \/ Command!ApprovalStep \/ Command!Interrupt
                    \/ UNCHANGED Command!vars
  BY DEF Command!Next, Command!Proceed
<1>1. call \in Calls
  BY DEF IInv, TypeOK
<1>2. call' = call /\ Surroundings' = Surroundings /\ ByHandler' = ByHandler
  BY DEF Next, Gate, PassWithoutPrompt, DenyWithoutTerminal, OpenPrompt, TypeLine,
    ReadLine, CloseInput, Kill, TimerFires, Tick, vars, Surroundings, ByHandler,
    Bypassed
<1>3. CASE PassWithoutPrompt
  <2>1. CASE ByHandler
    <3>1. Command!ApprovalStep
      BY <1>1, <1>2, <1>3, <2>1, GuardsAgree DEF PassWithoutPrompt, Exempt, IInv,
        Place, Command!ApprovalStep, Command!Goto
    <3> QED
      BY <3>1
  <2>2. CASE ~ByHandler
    <3>1. Command!GatePasses
      BY <1>1, <1>2, <1>3, <2>2, GuardsAgree DEF PassWithoutPrompt, Exempt, IInv,
        Place, Command!GatePasses, Command!Goto, Command!AfterGate
    <3> QED
      BY <3>1
  <2> QED
    BY <2>1, <2>2
<1>4. ASSUME phase \in {"gate", "asking"}, phase' \in {"denied", "timedOut"},
             ~Exempt(call)
      PROVE  Command!GateAsks \/ Command!ApprovalStep
  <2>1. CASE ByHandler
    <3>1. Command!ApprovalStep
      BY <1>1, <1>2, <1>4, <2>1, GuardsAgree DEF Exempt,
        Place, Command!ApprovalStep, Command!Throw
    <3> QED
      BY <3>1
  <2>2. CASE ~ByHandler
    <3>1. Command!GateAsks
      BY <1>1, <1>2, <1>4, <2>2, GuardsAgree DEF Exempt,
        Place, Command!GateAsks, Command!Throw
    <3> QED
      BY <3>1
  <2> QED
    BY <2>1, <2>2
<1>5. ASSUME phase = "asking", phase' = phase
      PROVE  UNCHANGED Command!vars
  BY <1>2, <1>5 DEF Place, Command!vars
<1>6. CASE DenyWithoutTerminal
  BY <1>4, <1>6 DEF DenyWithoutTerminal
<1>7. CASE OpenPrompt
  BY <1>2, <1>7 DEF OpenPrompt, Place, Command!vars
<1>8. CASE TypeLine \/ CloseInput \/ Tick
  BY <1>5, <1>8 DEF TypeLine, CloseInput, Tick
<1>9. CASE ReadLine
  <2>1. ~Exempt(call)
    BY <1>9 DEF ReadLine, IInv
  <2>2. CASE typed # "yes"
    BY <1>4, <1>9, <2>1, <2>2 DEF ReadLine
  <2>3. CASE typed = "yes"
    <3>1. call.tty /\ ~Bypassed(call) /\ Required(call)
      BY <1>9, <2>1 DEF ReadLine, IInv, Exempt
    <3>2. CASE ByHandler
      <4>1. Command!ApprovalStep
        BY <1>1, <1>2, <1>9, <2>3, <3>1, <3>2, GuardsAgree DEF ReadLine,
          Place, Command!ApprovalStep, Command!Goto
      <4> QED
        BY <4>1
    <3>3. CASE ~ByHandler
      <4>1. Command!GateAsks
        BY <1>1, <1>2, <1>9, <2>3, <3>1, <3>3, GuardsAgree DEF ReadLine,
          Place, Command!GateAsks, Command!Goto, Command!AfterGate
      <4> QED
        BY <4>1
    <3> QED
      BY <3>2, <3>3
  <2> QED
    BY <2>2, <2>3
<1>10. CASE Kill
  BY <1>2, <1>10 DEF Kill, Place, Command!Interrupt
<1>11. CASE TimerFires
  <2>1. ~Exempt(call)
    BY <1>11 DEF TimerFires, IInv
  <2> QED
    BY <1>4, <1>11, <2>1 DEF TimerFires
<1>12. CASE UNCHANGED vars
  BY <1>2, <1>12 DEF vars, Place, Command!vars
<1> QED
  BY <1>3, <1>6, <1>7, <1>8, <1>9, <1>10, <1>11, <1>12 DEF Next, Gate

(* Every pass through the gate, for every clamp, default and option value, *)
(* is what Invocation takes a gate to be.                                  *)
THEOREM GateTheorem == Spec => ImplementsGate
<1>1. Spec => []IInv /\ [][Next]_vars
  BY Invariance, PTL DEF Spec
<1> QED
  BY <1>1, PlaceIsInCommand, StepIsOfCommand, PTL DEF ImplementsGate
=============================================================================
