--------------------------- MODULE ApprovalPrompt ---------------------------
(***************************************************************************)
(* One pass through the approval gate of src/approval.ts: the guards of    *)
(* checkApproval and of CliApprovalHandler.requestApproval, and the race   *)
(* of promptWithTimeout between a line typed at the terminal, the timer    *)
(* and the terminal being closed under the prompt.                         *)
(*                                                                         *)
(* The answer callback, the promise continuation it triggers and the       *)
(* `finally` are one action: Node drains the microtasks of a callback      *)
(* before it runs the next one. The line sits in the terminal between the  *)
(* moment it is typed and the moment the event loop reads it, and the      *)
(* timer may run first.                                                    *)
(***************************************************************************)
EXTENDS Integers

CONSTANTS
  MaxTimeout,      \* 3600 in the code: the upper end of the clamp, in seconds
  DefaultTimeout,  \* 60 in the code
  Absent, NaN,     \* an option that was not given; what parseInt("x") returns
  FlagTimeouts,    \* parsed values of --approval-timeout
  EnvTimeouts,     \* parsed values of APCORE_CLI_APPROVAL_TIMEOUT
  Horizon          \* bound: the clock stops here

ASSUME TimeoutAssumption ==
  /\ MaxTimeout \in Nat /\ DefaultTimeout \in 1..MaxTimeout
  /\ Horizon \in Nat /\ Horizon >= MaxTimeout
  /\ Absent \notin Int /\ NaN \notin Int /\ Absent # NaN
  /\ FlagTimeouts \subseteq Int \cup {Absent, NaN}
  /\ EnvTimeouts \subseteq Int \cup {Absent, NaN}

(* Who asks: a module command (main.ts), `apcli exec`, a mutating system   *)
(* command, or the executor through CliApprovalHandler.                    *)
Entries == {"command", "exec", "system", "handler"}

(* The inputs of one pass. `field` is ModuleDescriptor.requiresApproval,   *)
(* `annotation` the annotation of that name, `acl` the requirement of the  *)
(* matching ACL rule, `free` a handler request that declares it needs no   *)
(* approval, `rawTerminal` whether readline owns Ctrl-C (stderr is a TTY). *)
Calls ==
  { c \in [ entry : Entries, field : {"unset", "yes", "no"}, annotation : BOOLEAN,
            acl : BOOLEAN, free : BOOLEAN, yes : BOOLEAN,
            autoEnv : {"unset", "one", "other"},
            flag : FlagTimeouts, env : EnvTimeouts,
            tty : BOOLEAN, rawTerminal : BOOLEAN ] :
      /\ c.entry = "system" =>
           /\ c.field = "unset" /\ c.annotation /\ ~c.acl /\ c.flag = Absent
      /\ c.entry = "handler" =>
           /\ c.field = "unset" /\ ~c.annotation /\ ~c.acl /\ c.flag = Absent
           /\ ~c.yes
      /\ c.entry # "handler" => ~c.free
      /\ c.rawTerminal => c.tty }

Phases == {"gate", "asking", "granted", "denied", "timedOut", "killed"}
Settled == {"granted", "denied", "timedOut", "killed"}

VARIABLES
  call,      \* the inputs, fixed for the pass
  phase,     \* where the pass is
  rl,        \* the readline interface: "none", "open", "closed"
  timer,     \* setTimeout's handle: "none", "armed", "fired", "cleared"
  clock,     \* seconds since the prompt opened
  typed,     \* the line waiting in the terminal: "none", "yes", "other"
  ctrlC      \* the user pressed Ctrl-C at the prompt

vars == <<call, phase, rl, timer, clock, typed, ctrlC>>

-----------------------------------------------------------------------------
(* The guards.                                                             *)

(* Variant with a bug: the field, when present, overrules the ACL as well.  *)
RequiredFieldFirst(c) ==
  IF c.entry = "handler" THEN ~c.free
  ELSE IF c.field # "unset" THEN c.field = "yes" ELSE c.annotation \/ c.acl

(* checkApproval composes the module's own requirement with the ACL's;     *)
(* requestApproval treats everything that is not declared free as required.*)
Required(c) ==
  IF c.entry = "handler"
    THEN ~c.free
    ELSE \/ IF c.field # "unset" THEN c.field = "yes" ELSE c.annotation
         \/ c.acl

Bypassed(c) == c.yes \/ c.autoEnv = "one"

Exempt(c) == ~Required(c) \/ Bypassed(c)

-----------------------------------------------------------------------------
(* The timeout.                                                            *)

Positive(t) == t \in Int /\ t > 0

(* readTimeoutFromEnv, followed by the `?? 60` of its callers.             *)
EnvOrDefault(env) == IF Positive(env) THEN env ELSE DefaultTimeout

(* Variant with a bug: the environment wins over the flag.                 *)
EffectiveTimeoutEnvFirst(c) ==
  IF Positive(c.env) THEN c.env
  ELSE IF c.flag # Absent THEN c.flag ELSE DefaultTimeout

(* main.ts filters the flag through resolveIntOption; exec passes it on as *)
(* commander's parseInt produced it, so `??` lets a NaN through.           *)
EffectiveTimeout(c) ==
  IF c.entry = "command"
    THEN IF Positive(c.flag) THEN c.flag ELSE EnvOrDefault(c.env)
    ELSE IF c.flag # Absent THEN c.flag ELSE EnvOrDefault(c.env)

(* Math.max(1, Math.min(t, 3600)), which keeps NaN.                        *)
ClampTimeout(t) ==
  IF t = NaN THEN NaN
  ELSE IF t > MaxTimeout THEN MaxTimeout
  ELSE IF t < 1 THEN 1 ELSE t

(* setTimeout turns NaN milliseconds into 1: no whole second at all.       *)
Deadline(c) ==
  LET t == ClampTimeout(EffectiveTimeout(c)) IN IF t = NaN THEN 0 ELSE t

-----------------------------------------------------------------------------
Init ==
  /\ call \in Calls
  /\ phase = "gate"
  /\ rl = "none"
  /\ timer = "none"
  /\ clock = 0
  /\ typed = "none"
  /\ ctrlC = FALSE

PassWithoutPrompt ==
  /\ phase = "gate"
  /\ Exempt(call)
  /\ phase' = "granted"
  /\ UNCHANGED <<call, rl, timer, clock, typed, ctrlC>>

DenyWithoutTerminal ==
  /\ phase = "gate"
  /\ ~Exempt(call)
  /\ ~call.tty
  /\ phase' = "denied"
  /\ UNCHANGED <<call, rl, timer, clock, typed, ctrlC>>

OpenPrompt ==
  /\ phase = "gate"
  /\ ~Exempt(call)
  /\ call.tty
  /\ phase' = "asking"
  /\ rl' = "open"
  /\ timer' = "armed"
  /\ UNCHANGED <<call, clock, typed, ctrlC>>

(* The user finishes a line; nobody has read it yet.                       *)
TypeLine ==
  /\ phase = "asking"
  /\ rl = "open"
  /\ typed = "none"
  /\ typed' \in {"yes", "other"}
  /\ UNCHANGED <<call, phase, rl, timer, clock, ctrlC>>

(* Variant with a bug: [y/N] read as [Y/n], every line is a yes.           *)
ReadLineDefaultsToYes ==
  /\ phase = "asking" /\ rl = "open" /\ typed # "none"
  /\ phase' = "granted"
  /\ timer' = "cleared" /\ rl' = "closed"
  /\ UNCHANGED <<call, clock, typed, ctrlC>>

(* Variant with a bug: clearTimeout is missing after an answer.            *)
ReadLineKeepsTimer ==
  /\ phase = "asking" /\ rl = "open" /\ typed # "none"
  /\ phase' = IF typed = "yes" THEN "granted" ELSE "denied"
  /\ rl' = "closed"
  /\ UNCHANGED <<call, timer, clock, typed, ctrlC>>

(* rl.question's callback settles the race: the continuation clears the    *)
(* timer, judges the normalised answer, and `finally` closes the interface.*)
ReadLine ==
  /\ phase = "asking"
  /\ rl = "open"
  /\ typed # "none"
  /\ phase' = IF typed = "yes" THEN "granted" ELSE "denied"
  /\ timer' = "cleared"
  /\ rl' = "closed"
  /\ UNCHANGED <<call, clock, typed, ctrlC>>

(* Variant with a bug: closing the input also clears the timer.            *)
CloseInputClearsTimer ==
  /\ phase = "asking" /\ rl = "open" /\ typed = "none"
  /\ rl' = "closed" /\ timer' = "cleared"
  /\ UNCHANGED <<call, phase, clock, typed, ctrlC>>

(* Ctrl-D, or Ctrl-C when readline has the terminal in raw mode: with no   *)
(* SIGINT listener readline closes itself and drops the pending question,  *)
(* so the answer promise never settles and only the timer is left.         *)
CloseInput ==
  /\ phase = "asking"
  /\ rl = "open"
  /\ typed = "none"
  /\ rl' = "closed"
  /\ ctrlC' \in (IF call.rawTerminal THEN BOOLEAN ELSE {FALSE})
  /\ UNCHANGED <<call, phase, timer, clock, typed>>

(* Ctrl-C when the terminal delivers SIGINT itself: no handler is          *)
(* installed anywhere, so the process dies.                                *)
Kill ==
  /\ phase = "asking"
  /\ ~call.rawTerminal
  /\ phase' = "killed"
  /\ ctrlC' = TRUE
  /\ rl' = "closed"
  /\ timer' = "cleared"
  /\ UNCHANGED <<call, clock, typed>>

(* Variant with a bug: the timer resolves the race instead of rejecting.   *)
TimerResolves ==
  /\ phase = "asking" /\ timer = "armed" /\ clock >= Deadline(call)
  /\ phase' = "granted" /\ timer' = "fired" /\ rl' = "closed"
  /\ UNCHANGED <<call, clock, typed, ctrlC>>

(* The timer rejects the race; catch and finally tidy up. The event loop   *)
(* may run it later than the deadline, never earlier.                      *)
TimerFires ==
  /\ phase = "asking"
  /\ timer = "armed"
  /\ clock >= Deadline(call)
  /\ phase' = "timedOut"
  /\ timer' = "fired"
  /\ rl' = "closed"
  /\ UNCHANGED <<call, clock, typed, ctrlC>>

Tick ==
  /\ phase = "asking"
  /\ clock < Horizon
  /\ clock' = clock + 1
  /\ UNCHANGED <<call, phase, rl, timer, typed, ctrlC>>

(* The gate's guards run to completion; they are one synchronous prefix.   *)
Gate == PassWithoutPrompt \/ DenyWithoutTerminal \/ OpenPrompt

Next ==
  \/ Gate
  \/ TypeLine \/ ReadLine \/ CloseInput \/ Kill
  \/ TimerFires \/ Tick

(* Time passes and the event loop runs what is due; the user owes nothing. *)
Fairness ==
  /\ WF_vars(Gate)
  /\ WF_vars(Tick)
  /\ WF_vars(TimerFires)

Spec == Init /\ [][Next]_vars /\ Fairness

-----------------------------------------------------------------------------
TypeOK ==
  /\ call \in Calls
  /\ phase \in Phases
  /\ rl \in {"none", "open", "closed"}
  /\ timer \in {"none", "armed", "fired", "cleared"}
  /\ clock \in 0..Horizon
  /\ typed \in {"none", "yes", "other"}
  /\ ctrlC \in BOOLEAN

(* Nobody is let through without a reason: whatever the order in which the *)
(* line, the timer and the closing terminal reach promptWithTimeout, a     *)
(* call that needs a human is granted only after that human typed yes      *)
(* while the timer had not yet ended the wait.                             *)
GrantNeedsConsent ==
  phase = "granted" /\ ~Exempt(call) => typed = "yes" /\ timer # "fired"

(* When the gate returns or throws it leaves nothing behind: an armed      *)
(* timer would keep the process alive for up to an hour after the command  *)
(* finished, an open readline would keep stdin from the next reader.       *)
NothingHeldAfterSettling ==
  phase \in Settled => timer # "armed" /\ rl # "open"

(* The user gets the time that was asked for: whoever asks, a prompt with  *)
(* a usable or absent --approval-timeout is never abandoned before that    *)
(* flag's seconds, or the environment's, or the default, up to the clamp.  *)
UsableTimeoutHonoured ==
  LET wanted == IF Positive(call.flag) THEN call.flag ELSE EnvOrDefault(call.env)
  IN  phase = "timedOut" /\ (Positive(call.flag) \/ call.flag = Absent) =>
        clock >= (IF wanted > MaxTimeout THEN MaxTimeout ELSE wanted)

(* A prompt that has opened is always settled, also when the terminal is   *)
(* closed under it and the answer can no longer arrive.                    *)
PromptSettles == phase = "asking" ~> phase \in Settled

-----------------------------------------------------------------------------
(* The gate implements ApprovalDecision.                                   *)

Decision == INSTANCE ApprovalDecision WITH
  exempt   <- Exempt(call),
  consent  <- typed = "yes",
  decision <- IF phase = "granted" THEN "granted"
              ELSE IF phase \in {"denied", "timedOut", "killed"} THEN "refused"
              ELSE "pending"

(* Every pass through the gate is one the abstract decision allows: no     *)
(* grant without consent, no refusal of an exempt call, no second verdict, *)
(* and always a verdict in the end.                                        *)
ImplementsDecision == Decision!Spec

=============================================================================
