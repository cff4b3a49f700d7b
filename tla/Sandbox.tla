------------------------------ MODULE Sandbox -------------------------------
(***************************************************************************)
(* A sandboxed call of src/security/sandbox.ts: the parent half            *)
(* (_sandboxedExecute) and the child half (runSandboxRunner), which share  *)
(* two pipes, a temporary directory and a kill signal.                     *)
(*                                                                         *)
(* The parent is a set of event callbacks (data, close, error, timer) that *)
(* Node runs one at a time in any order the operating system produces; a   *)
(* promise ignores every settlement but the first. Output is counted, not  *)
(* spelled out: `cuts` are the byte offsets of stdout that lie inside a    *)
(* multi-byte character, so that a chunk ending there decodes to garbage.  *)
(***************************************************************************)
EXTENDS Integers

CONSTANTS
  OutputCap,   \* maxOutputBytes: 64 MiB in the code, per stream
  Timeout,     \* timeoutSeconds: 300 in the code
  MaxBytes     \* bound: what a child writes to one stream at most

ASSUME SandboxAssumption ==
  OutputCap \in Nat /\ Timeout \in Nat /\ MaxBytes \in Nat

VARIABLES
  outcome,     \* the promise: "pending", "value" or the kind of its rejection
  timer,       \* "none", "armed", "fired", "cleared"
  clock,       \* seconds since the timer was set
  tmp,         \* the temporary directory: "none", "present", "removed"
  swept,       \* history: its removal has been tried "never", "early" (something
               \* of the child could still write) or "late" (nothing could)
  exceeded,    \* sizeExceeded
  kept,        \* bytes appended to the string `stdout`
  keptErr,     \* bytes appended to the string `stderr`
  garbled,     \* a kept chunk ended inside a character
  closed,      \* the child's close event has been handled
  up,          \* the parent process is still running
  child,       \* the child: see ChildPhases
  signalled,   \* SIGKILL is on its way to it
  code,        \* how it ended: "none", "zero", "nonzero", "signal"
  ran,         \* code of the extensions has been entered in the child
  heir,        \* a process the module started holds the pipes
  printed, taken,        \* bytes written to / read from the stdout pipe
  printedErr, takenErr,  \* the same for stderr
  cuts         \* offsets of stdout inside a character, fixed

parent == <<outcome, timer, clock, tmp, swept, exceeded, kept, keptErr, garbled, closed,
            up>>
process == <<child, signalled, code, ran, heir>>
pipes == <<printed, taken, printedErr, takenErr, cuts>>
vars == <<parent, process, pipes>>

(* "boot": importing apcore and reading stdin; "module": code of the       *)
(* extensions runs, at their import by registry.discover or in             *)
(* executor.call; "result": the JSON has been written, process.exit(0)     *)
(* follows.                                                                *)
ChildPhases == {"none", "unspawned", "boot", "module", "result", "dead"}
Alive == child \in {"boot", "module", "result"}

Failures == {"threw", "timeout", "overflow", "exitCode", "notJson", "spawnError"}

Init ==
  /\ outcome = "pending" /\ timer = "none" /\ clock = 0 /\ tmp = "none"
  /\ swept = "never" /\ heir = FALSE
  /\ exceeded = FALSE /\ kept = 0 /\ keptErr = 0 /\ garbled = FALSE
  /\ closed = FALSE /\ up = TRUE
  /\ child = "none" /\ signalled = FALSE /\ code = "none" /\ ran = FALSE
  /\ printed = 0 /\ taken = 0 /\ printedErr = 0 /\ takenErr = 0
  /\ cuts \in SUBSET (1..(MaxBytes - 1))

(* Variant with a bug: a callback state in place of a promise, where the   *)
(* last answer stands.                                                     *)
SettleLast(o) == outcome' = o

(* A promise keeps its first settlement.                                   *)
Settle(o) == outcome' = IF outcome = "pending" THEN o ELSE outcome

ClearTimer == timer' = IF timer = "armed" THEN "cleared" ELSE timer

(* cleanup: one rmSync whose error is swallowed. The system may refuse it  *)
(* at any time, for what the child still writes or for what it left there, *)
(* and then the directory stays.                                           *)
Cleanup ==
  /\ tmp' \in {tmp, "removed"}
  /\ swept' = IF Alive \/ heir THEN "early" ELSE "late"

-----------------------------------------------------------------------------
(* The parent: the synchronous prefix.                                     *)

(* mkdtempSync, spawn, the listeners and the timer.                        *)
Launch ==
  /\ up /\ child = "none" /\ outcome = "pending"
  /\ tmp' = "present" /\ timer' = "armed"
  /\ child' \in {"boot", "unspawned"}
  /\ UNCHANGED <<outcome, clock, swept, exceeded, kept, keptErr, garbled, closed, up,
                 signalled, code, ran, heir, pipes>>

(* mkdtempSync throws, or spawn does, or the first use of the streams that *)
(* spawn did not create: the Promise and its cleanup do not exist yet.     *)
LaunchThrows ==
  /\ up /\ child = "none" /\ outcome = "pending"
  /\ tmp' \in {"none", "present"} /\ outcome' = "threw"
  /\ UNCHANGED <<timer, clock, swept, exceeded, kept, keptErr, garbled, closed, up,
                 process, pipes>>

-----------------------------------------------------------------------------
(* The parent: the callbacks.                                              *)

(* Variant with a bug: the chunk is appended before the budget is checked. *)
StdoutDataAppendsFirst(n) ==
  /\ up /\ n <= printed - taken
  /\ taken' = taken + n
  /\ kept' = IF exceeded THEN kept ELSE kept + n
  /\ garbled' = (garbled \/ (~exceeded /\ taken' \in cuts))
  /\ exceeded' = (exceeded \/ kept' > OutputCap)
  /\ signalled' = (signalled \/ (Alive /\ exceeded'))
  /\ UNCHANGED <<outcome, timer, clock, tmp, swept, keptErr, closed, up,
                 child, code, ran, heir, printed, printedErr, takenErr, cuts>>

(* stdout 'data': a chunk of n bytes; over the budget the child is killed  *)
(* and nothing is kept any more, otherwise the chunk is decoded by itself. *)
StdoutData(n) ==
  /\ up /\ n <= printed - taken
  /\ taken' = taken + n
  /\ \/ /\ exceeded
        /\ UNCHANGED <<exceeded, signalled, kept, garbled>>
     \/ /\ ~exceeded /\ taken + n > OutputCap
        /\ exceeded' = TRUE /\ signalled' = (signalled \/ Alive)
        /\ UNCHANGED <<kept, garbled>>
     \/ /\ ~exceeded /\ taken + n <= OutputCap
        /\ kept' = kept + n
        /\ garbled' = (garbled \/ taken + n \in cuts)
        /\ UNCHANGED <<exceeded, signalled>>
  /\ UNCHANGED <<outcome, timer, clock, tmp, swept, keptErr, closed, up,
                 child, code, ran, heir, printed, printedErr, takenErr, cuts>>

(* stderr 'data': the same, with a budget of its own.                      *)
StderrData(n) ==
  /\ up /\ n <= printedErr - takenErr
  /\ takenErr' = takenErr + n
  /\ \/ /\ exceeded
        /\ UNCHANGED <<exceeded, signalled, keptErr>>
     \/ /\ ~exceeded /\ takenErr + n > OutputCap
        /\ exceeded' = TRUE /\ signalled' = (signalled \/ Alive)
        /\ UNCHANGED keptErr
     \/ /\ ~exceeded /\ takenErr + n <= OutputCap
        /\ keptErr' = keptErr + n
        /\ UNCHANGED <<exceeded, signalled>>
  /\ UNCHANGED <<outcome, timer, clock, tmp, swept, kept, garbled, closed, up,
                 child, code, ran, heir, printed, taken, printedErr, cuts>>

(* Variant with a bug: the timeout rejects but leaves the child running.   *)
TimerFiresWithoutKill ==
  /\ up /\ timer = "armed" /\ clock >= Timeout
  /\ timer' = "fired" /\ Cleanup /\ Settle("timeout")
  /\ UNCHANGED <<clock, exceeded, kept, keptErr, garbled, closed, up,
                 process, pipes>>

(* Variant with a bug: a deadline on silence instead of on the whole call. *)
TimerFiresOnSilence ==
  /\ up /\ timer = "armed" /\ clock >= Timeout /\ kept = 0
  /\ timer' = "fired" /\ signalled' = (signalled \/ Alive)
  /\ Cleanup /\ Settle("timeout")
  /\ UNCHANGED <<clock, exceeded, kept, keptErr, garbled, closed, up,
                 child, code, ran, heir, pipes>>

TimerFires ==
  /\ up /\ timer = "armed" /\ clock >= Timeout
  /\ timer' = "fired"
  /\ signalled' = (signalled \/ Alive)
  /\ Cleanup
  /\ Settle("timeout")
  /\ UNCHANGED <<clock, exceeded, kept, keptErr, garbled, closed, up,
                 child, code, ran, heir, pipes>>

(* Node emits 'close' once the process has ended and both pipes are empty  *)
(* and closed by everyone who holds them; a child that could not be        *)
(* spawned ends with a negative code.                                      *)
ReadyToClose ==
  \/ child = "dead" /\ ~heir /\ taken = printed /\ takenErr = printedErr
  \/ child = "unspawned"

(* What the close handler settles with: overflow first, then the exit      *)
(* code, then whether the captured text parses. Empty text never does.     *)
CloseOutcomes ==
  IF exceeded THEN {"overflow"}
  ELSE IF code # "zero" THEN {"exitCode"}
  ELSE IF kept = 0 THEN {"notJson"}
  ELSE {"value", "notJson"}

(* Variant with a bug: listening to 'exit', which does not wait for the    *)
(* pipes.                                                                  *)
CloseOnExit ==
  /\ up /\ ~closed /\ child \in {"dead", "unspawned"}
  /\ closed' = TRUE /\ ClearTimer /\ Cleanup
  /\ \E o \in CloseOutcomes : Settle(o)
  /\ UNCHANGED <<clock, exceeded, kept, keptErr, garbled, up, process, pipes>>

(* Variant with a bug: only a success clears the timer and the directory.  *)
CloseTidiesOnSuccess ==
  /\ up /\ ~closed /\ ReadyToClose
  /\ closed' = TRUE
  /\ IF code = "zero" THEN ClearTimer /\ Cleanup ELSE UNCHANGED <<timer, tmp, swept>>
  /\ \E o \in CloseOutcomes : Settle(o)
  /\ UNCHANGED <<clock, exceeded, kept, keptErr, garbled, up, process, pipes>>

Close ==
  /\ up /\ ~closed /\ ReadyToClose
  /\ closed' = TRUE
  /\ ClearTimer
  /\ Cleanup
  /\ \E o \in CloseOutcomes : Settle(o)
  /\ UNCHANGED <<clock, exceeded, kept, keptErr, garbled, up, process, pipes>>

(* The child's 'error' event, which comes before its 'close': it could not *)
(* be spawned.                                                             *)
SpawnError ==
  /\ up /\ ~closed /\ child = "unspawned"
  /\ ClearTimer
  /\ Cleanup
  /\ Settle("spawnError")
  /\ UNCHANGED <<clock, exceeded, kept, keptErr, garbled, closed, up, process, pipes>>

Tick ==
  /\ up /\ timer = "armed" /\ clock < Timeout
  /\ clock' = clock + 1
  /\ UNCHANGED <<outcome, timer, tmp, swept, exceeded, kept, keptErr, garbled, closed,
                 up, process, pipes>>

(* The parent's process ends: from the catch block of the command that     *)
(* awaited the promise, also before 'close' has been handled, or by a      *)
(* signal at any time, for no handler is installed. The child stays.       *)
ParentExit ==
  /\ up
  /\ up' = FALSE
  /\ UNCHANGED <<outcome, timer, clock, tmp, swept, exceeded, kept, keptErr, garbled,
                 closed, process, pipes>>

-----------------------------------------------------------------------------
(* The child: runSandboxRunner, and the module it runs.                    *)

(* No apcore-js, stdin is not JSON, or it cannot be read: a message and    *)
(* exit 1.                                                                 *)
RunnerFails ==
  /\ child = "boot" /\ printedErr < MaxBytes
  /\ child' = "dead" /\ code' = "nonzero"
  /\ printedErr' = printedErr + 1
  /\ UNCHANGED <<parent, signalled, ran, heir, printed, taken, takenErr, cuts>>

(* registry.discover imports every module of the extensions, then          *)
(* executor.call runs the one: from here on their code may do anything.    *)
RunnerDiscovers ==
  /\ child = "boot"
  /\ child' = "module" /\ ran' = TRUE
  /\ UNCHANGED <<parent, signalled, code, heir, pipes>>

(* The module, or what it started, writes to stdout or stderr on its own   *)
(* account.                                                                *)
ModuleWrites ==
  /\ child = "module" \/ heir
  /\ \/ /\ printed < MaxBytes /\ printed' = printed + 1 /\ UNCHANGED printedErr
     \/ /\ printedErr < MaxBytes /\ printedErr' = printedErr + 1 /\ UNCHANGED printed
  /\ UNCHANGED <<parent, process, taken, takenErr, cuts>>

(* The module starts a process that shares the pipes; SIGKILL to the child *)
(* does not reach it, and it ends when it likes.                           *)
ModuleForks ==
  /\ child = "module" /\ ~heir
  /\ heir' = TRUE
  /\ UNCHANGED <<parent, child, signalled, code, ran, pipes>>

HeirEnds ==
  /\ heir
  /\ heir' = FALSE
  /\ UNCHANGED <<parent, child, signalled, code, ran, pipes>>

(* The call resolves and its JSON is written as one piece of whole         *)
(* characters.                                                             *)
ModuleReturns ==
  /\ child = "module"
  /\ \E n \in 1..(MaxBytes - printed) :
       printed + n \notin cuts /\ printed' = printed + n
  /\ child' = "result"
  /\ UNCHANGED <<parent, signalled, code, ran, heir, taken, printedErr, takenErr, cuts>>

(* process.exit(0) after the result, or process.exit from the module.      *)
ChildExits ==
  /\ \/ child = "result" /\ code' = "zero"
     \/ child = "module" /\ code' \in {"zero", "nonzero"}
  /\ child' = "dead"
  /\ UNCHANGED <<parent, signalled, ran, heir, pipes>>

(* The discovery or the call rejects: the runner reports on stderr and     *)
(* exits 1.                                                                *)
ModuleThrows ==
  /\ child = "module" /\ printedErr < MaxBytes
  /\ child' = "dead" /\ code' = "nonzero"
  /\ printedErr' = printedErr + 1
  /\ UNCHANGED <<parent, signalled, ran, heir, printed, taken, takenErr, cuts>>

(* The signal arrives; the child may have got further meanwhile.           *)
Killed ==
  /\ signalled /\ Alive
  /\ child' = "dead" /\ code' = "signal"
  /\ UNCHANGED <<parent, signalled, ran, heir, pipes>>

-----------------------------------------------------------------------------
Start == Launch \/ LaunchThrows
ReadStdout == \E n \in 1..MaxBytes : StdoutData(n)
ReadStderr == \E n \in 1..MaxBytes : StderrData(n)

Next ==
  \/ Start \/ ReadStdout \/ ReadStderr
  \/ TimerFires \/ Close \/ SpawnError \/ Tick \/ ParentExit
  \/ RunnerFails \/ RunnerDiscovers \/ ModuleWrites \/ ModuleForks \/ HeirEnds
  \/ ModuleReturns \/ ChildExits \/ ModuleThrows \/ Killed

(* The event loop delivers what is due and the kernel delivers SIGKILL; a  *)
(* module may run for ever, and so may what it started.                    *)
Fairness ==
  /\ WF_vars(Start)
  /\ WF_vars(ReadStdout) /\ WF_vars(ReadStderr)
  /\ WF_vars(TimerFires) /\ WF_vars(Tick)
  /\ WF_vars(Close) /\ WF_vars(SpawnError)
  /\ WF_vars(Killed)

Spec == Init /\ [][Next]_vars /\ Fairness

-----------------------------------------------------------------------------
TypeOK ==
  /\ outcome \in {"pending", "value"} \cup Failures
  /\ timer \in {"none", "armed", "fired", "cleared"}
  /\ clock \in 0..Timeout
  /\ tmp \in {"none", "present", "removed"}
  /\ swept \in {"never", "early", "late"} /\ heir \in BOOLEAN
  /\ exceeded \in BOOLEAN /\ garbled \in BOOLEAN /\ closed \in BOOLEAN
  /\ up \in BOOLEAN /\ signalled \in BOOLEAN /\ ran \in BOOLEAN
  /\ kept \in Nat /\ keptErr \in Nat
  /\ child \in ChildPhases
  /\ code \in {"none", "zero", "nonzero", "signal"}
  /\ printed \in 0..MaxBytes /\ taken \in 0..MaxBytes
  /\ printedErr \in 0..MaxBytes /\ takenErr \in 0..MaxBytes
  /\ cuts \in SUBSET (1..(MaxBytes - 1))

(* A child that floods a stream cannot exhaust the parent: neither string  *)
(* ever grows beyond the budget, however the output is cut into chunks and *)
(* however long the child takes to die after the kill.                     *)
CaptureBounded == kept <= OutputCap /\ keptErr <= OutputCap

(* A value is only ever returned for a child that came as far as the code  *)
(* of the extensions and ended with 0 within the budget, and it is parsed  *)
(* from the whole of what the child, and all that shared its stdout,       *)
(* printed: no late chunk, overflow or kill can slip past. (That it was    *)
(* the call that printed it nobody knows: a module that prints JSON and    *)
(* exits while it is imported counts as having answered.)                  *)
ValueIsComplete ==
  outcome = "value" => ran /\ code = "zero" /\ ~exceeded /\ ~heir /\ kept = printed

(* When the call is answered by an event the child has ended or has been   *)
(* sent SIGKILL: no module keeps working on behalf of a call that failed.  *)
(* (One whose parent is killed before the answer is left alone, and so are *)
(* the processes it started.)                                              *)
NoOrphanAfterAnswer ==
  outcome # "pending" => ~Alive \/ signalled

(* An answer to a launched call leaves no timer that would hold the        *)
(* process and kill later, and comes after a removal of the directory has  *)
(* been tried. Where that was while something of the child could still     *)
(* write, as under the timeout, the close event tries again when nothing   *)
(* can. (A removal the system refuses is not tried again after that.)      *)
AnsweredIsTidied ==
  /\ outcome \notin {"pending", "threw"} => timer # "armed" /\ swept # "never"
  /\ closed => timer # "armed" /\ swept = "late"

(* A launched call is always answered, even by a module that never ends,   *)
(* and though the close event waits for all who hold the pipes, unless its *)
(* parent is killed.                                                       *)
CallAnswered == timer = "armed" ~> outcome # "pending" \/ ~up

(* A parent that stays up tries to remove the directory of every launched  *)
(* call at a time when nothing can write there any more, also after the    *)
(* removal at the timeout, unless a process the module started never ends. *)
SweptInTheEnd == timer = "armed" ~> swept = "late" \/ ~up \/ []heir

-----------------------------------------------------------------------------
(* What the comments say and the code does not do.                         *)

(* sandbox.ts: the runner "writes JSON to stdout" and the parent parses    *)
(* it, so when the child wrote whole characters the text that is parsed is *)
(* the text that was written.                                              *)
ValueIsWhatWasWritten == outcome = "value" /\ printed \notin cuts => ~garbled
=============================================================================
