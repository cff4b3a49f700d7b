--------------------------- MODULE SandboxProofs ----------------------------
(***************************************************************************)
(* Proofs about Sandbox for every output budget, timeout and bound on what *)
(* the child writes. The four safety properties follow from one inductive  *)
(* invariant, which adds to them how the counters of the two ends of each  *)
(* pipe relate, and what the end of the child says about its past.         *)
(***************************************************************************)
EXTENDS ChildInCommand, TLAPS

(* The type invariant in two parts: the provers treat numbers apart.       *)
Numbers ==
  /\ clock \in 0..Timeout
  /\ kept \in Nat /\ keptErr \in Nat
  /\ printed \in 0..MaxBytes /\ taken \in 0..MaxBytes
  /\ printedErr \in 0..MaxBytes /\ takenErr \in 0..MaxBytes

Marks ==
  /\ outcome \in {"pending", "value"} \cup Failures
  /\ timer \in {"none", "armed", "fired", "cleared"}
  /\ tmp \in {"none", "present", "removed"}
  /\ swept \in {"never", "early", "late"} /\ heir \in BOOLEAN
  /\ exceeded \in BOOLEAN /\ garbled \in BOOLEAN /\ closed \in BOOLEAN
  /\ up \in BOOLEAN /\ signalled \in BOOLEAN /\ ran \in BOOLEAN
  /\ child \in ChildPhases
  /\ code \in {"none", "zero", "nonzero", "signal"}
  /\ cuts \in SUBSET (1..(MaxBytes - 1))

(* What the parent has read is what it kept, until the budget is passed;   *)
(* nothing is read before it is written.                                   *)
Counting ==
  /\ taken <= printed /\ takenErr <= printedErr
  /\ kept <= OutputCap /\ keptErr <= OutputCap
  /\ ~exceeded => kept = taken /\ keptErr = takenErr

(* An exit code belongs to an ended child, and a clean one to a child that *)
(* came to the code of the extensions; only that code starts processes.    *)
Exits ==
  /\ code # "none" => child = "dead"
  /\ code = "zero" => ran
  /\ child \in {"module", "result"} => ran
  /\ heir => child \in {"module", "result", "dead"}

(* A value comes from an ended child whose pipes are drained and closed.   *)
Values ==
  outcome = "value" =>
    /\ child = "dead" /\ code = "zero" /\ ~exceeded /\ ~heir
    /\ taken = printed /\ takenErr = printedErr

(* The close event is the last of a child that was launched; before the    *)
(* launch nothing of the call is there.                                    *)
Closing ==
  /\ closed => child \in {"dead", "unspawned"} /\ ~heir
  /\ child = "none" => timer = "none"

Safety == Exits /\ Values /\ Closing /\ NoOrphanAfterAnswer /\ AnsweredIsTidied

IInv == Numbers /\ Marks /\ Counting /\ Safety

(* The two parts are the type invariant.                                   *)
LEMMA TypeParts == TypeOK <=> Numbers /\ Marks
BY DEF TypeOK, Numbers, Marks

(* The initial state satisfies the invariant: nothing has been started.    *)
LEMMA InitIInv == Init => IInv
<1> SUFFICES ASSUME Init PROVE IInv
  OBVIOUS
<1>1. Numbers
  BY SandboxAssumption DEF Init, Numbers
<1>2. Marks
  BY Zenon DEF Init, Marks, ChildPhases
<1>3. Counting
  BY SandboxAssumption DEF Init, Counting
<1>4. Safety
  BY DEF Init, Safety, Exits, Values, Closing, NoOrphanAfterAnswer, AnsweredIsTidied, Alive
<1> QED
  BY <1>1, <1>2, <1>3, <1>4 DEF IInv

(* No step takes a counter out of its range.                               *)
LEMMA NextNumbers == IInv /\ [Next]_vars => Numbers'
<1> SUFFICES ASSUME IInv, [Next]_vars PROVE Numbers'
  OBVIOUS
<1> USE DEF IInv
<1>1. ASSUME NEW n \in 1..MaxBytes, StdoutData(n) PROVE Numbers'
  BY SandboxAssumption, <1>1 DEF StdoutData, Numbers
<1>2. ASSUME NEW n \in 1..MaxBytes, StderrData(n) PROVE Numbers'
  BY SandboxAssumption, <1>2 DEF StderrData, Numbers
<1>3. CASE Launch
  BY SandboxAssumption, <1>3 DEF Launch, Numbers, pipes
<1>4. CASE LaunchThrows
  BY SandboxAssumption, <1>4 DEF LaunchThrows, Numbers, process, pipes
<1>5. CASE TimerFires
  BY SandboxAssumption, <1>5 DEF TimerFires, Numbers, pipes
<1>6. CASE Close
  BY SandboxAssumption, <1>6 DEF Close, Numbers, process, pipes
<1>7. CASE SpawnError
  BY SandboxAssumption, <1>7 DEF SpawnError, Numbers, process, pipes
<1>8. CASE Tick
  BY SandboxAssumption, <1>8 DEF Tick, Numbers, process, pipes
<1>9. CASE ParentExit
  BY SandboxAssumption, <1>9 DEF ParentExit, Numbers, process, pipes
<1>10. CASE RunnerFails
  BY SandboxAssumption, <1>10 DEF RunnerFails, Numbers, parent
<1>11. CASE RunnerDiscovers
  BY SandboxAssumption, <1>11 DEF RunnerDiscovers, Numbers, parent, pipes
<1>12. CASE ModuleWrites
  BY SandboxAssumption, <1>12 DEF ModuleWrites, Numbers, parent, process
<1>13. CASE ModuleReturns
  BY SandboxAssumption, <1>13 DEF ModuleReturns, Numbers, parent
<1>14. CASE ChildExits
  BY SandboxAssumption, <1>14 DEF ChildExits, Numbers, parent, pipes
<1>15. CASE ModuleThrows
  BY SandboxAssumption, <1>15 DEF ModuleThrows, Numbers, parent
<1>16. CASE Killed
  BY SandboxAssumption, <1>16 DEF Killed, Numbers, parent, pipes
<1>17. CASE UNCHANGED vars
  BY SandboxAssumption, <1>17 DEF vars, Numbers, parent, process, pipes
<1>18. CASE ModuleForks \/ HeirEnds
  BY SandboxAssumption, <1>18 DEF ModuleForks, HeirEnds, Numbers, parent, pipes
<1> QED
  BY <1>1, <1>2, <1>3, <1>4, <1>5, <1>6, <1>7, <1>8, <1>9, <1>10, <1>11, <1>12,
    <1>13, <1>14, <1>15, <1>16, <1>17, <1>18 DEF Next, Start, ReadStdout, ReadStderr

(* No step takes another variable out of its type.                         *)
LEMMA NextMarks == IInv /\ [Next]_vars => Marks'
<1> SUFFICES ASSUME IInv, [Next]_vars PROVE Marks'
  OBVIOUS
<1> USE DEF IInv
<1>1. ASSUME NEW n \in 1..MaxBytes, StdoutData(n) PROVE Marks'
  <2>1. exceeded' \in BOOLEAN /\ signalled' \in BOOLEAN
    BY <1>1 DEF StdoutData, Marks
  <2>2. garbled' \in BOOLEAN
    BY <1>1 DEF StdoutData, Marks
  <2>3. UNCHANGED <<outcome, timer, tmp, swept, closed, up, ran, heir, child, code, cuts>>
    BY <1>1 DEF StdoutData
  <2> QED
    BY <2>1, <2>2, <2>3 DEF Marks
<1>2. ASSUME NEW n \in 1..MaxBytes, StderrData(n) PROVE Marks'
  <2>1. exceeded' \in BOOLEAN /\ signalled' \in BOOLEAN
    BY <1>2 DEF StderrData, Marks
  <2>2. UNCHANGED <<outcome, timer, tmp, swept, garbled, closed, up, ran, heir,
                   child, code, cuts>>
    BY <1>2 DEF StderrData
  <2> QED
    BY <2>1, <2>2 DEF Marks
<1>3. CASE Launch
  BY <1>3 DEF Launch, Marks, ChildPhases, pipes
<1>4. CASE LaunchThrows
  BY <1>4 DEF LaunchThrows, Marks, Failures, process, pipes
<1>5. CASE TimerFires
  BY <1>5 DEF TimerFires, Cleanup, Settle, Marks, Failures, Alive, pipes
<1>6. CASE Close
  BY <1>6 DEF Close, ReadyToClose, CloseOutcomes, ClearTimer, Cleanup, Settle,
    Marks, Failures, Alive, process, pipes
<1>7. CASE SpawnError
  BY <1>7 DEF SpawnError, ClearTimer, Cleanup, Settle, Marks, Failures, Alive,
    process, pipes
<1>8. CASE Tick
  BY <1>8 DEF Tick, Marks, process, pipes
<1>9. CASE ParentExit
  <2>1. up' \in BOOLEAN
    BY <1>9 DEF ParentExit
  <2>2. UNCHANGED <<outcome, timer, tmp, swept, exceeded, garbled, closed, signalled,
                   ran, heir, child, code, cuts>>
    BY <1>9 DEF ParentExit, process, pipes
  <2> QED
    BY <2>1, <2>2 DEF Marks
<1>10. CASE RunnerFails
  BY <1>10 DEF RunnerFails, Marks, ChildPhases, parent
<1>11. CASE RunnerDiscovers
  BY <1>11 DEF RunnerDiscovers, Marks, ChildPhases, parent, pipes
<1>12. CASE ModuleWrites
  BY <1>12 DEF ModuleWrites, Marks, parent, process
<1>13. CASE ModuleReturns
  BY <1>13 DEF ModuleReturns, Marks, ChildPhases, parent
<1>14. CASE ChildExits
  BY <1>14 DEF ChildExits, Marks, ChildPhases, parent, pipes
<1>15. CASE ModuleThrows
  BY <1>15 DEF ModuleThrows, Marks, ChildPhases, parent
<1>16. CASE Killed
  BY <1>16 DEF Killed, Marks, ChildPhases, Alive, parent, pipes
<1>17. CASE UNCHANGED vars
  BY <1>17 DEF vars, Marks, parent, process, pipes
<1>18. CASE ModuleForks \/ HeirEnds
  BY <1>18 DEF ModuleForks, HeirEnds, Marks, parent, pipes
<1> QED
  BY <1>1, <1>2, <1>3, <1>4, <1>5, <1>6, <1>7, <1>8, <1>9, <1>10, <1>11, <1>12,
    <1>13, <1>14, <1>15, <1>16, <1>17, <1>18 DEF Next, Start, ReadStdout, ReadStderr

(* No step loses or invents bytes, and none keeps more than the budget.    *)
LEMMA NextCounting == IInv /\ [Next]_vars => Counting'
<1> SUFFICES ASSUME IInv, [Next]_vars PROVE Counting'
  OBVIOUS
<1> USE DEF IInv
<1>1. ASSUME NEW n \in 1..MaxBytes, StdoutData(n) PROVE Counting'
  BY SandboxAssumption, <1>1 DEF StdoutData, Counting, Numbers
<1>2. ASSUME NEW n \in 1..MaxBytes, StderrData(n) PROVE Counting'
  BY SandboxAssumption, <1>2 DEF StderrData, Counting, Numbers
<1>3. CASE Launch
  BY SandboxAssumption, <1>3 DEF Launch, Counting, Numbers, pipes
<1>4. CASE LaunchThrows
  BY SandboxAssumption, <1>4 DEF LaunchThrows, Counting, Numbers, process,
    pipes
<1>5. CASE TimerFires
  BY SandboxAssumption, <1>5 DEF TimerFires, Counting,
    Numbers, pipes
<1>6. CASE Close
  BY SandboxAssumption, <1>6 DEF Close, Counting, Numbers, process, pipes
<1>7. CASE SpawnError
  BY SandboxAssumption, <1>7 DEF SpawnError, Counting, Numbers, process, pipes
<1>8. CASE Tick
  BY SandboxAssumption, <1>8 DEF Tick, Counting, Numbers, process, pipes
<1>9. CASE ParentExit
  BY SandboxAssumption, <1>9 DEF ParentExit, Counting, Numbers, process, pipes
<1>10. CASE RunnerFails
  BY SandboxAssumption, <1>10 DEF RunnerFails, Counting, Numbers, parent
<1>11. CASE RunnerDiscovers
  BY SandboxAssumption, <1>11 DEF RunnerDiscovers, Counting, Numbers, parent, pipes
<1>12. CASE ModuleWrites
  BY SandboxAssumption, <1>12 DEF ModuleWrites, Counting, Numbers, parent,
    process
<1>13. CASE ModuleReturns
  BY SandboxAssumption, <1>13 DEF ModuleReturns, Counting, Numbers, parent
<1>14. CASE ChildExits
  BY SandboxAssumption, <1>14 DEF ChildExits, Counting, Numbers, parent, pipes
<1>15. CASE ModuleThrows
  BY SandboxAssumption, <1>15 DEF ModuleThrows, Counting, Numbers, parent
<1>16. CASE Killed
  BY SandboxAssumption, <1>16 DEF Killed, Counting, Numbers, parent, pipes
<1>17. CASE UNCHANGED vars
  BY SandboxAssumption, <1>17 DEF vars, Counting, Numbers, parent, process,
    pipes
<1>18. CASE ModuleForks \/ HeirEnds
  BY SandboxAssumption, <1>18 DEF ModuleForks, HeirEnds, Counting, Numbers, parent,
    pipes
<1> QED
  BY <1>1, <1>2, <1>3, <1>4, <1>5, <1>6, <1>7, <1>8, <1>9, <1>10, <1>11, <1>12,
    <1>13, <1>14, <1>15, <1>16, <1>17, <1>18 DEF Next, Start, ReadStdout, ReadStderr

(* No step spoils what an answer, an exit code or a close event implies.   *)
LEMMA NextSafety == IInv /\ [Next]_vars => Safety'
<1> SUFFICES ASSUME IInv, [Next]_vars PROVE Safety'
  OBVIOUS
<1> USE DEF IInv
<1>1. ASSUME NEW n \in 1..MaxBytes, StdoutData(n) PROVE Safety'
  BY <1>1 DEF StdoutData, Safety, Exits, Values, Closing, NoOrphanAfterAnswer,
    AnsweredIsTidied, Alive, Numbers, Counting, Marks
<1>2. ASSUME NEW n \in 1..MaxBytes, StderrData(n) PROVE Safety'
  BY <1>2 DEF StderrData, Safety, Exits, Values, Closing, NoOrphanAfterAnswer,
    AnsweredIsTidied, Alive, Numbers, Counting, Marks
<1>3. CASE Launch
  BY <1>3 DEF Launch, Safety, Exits, Values, Closing, NoOrphanAfterAnswer,
    AnsweredIsTidied, Alive, Numbers, Counting, Marks, pipes
<1>4. CASE LaunchThrows
  BY <1>4 DEF LaunchThrows, Safety, Exits, Values, Closing,
    NoOrphanAfterAnswer, AnsweredIsTidied, Alive, Numbers, Counting, Marks,
    process, pipes
<1>5. CASE TimerFires
  BY <1>5 DEF TimerFires, Cleanup, Settle, Safety, Exits, Values, Closing,
    NoOrphanAfterAnswer, AnsweredIsTidied, Alive, Numbers, Counting, Marks,
    pipes
<1>6. CASE Close
  BY <1>6 DEF Close, ReadyToClose, CloseOutcomes, ClearTimer, Cleanup, Settle,
    Safety, Exits, Values, Closing, NoOrphanAfterAnswer, AnsweredIsTidied,
    Alive, Numbers, Counting, Marks, process, pipes
<1>7. CASE SpawnError
  BY <1>7 DEF SpawnError, ClearTimer, Cleanup, Settle, Safety, Exits, Values,
    Closing, NoOrphanAfterAnswer, AnsweredIsTidied, Alive, Numbers,
    Counting, Marks, process, pipes
<1>8. CASE Tick
  BY <1>8 DEF Tick, Safety, Exits, Values, Closing, NoOrphanAfterAnswer,
    AnsweredIsTidied, Alive, Numbers, Counting, Marks, process, pipes
<1>9. CASE ParentExit
  BY <1>9 DEF ParentExit, Safety, Exits, Values, Closing, NoOrphanAfterAnswer,
    AnsweredIsTidied, Alive, Numbers, Counting, Marks, process, pipes
<1>10. CASE RunnerFails
  BY <1>10 DEF RunnerFails, Safety, Exits, Values, Closing,
    NoOrphanAfterAnswer, AnsweredIsTidied, Alive, Numbers, Counting, Marks,
    parent
<1>11. CASE RunnerDiscovers
  BY <1>11 DEF RunnerDiscovers, Safety, Exits, Values, Closing,
    NoOrphanAfterAnswer, AnsweredIsTidied, Alive, Numbers, Counting, Marks,
    parent, pipes
<1>12. CASE ModuleWrites
  BY <1>12 DEF ModuleWrites, Safety, Exits, Values, Closing,
    NoOrphanAfterAnswer, AnsweredIsTidied, Alive, Numbers, Counting, Marks,
    parent, process
<1>13. CASE ModuleReturns
  BY <1>13 DEF ModuleReturns, Safety, Exits, Values, Closing,
    NoOrphanAfterAnswer, AnsweredIsTidied, Alive, Numbers, Counting, Marks,
    parent
<1>14. CASE ChildExits
  BY <1>14 DEF ChildExits, Safety, Exits, Values, Closing, NoOrphanAfterAnswer,
    AnsweredIsTidied, Alive, Numbers, Counting, Marks, parent, pipes
<1>15. CASE ModuleThrows
  BY <1>15 DEF ModuleThrows, Safety, Exits, Values, Closing,
    NoOrphanAfterAnswer, AnsweredIsTidied, Alive, Numbers, Counting, Marks,
    parent
<1>16. CASE Killed
  BY <1>16 DEF Killed, Safety, Exits, Values, Closing, NoOrphanAfterAnswer,
    AnsweredIsTidied, Alive, Numbers, Counting, Marks, parent, pipes
<1>17. CASE UNCHANGED vars
  BY <1>17 DEF vars, Safety, Exits, Values, Closing, NoOrphanAfterAnswer,
    AnsweredIsTidied, Alive, Numbers, Counting, Marks, parent, process,
    pipes
<1>18. CASE ModuleForks \/ HeirEnds
  BY <1>18 DEF ModuleForks, HeirEnds, Safety, Exits, Values, Closing,
    NoOrphanAfterAnswer, AnsweredIsTidied, Alive, Numbers, Counting, Marks, parent,
    pipes
<1> QED
  BY <1>1, <1>2, <1>3, <1>4, <1>5, <1>6, <1>7, <1>8, <1>9, <1>10, <1>11, <1>12,
    <1>13, <1>14, <1>15, <1>16, <1>17, <1>18 DEF Next, Start, ReadStdout, ReadStderr

(* The invariant holds throughout every sandboxed call.                    *)
LEMMA Invariance == Spec => []IInv
<1>1. IInv /\ [Next]_vars => IInv'
  BY NextNumbers, NextMarks, NextCounting, NextSafety DEF IInv
<1> QED
  BY InitIInv, <1>1, PTL DEF Spec

-----------------------------------------------------------------------------
(* Every variable of parent, child and pipes stays in its type.            *)
THEOREM TypeCorrect == Spec => []TypeOK
<1>1. IInv => TypeOK
  BY TypeParts DEF IInv
<1> QED
  BY Invariance, <1>1, PTL

(* The strings of _sandboxedExecute never outgrow maxOutputBytes, however  *)
(* large it is and however the output arrives.                             *)
THEOREM BudgetTheorem == Spec => []CaptureBounded
<1>1. IInv => CaptureBounded
  BY DEF IInv, Counting, CaptureBounded
<1> QED
  BY Invariance, <1>1, PTL

(* The close handler resolves only with all that a child printed which ran *)
(* the module to a clean exit within the budget.                           *)
THEOREM CompletenessTheorem == Spec => []ValueIsComplete
<1>1. IInv => ValueIsComplete
  BY DEF IInv, Safety, Exits, Values, Counting, ValueIsComplete
<1> QED
  BY Invariance, <1>1, PTL

(* No answer of the promise leaves a child that has not been killed.       *)
THEOREM NoOrphanTheorem == Spec => []NoOrphanAfterAnswer
<1>1. IInv => NoOrphanAfterAnswer
  BY DEF IInv, Safety
<1> QED
  BY Invariance, <1>1, PTL

(* An answer comes after a try to remove the directory and with the timer  *)
(* off; the close handler tries when nothing of the call can write.        *)
THEOREM TidyTheorem == Spec => []AnsweredIsTidied
<1>1. IInv => AnsweredIsTidied
  BY DEF IInv, Safety
<1> QED
  BY Invariance, <1>1, PTL

(* A launched call is never stuck: until it is answered its timer is armed *)
(* and due or running. Of CallAnswered this leaves to fairness only that   *)
(* time passes and that a timer which is due is run.                       *)
TimerIsLeft == outcome = "pending" /\ child # "none" => timer = "armed"

LEMMA TimerStays == IInv /\ TimerIsLeft /\ [Next]_vars => TimerIsLeft'
<1> SUFFICES ASSUME IInv, TimerIsLeft, [Next]_vars, outcome' = "pending", child' # "none"
             PROVE  timer' = "armed"
  BY DEF TimerIsLeft
<1> USE DEF TimerIsLeft
<1>1. CASE Launch
  BY <1>1 DEF Launch
<1>2. CASE LaunchThrows \/ TimerFires \/ Close \/ SpawnError
  <2>1. outcome' # "pending"
    BY <1>2 DEF LaunchThrows, TimerFires, Close, SpawnError, Settle, CloseOutcomes
  <2> QED
    BY <2>1
<1>3. CASE ReadStdout \/ ReadStderr \/ Tick \/ ParentExit \/ UNCHANGED vars
  <2>1. UNCHANGED <<outcome, timer, child>>
    BY <1>3 DEF ReadStdout, ReadStderr, StdoutData, StderrData, Tick, ParentExit,
      vars, parent, process
  <2> QED
    BY <2>1
<1>4. CASE RunnerFails \/ RunnerDiscovers \/ ModuleWrites \/ ModuleForks \/ HeirEnds
           \/ ModuleReturns \/ ChildExits \/ ModuleThrows \/ Killed
  <2>1. UNCHANGED <<outcome, timer>> /\ child # "none"
    BY <1>4 DEF RunnerFails, RunnerDiscovers, ModuleWrites, ModuleForks, HeirEnds,
      ModuleReturns, ChildExits, ModuleThrows, Killed, Alive, parent, IInv, Safety, Exits
  <2> QED
    BY <2>1
<1> QED
  BY <1>1, <1>2, <1>3, <1>4 DEF Next, Start

(* Every launched call that waits still has its timer to end it.           *)
THEOREM NeverStuck == Spec => []TimerIsLeft
<1>1. Init => TimerIsLeft
  BY DEF Init, TimerIsLeft
<1> QED
  BY <1>1, TimerStays, Invariance, PTL DEF Spec

-----------------------------------------------------------------------------
(* The child as a part of the command.                                     *)

(* The command is somewhere it can be.                                     *)
LEMMA PlaceIsInCommand == IInv => Command!TypeOK
<1> SUFFICES ASSUME IInv PROVE Command!TypeOK
  OBVIOUS
<1>1. Parent \in Command!Calls
  BY DEF Parent, Command!Calls, Command!Commands, Command!Callers
<1>2. Place \in Command!Steps
  BY DEF Place, Command!Steps
<1> QED
  BY <1>1, <1>2 DEF Command!TypeOK, Command!Errors, Command!Routes,
    Command!ExitCodes

(* The first answer is the answer of the child, and it fits what it ran.   *)
LEMMA AnswerIsOfCommand ==
  ASSUME IInv, IInv', up, UNCHANGED <<up, ran>>, outcome = "pending"
  PROVE  Command!ChildAnswers \/ UNCHANGED Command!vars
<1>1. outcome' \in {"pending", "value"} \cup Failures
  BY DEF IInv, Marks
<1>2. CASE outcome' = "pending"
  BY <1>2 DEF Place, Command!vars
<1>3. CASE outcome' = "value"
  <2>1. ran
    BY <1>3 DEF IInv, Safety, Values, Exits
  <2> QED
    BY <1>3, <2>1 DEF Place, Failures, Command!ChildAnswers, Command!Goto
<1>4. CASE outcome' \in Failures
  BY <1>4 DEF Place, Failures, Command!ChildAnswers, Command!Throw
<1> QED
  BY <1>1, <1>2, <1>3, <1>4

(* What happens around an answered or an unchanged call is no step of the  *)
(* command.                                                                *)
LEMMA StutterOfCommand ==
  ASSUME UNCHANGED <<outcome, ran>>, outcome # "pending" \/ UNCHANGED up
  PROVE  UNCHANGED Command!vars
BY DEF Place, Command!vars

(* A step of parent or child is a step of the command that awaits them, or *)
(* none.                                                                   *)
LEMMA StepIsOfCommand ==
  IInv /\ IInv' /\ [Next]_vars => [Command!Next]_(Command!vars)
<1> SUFFICES ASSUME IInv, IInv', [Next]_vars
             PROVE  \/ Command!ChildAnswers \/ Command!ChildStarts
                    \/ Command!Interrupt \/ UNCHANGED Command!vars
  BY DEF Command!Next, Command!Proceed
<1>1. CASE LaunchThrows \/ TimerFires \/ Close \/ SpawnError
  <2>1. up /\ UNCHANGED <<up, ran>> /\ (outcome # "pending" => outcome' = outcome)
    BY <1>1 DEF LaunchThrows, TimerFires, Close, SpawnError, Settle, process
  <2> QED
    BY <2>1, AnswerIsOfCommand, StutterOfCommand
<1>2. CASE RunnerDiscovers
  <2>1. CASE ran
    BY <1>2, <2>1, StutterOfCommand DEF RunnerDiscovers, parent
  <2>2. CASE ~ran
    BY <1>2, <2>2 DEF RunnerDiscovers, parent, Place, Failures, Command!ChildStarts
  <2> QED
    BY <2>1, <2>2
<1>3. CASE ParentExit
  <2>1. CASE outcome # "pending"
    BY <1>3, <2>1, StutterOfCommand DEF ParentExit, process
  <2>2. CASE outcome = "pending"
    BY <1>3, <2>2 DEF ParentExit, process, Place, Command!Interrupt
  <2> QED
    BY <2>1, <2>2
<1>4. CASE Launch \/ ReadStdout \/ ReadStderr \/ Tick \/ RunnerFails
           \/ ModuleWrites \/ ModuleForks \/ HeirEnds \/ ModuleReturns \/ ChildExits
           \/ ModuleThrows \/ Killed \/ UNCHANGED vars
  <2>1. UNCHANGED <<outcome, ran, up>>
    BY <1>4 DEF Launch, ReadStdout, ReadStderr, StdoutData, StderrData, Tick,
      RunnerFails, ModuleWrites, ModuleForks, HeirEnds, ModuleReturns, ChildExits,
      ModuleThrows, Killed, vars, parent, process
  <2> QED
    BY <2>1, StutterOfCommand
<1> QED
  BY <1>1, <1>2, <1>3, <1>4 DEF Next, Start

(* Every sandboxed call, for every budget and timeout, is what Invocation  *)
(* takes a child to be.                                                    *)
THEOREM ChildTheorem == Spec => ImplementsChild
<1>1. Spec => []IInv /\ [][Next]_vars
  BY Invariance, PTL DEF Spec
<1> QED
  BY <1>1, PlaceIsInCommand, StepIsOfCommand, PTL DEF ImplementsChild
===========================================================================
