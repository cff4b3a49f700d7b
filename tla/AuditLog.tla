------------------------------ MODULE AuditLog ------------------------------
(***************************************************************************)
(* The audit log of src/security/audit.ts, a JSONL file that every process *)
(* of the CLI appends to, and its reader in src/system-usage.ts.           *)
(*                                                                         *)
(* A record reaches the file as a sequence of cells: the head and the rest *)
(* of its JSON text and its newline. appendFileSync writes them with one   *)
(* write or with several (the kernel may accept a part), may fail or be    *)
(* killed in between, and other processes append whenever they run. What a *)
(* command does around its records is Invocation's subject; here a call is *)
(* the decisions of the ACL about it, at most MaxJudgements, and the record*)
(* of its end, if there is one.                                            *)
(***************************************************************************)
EXTENDS Integers, Sequences, FiniteSets

CONSTANTS
  Processes,   \* processes of the CLI that share one home directory
  Modules,
  Absent,      \* an unset environment variable or key
  Settings,    \* the configurations considered, see Setting
  MaxCalls,    \* bound: calls in a behaviour
  MaxBreaks    \* bound, by setting: short writes, failed appends and deaths

Words == {"yes", "no", "typo", Absent}
Source == [env : Words, file : Words]
Setting == [enabled : Source, include_denied : Source]

ASSUME AuditAssumption ==
  /\ Settings \subseteq Setting
  /\ Absent \notin {"yes", "no", "typo"}
  /\ MaxCalls \in Nat /\ MaxBreaks \in [Settings -> Nat]

VARIABLES
  file,        \* the cells of audit.jsonl
  issued,      \* history: the records handed to append, in that order
  proc,        \* what each process is doing
  warned,      \* writeFailureWarned of its AuditLogger
  born,        \* history: records issued before its AuditLogger was made
  calls,       \* calls begun
  breaks,      \* short writes, failed appends and deaths so far
  setting,     \* acl.audit.*, fixed
  governed     \* the calls judged by an ACL that the CLI loaded, fixed

vars == <<file, issued, proc, warned, born, calls, breaks, setting, governed>>

Parts == 3
Cell == [rec : Nat, part : 1..Parts]
IsNewline(cell) == cell.part = Parts

Record == [kind : {"decision", "run"}, call : 1..MaxCalls, module : Modules,
           result : {"allow", "deny", "success", "error"},
           by : Processes]

(* The ACL is asked by assertDelegatedAccess at the gate, and once more by *)
(* Sandbox.execute or by the executor's acl_check (or its validate).       *)
MaxJudgements == 2

(* A process: at rest, in a call, or in append with `written` cells of     *)
(* record `id` in the file, to go on at `next`. The ACL may be asked `due` *)
(* more times; `granted` is its last answer.                               *)
Phases == {"idle", "call", "write"}
Process == [pc : Phases, next : Phases, call : 0..MaxCalls,
            module : Modules \cup {Absent},
            due : 0..MaxJudgements, granted : BOOLEAN,
            id : Nat, written : 0..(Parts - 1)]

AtRest == [pc |-> "idle", next |-> "idle", call |-> 0, module |-> Absent,
           due |-> 0, granted |-> FALSE, id |-> 0, written |-> 0]

Init ==
  /\ file = <<>> /\ issued = <<>> /\ calls = 0 /\ breaks = 0
  /\ proc = [p \in Processes |-> AtRest]
  /\ warned = [p \in Processes |-> FALSE]
  /\ born = [p \in Processes |-> 0]
  /\ setting \in Settings /\ governed \in [1..MaxCalls -> BOOLEAN]

-----------------------------------------------------------------------------
(* Configuration.                                                          *)

(* asBool, whose fallback is the default true: only a word for no is a no. *)
AsBool(word) == word # "no"

(* auditFlag: the environment wins over the file when it is set at all.    *)
AuditFlag(source) == AsBool(IF source.env # Absent THEN source.env ELSE source.file)

(* Variant with a bug: include_denied taken for a switch of all decisions. *)
RecordedOrQuiet(allowed) ==
  AuditFlag(setting.enabled) /\ AuditFlag(setting.include_denied)

(* createAclAuditCallback: which decisions become records.                 *)
Recorded(allowed) ==
  AuditFlag(setting.enabled) /\ (~allowed => AuditFlag(setting.include_denied))

-----------------------------------------------------------------------------
(* The writer.                                                             *)

(* append: the record is serialised and its write begins.                  *)
Issue(p, kind, result, due, granted, next) ==
  /\ issued' = Append(issued, [kind |-> kind, call |-> proc[p].call,
                               module |-> proc[p].module, result |-> result,
                               by |-> p])
  /\ proc' = [proc EXCEPT ![p].pc = "write", ![p].next = next,
                          ![p].due = due, ![p].granted = granted,
                          ![p].id = Len(issued) + 1, ![p].written = 0]

(* append has returned: the call goes on, or is over.                      *)
Resume(p) ==
  proc' = [proc EXCEPT ![p] =
             IF proc[p].next = "idle" THEN AtRest
             ELSE [proc[p] EXCEPT !.pc = proc[p].next, !.next = "idle",
                                  !.id = 0, !.written = 0]]

Break == breaks < MaxBreaks[setting] /\ breaks' = breaks + 1

(* A call of which no ACL tells the audit log is granted as it is: none is *)
(* configured, it is an object of the host's, without the CLI's callback,  *)
(* or the executor's own, or the strategy skips acl_check.                 *)
Begin(p, m) ==
  /\ proc[p].pc = "idle" /\ calls < MaxCalls
  /\ calls' = calls + 1
  /\ proc' = [proc EXCEPT ![p].pc = "call", ![p].call = calls + 1, ![p].module = m,
                          ![p].due = IF governed[calls + 1] THEN MaxJudgements ELSE 0,
                          ![p].granted = ~governed[calls + 1]]
  /\ UNCHANGED <<file, issued, warned, born, breaks, setting, governed>>

(* checkAccess and its callback: after a denial nobody asks again. Two     *)
(* answers may differ, acl_check sees an anonymous caller on some routes.  *)
Judge(p, allowed) ==
  LET due == IF allowed THEN proc[p].due - 1 ELSE 0 IN
  /\ proc[p].pc = "call" /\ proc[p].due > 0
  /\ \/ /\ Recorded(allowed)
        /\ Issue(p, "decision", IF allowed THEN "allow" ELSE "deny", due, allowed, "call")
     \/ /\ ~Recorded(allowed)
        /\ proc' = [proc EXCEPT ![p].due = due, ![p].granted = allowed]
        /\ UNCHANGED issued
  /\ UNCHANGED <<file, warned, born, calls, breaks, setting, governed>>

(* logExecution: an error may end the call at any point, success needs a   *)
(* module that was admitted and has run.                                   *)
Finish(p, status) ==
  /\ proc[p].pc = "call"
  /\ status = "success" => proc[p].granted
  /\ Issue(p, "run", status, proc[p].due, proc[p].granted, "idle")
  /\ UNCHANGED <<file, warned, born, calls, breaks, setting, governed>>

(* A dry run, validate and the system commands write no record of a run,   *)
(* nor does whatever ends in process.exit.                                 *)
Leave(p) ==
  /\ proc[p].pc = "call"
  /\ proc' = [proc EXCEPT ![p] = AtRest]
  /\ UNCHANGED <<file, issued, warned, born, calls, breaks, setting, governed>>

Cells(id, written, n) == [j \in 1..n |-> [rec |-> id, part |-> written + j]]

(* Variant with a bug: one write, whose result is not looked at.           *)
WriteOnce(p, n) ==
  /\ proc[p].pc = "write" /\ proc[p].written + n <= Parts
  /\ file' = file \o Cells(proc[p].id, proc[p].written, n)
  /\ Resume(p)
  /\ UNCHANGED <<issued, warned, born, calls, breaks, setting, governed>>

(* Variant with a bug: the file is opened for writing, not for appending.  *)
WriteTruncating(p, n) ==
  /\ proc[p].pc = "write" /\ proc[p].written + n = Parts
  /\ file' = Cells(proc[p].id, proc[p].written, n)
  /\ Resume(p)
  /\ UNCHANGED <<issued, warned, born, calls, breaks, setting, governed>>

(* One write of appendFileSync: the kernel takes n cells, at the end of    *)
(* the file; what is left is written next.                                 *)
Write(p, n) ==
  /\ proc[p].pc = "write"
  /\ file' = file \o Cells(proc[p].id, proc[p].written, n)
  /\ \/ /\ proc[p].written + n = Parts
        /\ Resume(p)
        /\ UNCHANGED breaks
     \/ /\ proc[p].written + n < Parts
        /\ proc' = [proc EXCEPT ![p].written = proc[p].written + n]
        /\ Break
  /\ UNCHANGED <<issued, warned, born, calls, setting, governed>>

(* Variant with a bug: a record that was not written is handed over again. *)
AppendFailsRetries(p) ==
  /\ proc[p].pc = "write"
  /\ warned' = [warned EXCEPT ![p] = TRUE]
  /\ issued' = Append(issued, issued[proc[p].id])
  /\ proc' = [proc EXCEPT ![p].id = Len(issued) + 1, ![p].written = 0]
  /\ Break
  /\ UNCHANGED <<file, born, calls, setting, governed>>

(* appendFileSync throws, before or after a part was written: the first    *)
(* time a warning, and the call goes on.                                   *)
AppendFails(p) ==
  /\ proc[p].pc = "write"
  /\ warned' = [warned EXCEPT ![p] = TRUE]
  /\ Resume(p)
  /\ Break
  /\ UNCHANGED <<file, issued, born, calls, setting, governed>>

(* The process dies; the next one in its place has a logger of its own.    *)
Die(p) ==
  /\ proc[p].pc # "idle"
  /\ proc' = [proc EXCEPT ![p] = AtRest]
  /\ warned' = [warned EXCEPT ![p] = FALSE]
  /\ born' = [born EXCEPT ![p] = Len(issued)]
  /\ Break
  /\ UNCHANGED <<file, issued, calls, setting, governed>>

Next ==
  \E p \in Processes :
    \/ \E m \in Modules : Begin(p, m)
    \/ \E allowed \in BOOLEAN : Judge(p, allowed)
    \/ \E status \in {"success", "error"} : Finish(p, status)
    \/ Leave(p)
    \/ \E n \in 1..Parts : Write(p, n)
    \/ AppendFails(p)
    \/ Die(p)

Spec == Init /\ [][Next]_vars

-----------------------------------------------------------------------------
(* The reader, which may look at any moment.                               *)

(* Cell i opens a line, cell i closes one (at the end of the file, too).   *)
Opens(i) == i = 1 \/ IsNewline(file[i - 1])
Closes(i) == i = Len(file) \/ IsNewline(file[i + 1])

(* A line that JSON.parse accepts: the text of one record and nothing else.*)
Parses(i) ==
  /\ file[i].part = 1 /\ i < Len(file)
  /\ Opens(i) /\ Closes(i + 1)
  /\ file[i + 1] = [rec |-> file[i].rec, part |-> 2]

(* Variant with a bug: the reader stops at the first line it cannot read.  *)
ReadableUpToDamage ==
  {file[i].rec : i \in {j \in DOMAIN file :
     /\ Parses(j)
     /\ \A k \in 1..j : Opens(k) /\ ~IsNewline(file[k]) => Parses(k)}}

(* What computeSummary gets to see: any other line is skipped.             *)
Readable == {file[i].rec : i \in {j \in DOMAIN file : Parses(j)}}

(* Variant with a bug: the decisions about a module count as its calls.    *)
CountedWithDecisions(lines, m, since) ==
  {r \in lines : r >= since /\ issued[r].module = m}

(* The lines counted for a module: of its runs (a decision has a target_id *)
(* but no module_id), none older than the period. The order in which       *)
(* records are issued stands for their timestamps, `since` for the cutoff. *)
Counted(lines, m, since) ==
  {r \in lines : r >= since /\ issued[r].kind = "run" /\ issued[r].module = m}

Calls(lines, m, since) == Cardinality(Counted(lines, m, since))

-----------------------------------------------------------------------------
(* Properties.                                                             *)

TypeOK ==
  /\ issued \in Seq(Record)
  /\ file \in Seq(Cell) /\ \A i \in DOMAIN file : file[i].rec \in DOMAIN issued
  /\ proc \in [Processes -> Process]
  /\ warned \in [Processes -> BOOLEAN]
  /\ born \in [Processes -> 0..Len(issued)]
  /\ calls \in 0..MaxCalls /\ breaks \in 0..MaxBreaks[setting]
  /\ setting \in Settings /\ governed \in [1..MaxCalls -> BOOLEAN]

Complete(r) == \A k \in 1..Parts : \E i \in DOMAIN file : file[i] = [rec |-> r, part |-> k]

(* The AuditLogger that was handed record r still exists.                  *)
OfLiveLogger(r) == r > born[issued[r].by]
BeingWritten(r) == \E p \in Processes : proc[p].pc = "write" /\ proc[p].id = r

(* A logger that has never warned has written everything it was given, to  *)
(* the last newline: audit.ts swallows each failure of append, and its one *)
(* warning is all that tells of a loss.                                    *)
SilenceMeansWritten ==
  \A r \in DOMAIN issued :
    OfLiveLogger(r) /\ ~warned[issued[r].by] /\ ~BeingWritten(r) => Complete(r)

(* A record that went into the file in one piece is lost to the reader in  *)
(* one case only: the text of another record, whose own append was broken  *)
(* off or is still going on, stands directly before it. A crash costs its  *)
(* own record and at most the next one, whoever writes it; every line      *)
(* after that is read (computeSummary goes on after a line that does not   *)
(* parse).                                                                 *)
InOnePiece(i) ==
  /\ i + 2 <= Len(file)
  /\ \A k \in 1..Parts : file[i + k - 1] = [rec |-> file[i].rec, part |-> k]

Whole == {file[i].rec : i \in {j \in DOMAIN file : InOnePiece(j)}}

LostOnlyBehindABreak ==
  LET lines == Readable
      whole == Whole
  IN  \A i \in DOMAIN file :
        file[i].part = 1 /\ file[i].rec \in whole =>
          \/ file[i].rec \in lines
          \/ i > 1 /\ file[i - 1].rec # file[i].rec /\ file[i - 1].rec \notin whole

(* A line that ends in its newline is read for ever: no later append, of   *)
(* this process or of another, whole, cut or failed, takes it back. (A     *)
(* line still without its newline can be spoilt by the next record.)       *)
ClosedLines == {i \in DOMAIN file : Parses(i) /\ i + 1 < Len(file)}
ClosedLinesStay ==
  [][/\ ClosedLines \subseteq ClosedLines'
     /\ \A i \in ClosedLines : file'[i].rec = file[i].rec]_file

(* The usage summary never reports more than was run in its window, and    *)
(* when no record is broken it reports exactly the runs whose records are  *)
(* in the file, however the processes took turns: decisions beside the     *)
(* runs, two for a sandboxed call, do not count.                           *)
Runs(m, since) ==
  {r \in since..Len(issued) : issued[r].kind = "run" /\ issued[r].module = m}

SummaryTruthful ==
  LET lines == Readable
      whole == Whole
      unbroken == \A i \in DOMAIN file : file[i].rec \in whole
  IN  \A m \in Modules, since \in DOMAIN issued :
        LET counted == Calls(lines, m, since)
            runs == Runs(m, since)
        IN  /\ counted <= Cardinality(runs)
            /\ unbroken => counted = Cardinality(runs \cap whole)

(* "ACL decisions land beside the calls they governed" (audit.ts): unless  *)
(* a word for no switches the records off, a run that succeeded under an   *)
(* ACL the CLI loaded has an allowing decision of the same call, recorded  *)
(* before it; when both have arrived, in this order in the file. A misspelt*)
(* setting does not switch anything off, and include_denied says nothing   *)
(* of allowing decisions.                                                  *)
SwitchedOff(source) ==
  source.env = "no" \/ (source.env = Absent /\ source.file = "no")

StartOf(r) == CHOOSE i \in DOMAIN file : file[i] = [rec |-> r, part |-> 1]

DecisionBesideRun ==
  ~SwitchedOff(setting.enabled) =>
    \A r \in DOMAIN issued :
      issued[r].kind = "run" /\ issued[r].result = "success" /\ governed[issued[r].call] =>
        \E d \in 1..(r - 1) :
          /\ issued[d].kind = "decision" /\ issued[d].result = "allow"
          /\ issued[d].call = issued[r].call
          /\ Complete(d) /\ Complete(r) => StartOf(d) < StartOf(r)

-----------------------------------------------------------------------------
(* What is handed to append about a call is an AuditTrail.                 *)

Kept ==
  IF SwitchedOff(setting.enabled) THEN {}
  ELSE IF SwitchedOff(setting.include_denied) THEN {"allow"} ELSE {"allow", "deny"}

About(kind, c) == {r \in DOMAIN issued : issued[r].kind = kind /\ issued[r].call = c}
Decided(c) == {issued[r].result : r \in About("decision", c)}
Outcome(c) ==
  IF About("run", c) = {} THEN "none"
  ELSE IF \E r \in About("run", c) : About("run", c) = {r}
    THEN issued[CHOOSE r \in About("run", c) : TRUE].result
    ELSE "several"

Trail(c) == INSTANCE AuditTrail WITH
  governed <- governed[c], kept <- Kept, decided <- Decided(c), outcome <- Outcome(c)

(* However the processes take turns, fail and die, the records of each call*)
(* come from one process in the order of an AuditTrail: a run is recorded  *)
(* once and last, and never as a success behind a denial. Written out for  *)
(* each call, this is \A c \in 1..MaxCalls : Trail(c)!Spec.                *)
ImplementsAuditTrail ==
  /\ \A c \in 1..MaxCalls : Trail(c)!Init
  /\ [][\A c \in 1..MaxCalls : [Trail(c)!Next]_(Trail(c)!vars)]_vars
=============================================================================
