------------------------------ MODULE Artifacts ------------------------------
(***************************************************************************)
(* The commands that write files: `apcli init module` (src/init-cmd.ts),   *)
(* `apcli openapi generate` and `apcli openapi scan` (src/openapi-cmd.ts,  *)
(* src/openapi-source.ts). Several runs share a working directory with     *)
(* each other and with a user who edits; an operation of the file system   *)
(* may fail and a run may be killed between any two of them.               *)
(*                                                                         *)
(* A file name is a directory, a path below it and an extension. A         *)
(* component of the path is the sequence of its words, cut at "_"; so is a *)
(* module id of init, cut at ".", and the sanitised id of a scanned        *)
(* module, its stem.                                                       *)
(***************************************************************************)
EXTENDS Naturals, Sequences

CONSTANTS
  Runs,       \* processes
  User,       \* the one who edits by hand
  Nobody,     \* the writer of what is not there
  Commands,   \* command lines
  UpDirs,     \* directories with a ".." in them
  Digits,     \* the words a collision counter adds: "1", "2", ...
  MaxEdits    \* bound: edits by the user

Styles == {"decorator", "convention", "binding"}
Flaws == {"regex", "header", "source", "version", "scanner"}

ASSUME CommandsAssumption ==
  /\ \A c \in Commands :
       /\ c.tool \in {"init", "generate", "scan"}
       /\ c.force \in BOOLEAN /\ c.dryRun \in BOOLEAN
       /\ c.flaws \subseteq Flaws
       /\ c.id \in Seq(STRING) /\ c.id # <<>>
       /\ c.batch \in Seq(Seq(STRING))
  /\ Digits \in Seq(STRING) /\ MaxEdits \in Nat
ASSUME WritersAssumption == User \notin Runs /\ Nobody \notin Runs /\ User # Nobody

VARIABLES
  files,    \* name -> who wrote it and whether it is whole
  pc,       \* where each run stands
  cmd,      \* its command line
  at,       \* generate: the module whose file is looked for
  taken,    \* generate: names given so far in this pass over the modules
  skipped,  \* names found to exist
  absent,   \* history: names found not to exist
  chosen,   \* generate: modules still to be written
  failed,   \* generate: the writer reported a failure
  told,     \* init: files named as left behind
  exit,     \* exit code of a run that is done
  edits     \* edits so far

locals == <<at, taken, skipped, absent, chosen, failed, told>>
vars == <<files, pc, cmd, locals, exit, edits>>

-----------------------------------------------------------------------------
(* Names.                                                                  *)

Prefix(id) == IF Len(id) > 1 THEN SubSeq(id, 1, Len(id) - 1) ELSE id

(* What init writes first, by style; a binding has a source file besides.  *)
Scaffold(c) ==
  [dir  |-> c.dir,
   path |-> IF c.style = "convention"
            THEN [i \in DOMAIN Prefix(c.id) |-> <<Prefix(c.id)[i]>>] ELSE <<c.id>>,
   ext  |-> IF c.style = "binding" THEN "yaml" ELSE "ts"]

Source(c) == [dir |-> "commands", path |-> <<Prefix(c.id)>>, ext |-> "ts"]

(* The k-th name tried for a scanned module, k being its counter.          *)
Candidate(c, i, k) ==
  [dir  |-> c.dir,
   path |-> <<IF k = 0 THEN c.batch[i] ELSE Append(c.batch[i], Digits[k])>>,
   ext  |-> "yaml"]

Counters == 0..Len(Digits)
Names ==
  {Scaffold(c) : c \in Commands} \cup {Source(c) : c \in Commands}
  \cup UNION {{Candidate(c, i, k) : i \in DOMAIN c.batch, k \in Counters} : c \in Commands}

(* The counter that plannedFilenames, and the writer, arrive at.           *)
Given(c, i, k, given) ==
  /\ Candidate(c, i, k) \notin given
  /\ \A l \in 0..(k - 1) : Candidate(c, i, l) \in given

-----------------------------------------------------------------------------
(* The file system.                                                        *)

Contents == [by : Runs \cup {User, Nobody}, whole : BOOLEAN]
Nothing == [by |-> Nobody, whole |-> FALSE]
Exists(name) == files[name] # Nothing
Whole(writer) == [by |-> writer, whole |-> TRUE]
Torn(writer) == [by |-> writer, whole |-> FALSE]

(* writeFileSync: it replaces what is there. A failure leaves the file as  *)
(* it was, or cut off.                                                     *)
Put(name, content) == files' = [files EXCEPT ![name] = content]
WriteFails(r, name) == UNCHANGED files \/ Put(name, Torn(r))

Goto(r, label) == pc' = [pc EXCEPT ![r] = label] /\ UNCHANGED exit
Exit(r, code) ==
  pc' = [pc EXCEPT ![r] = "done"] /\ exit' = [exit EXCEPT ![r] = code]

Init ==
  /\ files = [n \in Names |-> Nothing]
  /\ cmd \in [Runs -> Commands]
  /\ pc = [r \in Runs |-> "start"]
  /\ at = [r \in Runs |-> 1]
  /\ taken = [r \in Runs |-> {}]
  /\ skipped = [r \in Runs |-> {}]
  /\ absent = [r \in Runs |-> {}]
  /\ chosen = [r \in Runs |-> {}]
  /\ failed = [r \in Runs |-> FALSE]
  /\ told = [r \in Runs |-> {}]
  /\ exit = [r \in Runs |-> 0]
  /\ edits = 0

-----------------------------------------------------------------------------
(* init module.                                                            *)

(* The action: the directory is refused, or the style is unknown.          *)
StartInit(r) ==
  /\ pc[r] = "start" /\ cmd[r].tool = "init"
  /\ IF cmd[r].dir \in UpDirs \/ cmd[r].style \notin Styles
     THEN Exit(r, 2) ELSE Goto(r, "mkdir")
  /\ UNCHANGED <<files, cmd, locals, edits>>

(* runFsOp around mkdirSync.                                               *)
MakeDirectory(r) ==
  /\ pc[r] = "mkdir"
  /\ Goto(r, "guard") \/ Exit(r, 1)
  /\ UNCHANGED <<files, cmd, locals, edits>>

Note(r, name) ==
  /\ skipped' = IF Exists(name) THEN [skipped EXCEPT ![r] = @ \cup {name}] ELSE skipped
  /\ absent' = IF Exists(name) THEN absent ELSE [absent EXCEPT ![r] = @ \cup {name}]

(* guardOverwrite.                                                         *)
GuardOverwrite(r) ==
  /\ pc[r] = "guard"
  /\ IF ~cmd[r].force /\ Exists(Scaffold(cmd[r]))
     THEN Exit(r, 2) ELSE Goto(r, "first")
  /\ Note(r, Scaffold(cmd[r]))
  /\ UNCHANGED <<files, cmd, at, taken, chosen, failed, told, edits>>

WriteScaffold(r) ==
  /\ pc[r] = "first"
  /\ \/ /\ Put(Scaffold(cmd[r]), Whole(r))
        /\ IF cmd[r].style = "binding" THEN Goto(r, "mksrc") ELSE Exit(r, 0)
     \/ WriteFails(r, Scaffold(cmd[r])) /\ Exit(r, 1)
  /\ UNCHANGED <<cmd, locals, edits>>

(* Variant with a bug: the partial scaffold is not passed on.              *)
FailNamingNothing(r) == Exit(r, 1) /\ UNCHANGED told

(* runFsOp fails after the binding was written: it is named.               *)
FailNaming(r) ==
  /\ Exit(r, 1)
  /\ told' = [told EXCEPT ![r] = {Scaffold(cmd[r])}]

MakeSourceDirectory(r) ==
  /\ pc[r] = "mksrc"
  /\ \/ Goto(r, "looksrc") /\ UNCHANGED told
     \/ FailNaming(r)
  /\ UNCHANGED <<files, cmd, at, taken, skipped, absent, chosen, failed, edits>>

(* A source file that is there is left, whatever --force says.             *)
LookForSource(r) ==
  /\ pc[r] = "looksrc"
  /\ IF Exists(Source(cmd[r])) THEN Exit(r, 0) ELSE Goto(r, "src")
  /\ Note(r, Source(cmd[r]))
  /\ UNCHANGED <<files, cmd, at, taken, chosen, failed, told, edits>>

WriteSource(r) ==
  /\ pc[r] = "src"
  /\ \/ Put(Source(cmd[r]), Whole(r)) /\ Exit(r, 0) /\ UNCHANGED told
     \/ WriteFails(r, Source(cmd[r])) /\ FailNaming(r)
  /\ UNCHANGED <<cmd, at, taken, skipped, absent, chosen, failed, edits>>

-----------------------------------------------------------------------------
(* openapi scan and generate.                                              *)

(* The exit code of loadAndScan for what is wrong, in the order in which   *)
(* it is met; 0 when nothing is.                                           *)
LoadExit(flaws) ==
  IF flaws \cap {"regex", "header"} # {} THEN 2
  ELSE IF flaws \cap {"source", "version"} # {} THEN 47
  ELSE IF "scanner" \in flaws THEN 1 ELSE 0

LoadAndScan(r) ==
  /\ pc[r] = "start" /\ cmd[r].tool \in {"generate", "scan"}
  /\ IF LoadExit(cmd[r].flaws) # 0 \/ cmd[r].tool = "scan"
     THEN Exit(r, LoadExit(cmd[r].flaws)) ELSE Goto(r, "check")
  /\ UNCHANGED <<files, cmd, locals, edits>>

(* Variant with a bug: the test of --force is the wrong way round.         *)
KeepForWriterForced(r, name) ==
  chosen' = IF cmd[r].force /\ Exists(name) THEN chosen
            ELSE [chosen EXCEPT ![r] = @ \cup {at[r]}]

(* A module goes to the writer unless its file exists.                     *)
KeepForWriter(r, name) ==
  chosen' = IF ~cmd[r].force /\ Exists(name) THEN chosen
            ELSE [chosen EXCEPT ![r] = @ \cup {at[r]}]

(* One module of the batch: its planned name, and whether the file exists. *)
CheckFile(r) ==
  /\ pc[r] = "check" /\ at[r] \in DOMAIN cmd[r].batch
  /\ \E k \in Counters :
       LET name == Candidate(cmd[r], at[r], k) IN
       /\ Given(cmd[r], at[r], k, taken[r])
       /\ taken' = [taken EXCEPT ![r] = @ \cup {name}]
       /\ Note(r, name)
       /\ KeepForWriter(r, name)
  /\ at' = [at EXCEPT ![r] = @ + 1]
  /\ UNCHANGED <<files, pc, cmd, failed, told, exit, edits>>

(* After the last module: a dry run lists and ends, and so does a run with *)
(* nothing to write; the writer starts its own count of the names.         *)
StartWriter(r) ==
  /\ pc[r] = "check" /\ at[r] \notin DOMAIN cmd[r].batch
  /\ IF cmd[r].dryRun \/ chosen[r] = {} THEN Exit(r, 0)
     ELSE Goto(r, "write") \/ Exit(r, 1)
  /\ taken' = [taken EXCEPT ![r] = {}]
  /\ UNCHANGED <<files, cmd, at, skipped, absent, chosen, failed, told, edits>>

FirstChosen(r, i) == i \in chosen[r] /\ \A j \in chosen[r] : i <= j

(* YAMLWriter with errorMode "collect": it overwrites, and goes on.        *)
WriteArtifact(r) ==
  /\ pc[r] = "write"
  /\ \E i \in chosen[r], k \in Counters :
       LET name == Candidate(cmd[r], i, k) IN
       /\ FirstChosen(r, i) /\ Given(cmd[r], i, k, taken[r])
       /\ taken' = [taken EXCEPT ![r] = @ \cup {name}]
       /\ chosen' = [chosen EXCEPT ![r] = @ \ {i}]
       /\ \/ Put(name, Whole(r)) /\ UNCHANGED failed
          \/ WriteFails(r, name) /\ failed' = [failed EXCEPT ![r] = TRUE]
  /\ UNCHANGED <<pc, cmd, at, skipped, absent, told, exit, edits>>

(* Variant with a bug: a failure is reported and the exit code forgotten.  *)
FinishGenerateZero(r) ==
  /\ pc[r] = "write" /\ chosen[r] = {}
  /\ Exit(r, 0)
  /\ UNCHANGED <<files, cmd, locals, edits>>

FinishGenerate(r) ==
  /\ pc[r] = "write" /\ chosen[r] = {}
  /\ Exit(r, IF failed[r] THEN 1 ELSE 0)
  /\ UNCHANGED <<files, cmd, locals, edits>>

-----------------------------------------------------------------------------
(* What happens around the runs.                                           *)

(* The name a run is about to write, if it is.                             *)
InHand(r, name) ==
  \/ pc[r] = "first" /\ name = Scaffold(cmd[r])
  \/ pc[r] = "src" /\ name = Source(cmd[r])
  \/ /\ pc[r] = "write"
     /\ \E i \in chosen[r], k \in Counters :
          /\ FirstChosen(r, i) /\ Given(cmd[r], i, k, taken[r])
          /\ name = Candidate(cmd[r], i, k)

(* The run is killed, in the middle of a write perhaps.                    *)
Kill(r) ==
  /\ pc[r] \notin {"done", "killed"}
  /\ UNCHANGED files \/ \E n \in Names : InHand(r, n) /\ Put(n, Torn(r))
  /\ Goto(r, "killed")
  /\ UNCHANGED <<cmd, locals, edits>>

(* The user makes or changes a file; nobody removes one.                   *)
Edit(name) ==
  /\ edits < MaxEdits /\ edits' = edits + 1
  /\ Put(name, Whole(User))
  /\ UNCHANGED <<pc, cmd, locals, exit>>

InitModule(r) ==
  \/ StartInit(r) \/ MakeDirectory(r) \/ GuardOverwrite(r) \/ WriteScaffold(r)
  \/ MakeSourceDirectory(r) \/ LookForSource(r) \/ WriteSource(r)
Openapi(r) ==
  \/ LoadAndScan(r) \/ CheckFile(r) \/ StartWriter(r)
  \/ WriteArtifact(r) \/ FinishGenerate(r)

Next ==
  \/ \E r \in Runs : InitModule(r) \/ Openapi(r) \/ Kill(r)
  \/ \E n \in Names : Edit(n)

Spec == Init /\ [][Next]_vars

-----------------------------------------------------------------------------
Labels == {"start", "mkdir", "guard", "first", "mksrc", "looksrc", "src",
           "check", "write", "done", "killed"}

TypeOK ==
  /\ files \in [Names -> Contents]
  /\ pc \in [Runs -> Labels]
  /\ cmd \in [Runs -> Commands]
  /\ at \in [Runs -> Nat \ {0}]
  /\ taken \in [Runs -> SUBSET Names]
  /\ skipped \in [Runs -> SUBSET Names]
  /\ absent \in [Runs -> SUBSET Names]
  /\ chosen \in [Runs -> SUBSET Nat]
  /\ failed \in [Runs -> BOOLEAN]
  /\ told \in [Runs -> SUBSET Names]
  /\ exit \in [Runs -> {0, 1, 2, 47}]
  /\ edits \in 0..MaxEdits

(* A scanned module whose names no other module of the batch may be given. *)
Alone(c, i) ==
  \A j \in DOMAIN c.batch \ {i}, k, l \in Counters :
    Candidate(c, i, k) # Candidate(c, j, l)

Contested(c, name) ==
  \E i \in DOMAIN c.batch, k \in Counters :
    name = Candidate(c, i, k) /\ ~Alone(c, i)

(* Without --force a run replaces no file that it saw: what it replaces    *)
(* was looked for and found absent, so it was made in the meantime. Only   *)
(* generate, with two modules whose sanitised ids compete for a name, may  *)
(* do otherwise: the writer counts again over the modules that are left.   *)
NoKnownFileReplaced ==
  [][\A r \in Runs, n \in Names :
       /\ ~cmd[r].force
       /\ Exists(n) /\ files'[n] # files[n] /\ files'[n].by = r
       => n \in absent[r] \/ Contested(cmd[r], n)]_vars

(* A binding whose source file does not exist belongs to a run of init     *)
(* that is on its way there, was killed, or has failed and told the user   *)
(* which file to remove.                                                   *)
HalfScaffoldNamed ==
  \A r \in Runs :
    /\ cmd[r].tool = "init" /\ cmd[r].style = "binding"
    /\ files[Scaffold(cmd[r])] = Whole(r)
    /\ ~Exists(Source(cmd[r]))
    => \/ pc[r] \in {"mksrc", "looksrc", "src", "killed"}
       \/ pc[r] = "done" /\ exit[r] = 1 /\ Scaffold(cmd[r]) \in told[r]

(* Exit code 0 means that the files are there: none that the run wrote is  *)
(* cut off, and init has its file, and a binding its source, and every     *)
(* scanned module of a real generate one of its names.                     *)
ZeroMeansThere ==
  \A r \in Runs :
    pc[r] = "done" /\ exit[r] = 0 =>
      /\ \A n \in Names : files[n] # Torn(r)
      /\ cmd[r].tool = "init" =>
           /\ Exists(Scaffold(cmd[r]))
           /\ cmd[r].style = "binding" => Exists(Source(cmd[r]))
      /\ cmd[r].tool = "generate" /\ ~cmd[r].dryRun =>
           \A i \in DOMAIN cmd[r].batch :
             \E k \in Counters : Exists(Candidate(cmd[r], i, k))

=============================================================================
