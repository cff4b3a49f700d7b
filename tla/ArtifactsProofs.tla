--------------------------- MODULE ArtifactsProofs ---------------------------
(***************************************************************************)
(* Proofs about Artifacts for every set of runs, command lines and edits.  *)
(* The argument is per run: what a run knows of itself is kept by its own  *)
(* steps, action by action, and by everybody else's steps because those    *)
(* leave its variables alone, write no file in its name and remove none.   *)
(***************************************************************************)
EXTENDS Artifacts, TLAPS

Contenders == Runs \cup {User, Nobody}

(* Where a run stands fits its command line.                               *)
Staged(r) ==
  /\ pc[r] \in {"mkdir", "guard", "first", "mksrc", "looksrc", "src"} => cmd[r].tool = "init"
  /\ pc[r] \in {"mksrc", "looksrc", "src"} => cmd[r].style = "binding"
  /\ pc[r] \in {"check", "write"} => cmd[r].tool = "generate"

(* A run has written nothing before its first write, and a file it has cut *)
(* off shows in how it ends.                                               *)
Written(r) ==
  /\ pc[r] \in {"start", "mkdir", "guard", "first", "check"} =>
       \A n \in Names : files[n].by # r
  /\ \A n \in Names : files[n] = Torn(r) =>
       \/ pc[r] = "killed"
       \/ pc[r] = "done" /\ exit[r] = 1
       \/ pc[r] = "write" /\ failed[r]

(* The files of a scaffold, as far as the run has come.                    *)
Scaffolded(r) ==
  /\ pc[r] \in {"mksrc", "looksrc", "src"} => Exists(Scaffold(cmd[r]))
  /\ pc[r] = "done" /\ exit[r] = 0 /\ cmd[r].tool = "init" =>
       /\ Exists(Scaffold(cmd[r]))
       /\ cmd[r].style = "binding" => Exists(Source(cmd[r]))

Named(r, i) == \E k \in Counters : Exists(Candidate(cmd[r], i, k))

(* Every module that is past the check is still to be written, or has a    *)
(* file, or the writer has failed.                                         *)
Batched(r) ==
  /\ chosen[r] \subseteq DOMAIN cmd[r].batch
  /\ pc[r] = "start" => chosen[r] = {} /\ at[r] = 1
  /\ pc[r] = "check" =>
       /\ at[r] <= Len(cmd[r].batch) + 1
       /\ \A i \in DOMAIN cmd[r].batch :
            IF i < at[r] THEN i \in chosen[r] \/ Named(r, i) ELSE i \notin chosen[r]
  /\ pc[r] = "write" =>
       \A i \in DOMAIN cmd[r].batch : i \in chosen[r] \/ Named(r, i) \/ failed[r]
  /\ pc[r] = "done" /\ exit[r] = 0 /\ cmd[r].tool = "generate" /\ ~cmd[r].dryRun =>
       \A i \in DOMAIN cmd[r].batch : Named(r, i)

(* The names given away in a pass belong to modules the pass is done with. *)
Counted(r) ==
  /\ pc[r] = "start" => taken[r] = {}
  /\ pc[r] = "check" =>
       \A n \in taken[r] : \E j \in DOMAIN cmd[r].batch, l \in Counters :
         j < at[r] /\ n = Candidate(cmd[r], j, l)
  /\ pc[r] = "write" =>
       \A n \in taken[r] : \E j \in DOMAIN cmd[r].batch \ chosen[r], l \in Counters :
         n = Candidate(cmd[r], j, l)

(* What a run without --force is about to write, it has looked for.        *)
Looked(r) ==
  ~cmd[r].force =>
    /\ pc[r] = "first" => Scaffold(cmd[r]) \in absent[r]
    /\ pc[r] = "src" => Source(cmd[r]) \in absent[r]
    /\ \A i \in chosen[r] : Alone(cmd[r], i) => Candidate(cmd[r], i, 0) \in absent[r]

(* HalfScaffoldNamed of one run.                                           *)
HalfNamed(r) ==
  /\ cmd[r].tool = "init" /\ cmd[r].style = "binding"
  /\ files[Scaffold(cmd[r])] = Whole(r)
  /\ ~Exists(Source(cmd[r]))
  => \/ pc[r] \in {"mksrc", "looksrc", "src", "killed"}
     \/ pc[r] = "done" /\ exit[r] = 1 /\ Scaffold(cmd[r]) \in told[r]

RunInv(r) ==
  /\ Staged(r) /\ Written(r) /\ Scaffolded(r) /\ Batched(r) /\ Counted(r)
  /\ Looked(r) /\ HalfNamed(r)

IInv == TypeOK /\ \A r \in Runs : RunInv(r)

StepOf(r) == InitModule(r) \/ Openapi(r) \/ Kill(r)

(* A file is as it was, or somebody other than the run has written it.     *)
Foreign(r, n) == files'[n] = files[n] \/ (files'[n].by # r /\ files'[n] # Nothing)

(* What the steps of others are to a run.                                  *)
Calm(r) ==
  /\ pc'[r] = pc[r] /\ cmd'[r] = cmd[r] /\ at'[r] = at[r] /\ taken'[r] = taken[r]
  /\ absent'[r] = absent[r] /\ chosen'[r] = chosen[r] /\ failed'[r] = failed[r]
  /\ told'[r] = told[r] /\ exit'[r] = exit[r]
  /\ \A n \in Names : Foreign(r, n)

-----------------------------------------------------------------------------
(* Every name a command line can lead to is one of the names.              *)
LEMMA NamesOfCommand ==
  ASSUME NEW c \in Commands
  PROVE  /\ Scaffold(c) \in Names /\ Source(c) \in Names
         /\ \A i \in DOMAIN c.batch, k \in Counters : Candidate(c, i, k) \in Names
<1>1. Scaffold(c) \in {Scaffold(d) : d \in Commands}
  OBVIOUS
<1>2. Source(c) \in {Source(d) : d \in Commands}
  OBVIOUS
<1>3. ASSUME NEW i \in DOMAIN c.batch, NEW k \in Counters
      PROVE  Candidate(c, i, k) \in Names
  <2>1. Candidate(c, i, k) \in {Candidate(c, j, l) : j \in DOMAIN c.batch, l \in Counters}
    OBVIOUS
  <2> QED
    BY <2>1 DEF Names
<1> QED
  BY <1>1, <1>2, <1>3 DEF Names

(* What is written is a content, and it is not nothing.                    *)
LEMMA ContentsWritten ==
  ASSUME NEW w \in Runs \cup {User}
  PROVE  /\ Whole(w) \in Contents /\ Torn(w) \in Contents
         /\ Whole(w) # Nothing /\ Torn(w) # Nothing
         /\ Whole(w).by = w /\ Torn(w).by = w
         /\ Whole(w) # Torn(w)
         /\ Nothing.by = Nobody
BY WritersAssumption DEF Whole, Torn, Nothing, Contents

(* What Put does to the files.                                             *)
LEMMA PutFacts ==
  ASSUME TypeOK, NEW name \in Names, NEW content \in Contents, Put(name, content)
  PROVE  /\ files' \in [Names -> Contents]
         /\ files'[name] = content
         /\ \A n \in Names : n # name => files'[n] = files[n]
BY DEF TypeOK, Put

LEMMA InitIInv == Init => IInv
<1> SUFFICES ASSUME Init PROVE IInv
  OBVIOUS
<1>1. Nothing \in Contents /\ Nothing.by = Nobody
  BY DEF Nothing, Contents
<1>2. TypeOK
  BY <1>1, CommandsAssumption DEF Init, TypeOK, Labels
<1>3. ASSUME NEW r \in Runs PROVE RunInv(r)
  <2> USE DEF Init
  <2>1. pc[r] = "start" /\ chosen[r] = {} /\ at[r] = 1 /\ taken[r] = {}
    OBVIOUS
  <2>2. \A n \in Names : files[n] = Nothing
    OBVIOUS
  <2>3. \A n \in Names : files[n].by # r /\ files[n] # Torn(r) /\ files[n] # Whole(r)
    BY <2>2, <1>1, ContentsWritten, WritersAssumption
  <2>4. Staged(r) /\ Scaffolded(r) /\ Counted(r) /\ Looked(r)
    BY <2>1 DEF Staged, Scaffolded, Counted, Looked
  <2>5. Written(r)
    BY <2>3 DEF Written
  <2>6. Batched(r)
    BY <2>1 DEF Batched
  <2>7. HalfNamed(r)
    <3>1. cmd[r] \in Commands
      BY <1>2 DEF TypeOK
    <3> QED
      BY <2>3, <3>1, NamesOfCommand DEF HalfNamed
  <2> QED
    BY <2>4, <2>5, <2>6, <2>7 DEF RunInv
<1> QED
  BY <1>2, <1>3 DEF IInv

-----------------------------------------------------------------------------
(* What a step of a run does to the files: nothing, or it writes the name  *)
(* it has in hand, whole or cut off.                                       *)
LEMMA WritesInHand ==
  ASSUME IInv, NEW q \in Runs, StepOf(q)
  PROVE  \/ files' = files
         \/ \E n \in Names : /\ InHand(q, n)
                             /\ Put(n, Whole(q)) \/ Put(n, Torn(q))
<1>1. cmd[q] \in Commands /\ chosen[q] \subseteq DOMAIN cmd[q].batch
  BY DEF IInv, TypeOK, RunInv, Batched
<1>2. Scaffold(cmd[q]) \in Names /\ Source(cmd[q]) \in Names
  BY <1>1, NamesOfCommand
<1>3. CASE WriteScaffold(q)
  BY <1>2, <1>3 DEF WriteScaffold, WriteFails, InHand
<1>4. CASE WriteSource(q)
  BY <1>2, <1>4 DEF WriteSource, WriteFails, InHand
<1>5. CASE WriteArtifact(q)
  <2>1. PICK i \in chosen[q], k \in Counters :
          /\ FirstChosen(q, i) /\ Given(cmd[q], i, k, taken[q])
          /\ Candidate(cmd[q], i, k) \in Names
          /\ \/ Put(Candidate(cmd[q], i, k), Whole(q))
             \/ WriteFails(q, Candidate(cmd[q], i, k))
    BY <1>5, <1>1, NamesOfCommand DEF WriteArtifact
  <2>2. InHand(q, Candidate(cmd[q], i, k))
    BY <1>5, <2>1 DEF InHand, WriteArtifact
  <2> QED
    BY <2>1, <2>2 DEF WriteFails
<1>6. CASE Kill(q)
  BY <1>6 DEF Kill
<1>7. CASE StartInit(q) \/ MakeDirectory(q) \/ GuardOverwrite(q)
           \/ MakeSourceDirectory(q) \/ LookForSource(q)
  BY <1>7 DEF StartInit, MakeDirectory, GuardOverwrite, MakeSourceDirectory, LookForSource
<1>8. CASE LoadAndScan(q) \/ CheckFile(q) \/ StartWriter(q) \/ FinishGenerate(q)
  BY <1>8 DEF LoadAndScan, CheckFile, StartWriter, FinishGenerate
<1> QED
  BY <1>3, <1>4, <1>5, <1>6, <1>7, <1>8 DEF StepOf, InitModule, Openapi

(* A step of a run leaves alone what other runs know of themselves.        *)
LEMMA LeavesOthers ==
  ASSUME TypeOK, NEW q \in Runs, StepOf(q), NEW r \in Runs, r # q
  PROVE  /\ pc'[r] = pc[r] /\ cmd'[r] = cmd[r] /\ at'[r] = at[r]
         /\ taken'[r] = taken[r] /\ absent'[r] = absent[r]
         /\ chosen'[r] = chosen[r] /\ failed'[r] = failed[r]
         /\ told'[r] = told[r] /\ exit'[r] = exit[r]
<1> USE DEF TypeOK, locals, Goto, Exit, Note
<1>1. CASE StartInit(q)
  BY <1>1 DEF StartInit
<1>2. CASE MakeDirectory(q)
  BY <1>2 DEF MakeDirectory
<1>3. CASE GuardOverwrite(q)
  BY <1>3 DEF GuardOverwrite
<1>4. CASE WriteScaffold(q)
  BY <1>4 DEF WriteScaffold
<1>5. CASE MakeSourceDirectory(q)
  BY <1>5 DEF MakeSourceDirectory, FailNaming
<1>6. CASE LookForSource(q)
  BY <1>6 DEF LookForSource
<1>7. CASE WriteSource(q)
  BY <1>7 DEF WriteSource, FailNaming
<1>8. CASE LoadAndScan(q)
  BY <1>8 DEF LoadAndScan
<1>9. CASE CheckFile(q)
  BY <1>9 DEF CheckFile, KeepForWriter
<1>10. CASE StartWriter(q)
  BY <1>10 DEF StartWriter
<1>11. CASE WriteArtifact(q)
  BY <1>11 DEF WriteArtifact
<1>12. CASE FinishGenerate(q)
  BY <1>12 DEF FinishGenerate
<1>13. CASE Kill(q)
  BY <1>13 DEF Kill
<1> QED
  BY <1>1, <1>2, <1>3, <1>4, <1>5, <1>6, <1>7, <1>8, <1>9, <1>10, <1>11, <1>12, <1>13
  DEF StepOf, InitModule, Openapi

(* The files after a step of a run: contents still, and what changed was   *)
(* written by the run.                                                     *)
LEMMA FilesAfter ==
  ASSUME IInv, NEW q \in Runs, StepOf(q)
  PROVE  /\ files' \in [Names -> Contents]
         /\ \A n \in Names : \/ files'[n] = files[n]
                            \/ /\ InHand(q, n)
                               /\ files'[n] \in {Whole(q), Torn(q)}
<1>1. TypeOK
  BY DEF IInv
<1>2. CASE files' = files
  BY <1>1, <1>2 DEF TypeOK
<1>3. ASSUME NEW n \in Names, InHand(q, n), Put(n, Whole(q)) \/ Put(n, Torn(q))
      PROVE  /\ files' \in [Names -> Contents]
             /\ files'[n] \in {Whole(q), Torn(q)}
             /\ \A m \in Names : m # n => files'[m] = files[m]
  BY <1>1, <1>3, ContentsWritten, PutFacts
<1> QED
  BY <1>2, <1>3, WritesInHand

LEMMA CalmOthers ==
  ASSUME IInv, NEW q \in Runs, StepOf(q), NEW r \in Runs, r # q
  PROVE  Calm(r)
<1>1. \A n \in Names : Foreign(r, n)
  BY FilesAfter, ContentsWritten DEF Foreign
<1>2. TypeOK
  BY DEF IInv
<1> QED
  BY <1>1, <1>2, LeavesOthers DEF Calm

LEMMA CalmEdit ==
  ASSUME TypeOK, NEW name \in Names, Edit(name), NEW r \in Runs
  PROVE  Calm(r) /\ files' \in [Names -> Contents]
<1>1. /\ files' \in [Names -> Contents]
      /\ files'[name] = Whole(User)
      /\ \A n \in Names : n # name => files'[n] = files[n]
  BY PutFacts, ContentsWritten DEF Edit
<1>2. \A n \in Names : Foreign(r, n)
  BY <1>1, ContentsWritten, WritersAssumption DEF Foreign
<1> QED
  BY <1>1, <1>2 DEF Calm, Edit, locals

(* What a run knows of itself outlasts the steps of others.                *)
LEMMA CalmKeeps ==
  ASSUME TypeOK, NEW r \in Runs, RunInv(r), Calm(r)
  PROVE  RunInv(r)'
<1>1. cmd[r] \in Commands
  BY DEF TypeOK
<1> DEFINE S == Scaffold(cmd[r])
           T == Source(cmd[r])
<1>2. S \in Names /\ T \in Names
  BY <1>1, NamesOfCommand
<1>3. \A n \in Names : Exists(n) => Exists(n)'
  BY DEF Exists, Calm, Foreign
<1>4. \A n \in Names : files'[n].by = r => files'[n] = files[n]
  BY DEF Calm, Foreign
<1>5. /\ pc'[r] = pc[r] /\ cmd'[r] = cmd[r] /\ at'[r] = at[r] /\ taken'[r] = taken[r]
      /\ absent'[r] = absent[r] /\ chosen'[r] = chosen[r] /\ failed'[r] = failed[r]
      /\ told'[r] = told[r] /\ exit'[r] = exit[r]
  BY DEF Calm
<1>6. Staged(r)'
  BY <1>5 DEF RunInv, Staged
<1>7. Written(r)'
  <2>1. \A n \in Names : files'[n] = Torn(r) => files[n] = Torn(r)
    BY <1>4, ContentsWritten
  <2> QED
    BY <2>1, <1>4, <1>5 DEF RunInv, Written
<1>8. Scaffolded(r)'
  BY <1>2, <1>3, <1>5 DEF RunInv, Scaffolded
<1>9. Batched(r)'
  <2>1. \A i \in DOMAIN cmd[r].batch : Named(r, i) => Named(r, i)'
    BY <1>1, <1>3, <1>5, NamesOfCommand DEF Named
  <2> QED
    BY <2>1, <1>5 DEF RunInv, Batched
<1>10. Counted(r)'
  BY <1>5 DEF RunInv, Counted
<1>11. Looked(r)'
  BY <1>5 DEF RunInv, Looked
<1>12. HalfNamed(r)'
  <2>1. files'[S] = Whole(r) => files[S] = Whole(r)
    BY <1>2, <1>4, ContentsWritten
  <2> QED
    BY <2>1, <1>2, <1>3, <1>5 DEF RunInv, HalfNamed
<1> QED
  BY <1>6, <1>7, <1>8, <1>9, <1>10, <1>11, <1>12 DEF RunInv

-----------------------------------------------------------------------------
(* The own steps of a run that leave the files alone.                      *)
LEMMA OwnQuiet ==
  ASSUME IInv, NEW r \in Runs, UNCHANGED files,
         \/ StartInit(r) \/ MakeDirectory(r) \/ GuardOverwrite(r)
         \/ MakeSourceDirectory(r) \/ LookForSource(r)
         \/ LoadAndScan(r) \/ StartWriter(r) \/ FinishGenerate(r)
  PROVE  RunInv(r)'
<1>1. TypeOK /\ RunInv(r)
  BY DEF IInv
<1>2. /\ cmd[r] \in Commands
      /\ Scaffold(cmd[r]) \in Names /\ Source(cmd[r]) \in Names
  BY <1>1, NamesOfCommand DEF TypeOK
<1>3. /\ cmd[r].tool \in {"init", "generate", "scan"}
      /\ DOMAIN cmd[r].batch = 1..Len(cmd[r].batch)
      /\ Len(cmd[r].batch) \in Nat /\ at[r] \in Nat
  BY <1>1, <1>2, CommandsAssumption DEF TypeOK
<1> USE DEF TypeOK, Goto, Exit, Note, locals
<1>4. CASE StartInit(r)
  <2>1. Staged(r)'
    BY <1>1, <1>2, <1>3, <1>4 DEF StartInit, RunInv, Staged
  <2>2. Written(r)'
    BY <1>1, <1>2, <1>3, <1>4 DEF StartInit, RunInv, Written
  <2>3. Scaffolded(r)'
    BY <1>1, <1>2, <1>3, <1>4 DEF StartInit, RunInv, Scaffolded, Exists
  <2>4. Batched(r)'
    BY <1>1, <1>2, <1>3, <1>4 DEF StartInit, RunInv, Batched, Named, Exists
  <2>5. Counted(r)'
    BY <1>1, <1>2, <1>3, <1>4 DEF StartInit, RunInv, Counted
  <2>6. Looked(r)'
    BY <1>1, <1>2, <1>3, <1>4 DEF StartInit, RunInv, Looked
  <2>7. HalfNamed(r)'
    BY <1>1, <1>2, <1>3, <1>4 DEF StartInit, RunInv, HalfNamed, Exists
  <2> QED
    BY <2>1, <2>2, <2>3, <2>4, <2>5, <2>6, <2>7 DEF RunInv
<1>5. CASE MakeDirectory(r)
  <2>1. Staged(r)'
    BY <1>1, <1>2, <1>3, <1>5 DEF MakeDirectory, RunInv, Staged
  <2>2. Written(r)'
    BY <1>1, <1>2, <1>3, <1>5 DEF MakeDirectory, RunInv, Written
  <2>3. Scaffolded(r)'
    BY <1>1, <1>2, <1>3, <1>5 DEF MakeDirectory, RunInv, Scaffolded, Exists
  <2>4. Batched(r)'
    BY <1>1, <1>2, <1>3, <1>5 DEF MakeDirectory, RunInv, Batched, Named, Exists
  <2>5. Counted(r)'
    BY <1>1, <1>2, <1>3, <1>5 DEF MakeDirectory, RunInv, Counted
  <2>6. Looked(r)'
    BY <1>1, <1>2, <1>3, <1>5 DEF MakeDirectory, RunInv, Looked
  <2>7. HalfNamed(r)'
    BY <1>1, <1>2, <1>3, <1>5 DEF MakeDirectory, RunInv, HalfNamed, Exists
  <2> QED
    BY <2>1, <2>2, <2>3, <2>4, <2>5, <2>6, <2>7 DEF RunInv
<1>6. CASE GuardOverwrite(r)
  <2>1. Staged(r)'
    BY <1>1, <1>2, <1>3, <1>6 DEF GuardOverwrite, RunInv, Staged
  <2>2. Written(r)'
    BY <1>1, <1>2, <1>3, <1>6 DEF GuardOverwrite, RunInv, Written
  <2>3. Scaffolded(r)'
    BY <1>1, <1>2, <1>3, <1>6 DEF GuardOverwrite, RunInv, Scaffolded, Exists
  <2>4. Batched(r)'
    BY <1>1, <1>2, <1>3, <1>6 DEF GuardOverwrite, RunInv, Batched, Named, Exists
  <2>5. Counted(r)'
    BY <1>1, <1>2, <1>3, <1>6 DEF GuardOverwrite, RunInv, Counted
  <2>6. Looked(r)'
    BY <1>1, <1>2, <1>3, <1>6 DEF GuardOverwrite, RunInv, Looked
  <2>7. HalfNamed(r)'
    BY <1>1, <1>2, <1>3, <1>6 DEF GuardOverwrite, RunInv, HalfNamed, Exists
  <2> QED
    BY <2>1, <2>2, <2>3, <2>4, <2>5, <2>6, <2>7 DEF RunInv
<1>7. CASE MakeSourceDirectory(r)
  <2>1. Staged(r)'
    BY <1>1, <1>2, <1>3, <1>7 DEF MakeSourceDirectory, FailNaming, RunInv, Staged
  <2>2. Written(r)'
    BY <1>1, <1>2, <1>3, <1>7 DEF MakeSourceDirectory, FailNaming, RunInv, Written
  <2>3. Scaffolded(r)'
    BY <1>1, <1>2, <1>3, <1>7 DEF MakeSourceDirectory, FailNaming, RunInv, Scaffolded, Exists
  <2>4. Batched(r)'
    BY <1>1, <1>2, <1>3, <1>7 DEF MakeSourceDirectory, FailNaming, RunInv, Batched, Named, Exists
  <2>5. Counted(r)'
    BY <1>1, <1>2, <1>3, <1>7 DEF MakeSourceDirectory, FailNaming, RunInv, Counted
  <2>6. Looked(r)'
    BY <1>1, <1>2, <1>3, <1>7 DEF MakeSourceDirectory, FailNaming, RunInv, Looked
  <2>7. HalfNamed(r)'
    BY <1>1, <1>2, <1>3, <1>7 DEF MakeSourceDirectory, FailNaming, RunInv, HalfNamed, Exists
  <2> QED
    BY <2>1, <2>2, <2>3, <2>4, <2>5, <2>6, <2>7 DEF RunInv
<1>8. CASE LookForSource(r)
  <2>1. Staged(r)'
    BY <1>1, <1>2, <1>3, <1>8 DEF LookForSource, RunInv, Staged
  <2>2. Written(r)'
    BY <1>1, <1>2, <1>3, <1>8 DEF LookForSource, RunInv, Written
  <2>3. Scaffolded(r)'
    BY <1>1, <1>2, <1>3, <1>8 DEF LookForSource, RunInv, Scaffolded, Exists
  <2>4. Batched(r)'
    <3>1. cmd[r].tool = "init" /\ cmd'[r] = cmd[r] /\ chosen'[r] = chosen[r]
      BY <1>1, <1>8 DEF LookForSource, RunInv, Staged
    <3>2. pc'[r] \in {"done", "src"}
      BY <1>1, <1>8 DEF LookForSource
    <3> QED
      BY <1>1, <3>1, <3>2 DEF RunInv, Batched
  <2>5. Counted(r)'
    BY <1>1, <1>2, <1>3, <1>8 DEF LookForSource, RunInv, Counted
  <2>6. Looked(r)'
    BY <1>1, <1>2, <1>3, <1>8 DEF LookForSource, RunInv, Looked
  <2>7. HalfNamed(r)'
    BY <1>1, <1>2, <1>3, <1>8 DEF LookForSource, RunInv, HalfNamed, Exists
  <2> QED
    BY <2>1, <2>2, <2>3, <2>4, <2>5, <2>6, <2>7 DEF RunInv
<1>9. CASE LoadAndScan(r)
  <2>1. Staged(r)'
    BY <1>1, <1>2, <1>3, <1>9 DEF LoadAndScan, RunInv, Staged
  <2>2. Written(r)'
    BY <1>1, <1>2, <1>3, <1>9 DEF LoadAndScan, RunInv, Written
  <2>3. Scaffolded(r)'
    BY <1>1, <1>2, <1>3, <1>9 DEF LoadAndScan, RunInv, Scaffolded, Exists
  <2>4. Batched(r)'
    BY <1>1, <1>2, <1>3, <1>9 DEF LoadAndScan, RunInv, Batched, Named, Exists
  <2>5. Counted(r)'
    BY <1>1, <1>2, <1>3, <1>9 DEF LoadAndScan, RunInv, Counted
  <2>6. Looked(r)'
    BY <1>1, <1>2, <1>3, <1>9 DEF LoadAndScan, RunInv, Looked
  <2>7. HalfNamed(r)'
    BY <1>1, <1>2, <1>3, <1>9 DEF LoadAndScan, RunInv, HalfNamed, Exists
  <2> QED
    BY <2>1, <2>2, <2>3, <2>4, <2>5, <2>6, <2>7 DEF RunInv
<1>10. CASE StartWriter(r)
  <2>1. Staged(r)'
    BY <1>1, <1>2, <1>3, <1>10 DEF StartWriter, RunInv, Staged
  <2>2. Written(r)'
    BY <1>1, <1>2, <1>3, <1>10 DEF StartWriter, RunInv, Written
  <2>3. Scaffolded(r)'
    <3>1. cmd[r].tool = "generate" /\ cmd'[r] = cmd[r]
      BY <1>1, <1>10 DEF StartWriter, RunInv, Staged
    <3>2. pc'[r] \in {"done", "write"}
      BY <1>1, <1>10 DEF StartWriter
    <3> QED
      BY <3>1, <3>2 DEF Scaffolded
  <2>4. Batched(r)'
    <3>1. \A i \in DOMAIN cmd[r].batch : i \in chosen[r] \/ Named(r, i)
      BY <1>1, <1>3, <1>10 DEF StartWriter, RunInv, Batched
    <3>2. cmd'[r] = cmd[r] /\ chosen'[r] = chosen[r] /\ pc'[r] \in {"done", "write"}
      BY <1>1, <1>10 DEF StartWriter
    <3>3. pc'[r] = "done" /\ exit'[r] = 0 => cmd[r].dryRun \/ chosen[r] = {}
      BY <1>1, <1>10 DEF StartWriter
    <3>4. \A i \in DOMAIN cmd[r].batch : Named(r, i) => Named(r, i)'
      BY <3>2 DEF Named, Exists
    <3> QED
      BY <1>1, <3>1, <3>2, <3>3, <3>4 DEF RunInv, Batched
  <2>5. Counted(r)'
    BY <1>1, <1>2, <1>3, <1>10 DEF StartWriter, RunInv, Counted
  <2>6. Looked(r)'
    BY <1>1, <1>2, <1>3, <1>10 DEF StartWriter, RunInv, Looked
  <2>7. HalfNamed(r)'
    BY <1>1, <1>2, <1>3, <1>10 DEF StartWriter, RunInv, HalfNamed, Exists
  <2> QED
    BY <2>1, <2>2, <2>3, <2>4, <2>5, <2>6, <2>7 DEF RunInv
<1>11. CASE FinishGenerate(r)
  <2>1. Staged(r)'
    BY <1>1, <1>2, <1>3, <1>11 DEF FinishGenerate, RunInv, Staged
  <2>2. Written(r)'
    BY <1>1, <1>2, <1>3, <1>11 DEF FinishGenerate, RunInv, Written
  <2>3. Scaffolded(r)'
    <3>1. cmd[r].tool = "generate" /\ cmd'[r] = cmd[r] /\ pc'[r] = "done"
      BY <1>1, <1>11 DEF FinishGenerate, RunInv, Staged
    <3> QED
      BY <3>1 DEF Scaffolded
  <2>4. Batched(r)'
    <3>1. /\ cmd'[r] = cmd[r] /\ chosen'[r] = chosen[r] /\ chosen[r] = {}
          /\ pc'[r] = "done" /\ (exit'[r] = 0 => ~failed[r])
      BY <1>1, <1>11 DEF FinishGenerate
    <3>2. \A i \in DOMAIN cmd[r].batch : Named(r, i) \/ failed[r]
      BY <1>1, <1>11, <3>1 DEF FinishGenerate, RunInv, Batched
    <3>3. \A i \in DOMAIN cmd[r].batch : Named(r, i) => Named(r, i)'
      BY <3>1 DEF Named, Exists
    <3> QED
      BY <3>1, <3>2, <3>3 DEF Batched
  <2>5. Counted(r)'
    BY <1>1, <1>2, <1>3, <1>11 DEF FinishGenerate, RunInv, Counted
  <2>6. Looked(r)'
    BY <1>1, <1>2, <1>3, <1>11 DEF FinishGenerate, RunInv, Looked
  <2>7. HalfNamed(r)'
    BY <1>1, <1>2, <1>3, <1>11 DEF FinishGenerate, RunInv, HalfNamed, Exists
  <2> QED
    BY <2>1, <2>2, <2>3, <2>4, <2>5, <2>6, <2>7 DEF RunInv
<1> QED
  BY <1>4, <1>5, <1>6, <1>7, <1>8, <1>9, <1>10, <1>11

(* A module that competes with none is given its own name.                 *)
LEMMA AloneFirst ==
  ASSUME NEW c, NEW i \in DOMAIN c.batch, NEW k \in Counters, NEW given,
         Alone(c, i), Given(c, i, k, given),
         \A n \in given : \E j \in DOMAIN c.batch \ {i}, l \in Counters :
                            n = Candidate(c, j, l)
  PROVE  k = 0
<1>1. k \in Nat /\ Len(Digits) \in Nat /\ 0 \in Counters
  BY CommandsAssumption DEF Counters
<1>2. SUFFICES ASSUME k # 0 PROVE FALSE
  OBVIOUS
<1>3. 0 \in 0..(k - 1)
  BY <1>1, <1>2
<1>4. Candidate(c, i, 0) \in given
  BY <1>3 DEF Given
<1> QED
  BY <1>1, <1>4 DEF Alone

(* The own steps of init that write, and the end by a kill.                *)
LEMMA OwnInitWrite ==
  ASSUME IInv, NEW r \in Runs, WriteScaffold(r) \/ WriteSource(r) \/ Kill(r)
  PROVE  RunInv(r)'
<1> DEFINE S == Scaffold(cmd[r])
           T == Source(cmd[r])
<1>1. TypeOK /\ RunInv(r)
  BY DEF IInv
<1>2. cmd[r] \in Commands /\ S \in Names /\ T \in Names
  BY <1>1, NamesOfCommand DEF TypeOK
<1>3. \A n \in Names : Exists(n) => Exists(n)'
  BY <1>1, FilesAfter, ContentsWritten DEF StepOf, InitModule, Exists
<1>4. CASE WriteScaffold(r)
  <2>1. /\ pc[r] = "first" /\ cmd'[r] = cmd[r] /\ chosen'[r] = chosen[r]
        /\ absent'[r] = absent[r]
    BY <1>4 DEF WriteScaffold, locals
  <2>2. \A n \in Names : files[n].by # r
    BY <1>1, <2>1 DEF RunInv, Written
  <2>3. cmd[r].tool = "init"
    BY <1>1, <2>1 DEF RunInv, Staged
  <2>4. CASE Put(S, Whole(r)) /\ (IF cmd[r].style = "binding" THEN Goto(r, "mksrc") ELSE Exit(r, 0))
    <3>1. files'[S] = Whole(r) /\ \A n \in Names : n # S => files'[n] = files[n]
      BY <1>1, <1>2, <2>4, PutFacts, ContentsWritten
    <3>2. IF cmd[r].style = "binding" THEN pc'[r] = "mksrc"
                                      ELSE pc'[r] = "done"
      BY <1>1, <2>4 DEF Goto, Exit, TypeOK
    <3>3. \A n \in Names : files'[n] # Torn(r)
      BY <2>2, <3>1, ContentsWritten
    <3>4. Exists(S)'
      BY <1>2, <2>1, <3>1, ContentsWritten DEF Exists
    <3>5. Staged(r)' /\ Scaffolded(r)' /\ Batched(r)' /\ Counted(r)' /\ Looked(r)'
      BY <1>1, <2>1, <2>3, <3>2, <3>4
      DEF RunInv, Staged, Scaffolded, Batched, Counted, Looked
    <3>6. Written(r)' /\ HalfNamed(r)'
      BY <2>1, <3>2, <3>3 DEF Written, HalfNamed
    <3> QED
      BY <3>5, <3>6 DEF RunInv
  <2>5. CASE WriteFails(r, S) /\ Exit(r, 1)
    <3>1. pc'[r] = "done" /\ exit'[r] = 1
      BY <1>1, <2>5 DEF Exit, TypeOK
    <3>2. files'[S] # Whole(r)
      <4>1. files[S].by # r /\ Whole(r).by = r /\ Whole(r) # Torn(r)
        BY <1>2, <2>2, ContentsWritten
      <4>2. CASE UNCHANGED files
        BY <4>1, <4>2
      <4>3. CASE Put(S, Torn(r))
        BY <1>1, <1>2, <4>1, <4>3, PutFacts, ContentsWritten
      <4> QED
        BY <2>5, <4>2, <4>3 DEF WriteFails
    <3>3. Staged(r)' /\ Scaffolded(r)' /\ Batched(r)' /\ Counted(r)' /\ Looked(r)'
      BY <1>1, <2>1, <3>1
      DEF RunInv, Staged, Scaffolded, Batched, Counted, Looked
    <3>4. Written(r)' /\ HalfNamed(r)'
      BY <2>1, <3>1, <3>2 DEF Written, HalfNamed
    <3> QED
      BY <3>3, <3>4 DEF RunInv
  <2> QED
    BY <1>4, <2>4, <2>5 DEF WriteScaffold
<1>5. CASE WriteSource(r)
  <2>1. /\ pc[r] = "src" /\ cmd'[r] = cmd[r] /\ chosen'[r] = chosen[r]
        /\ absent'[r] = absent[r]
    BY <1>5 DEF WriteSource
  <2>2. \A n \in Names : files[n] # Torn(r)
    BY <1>1, <2>1 DEF RunInv, Written
  <2>3. cmd[r].tool = "init" /\ Exists(S)
    BY <1>1, <2>1 DEF RunInv, Staged, Scaffolded
  <2>4. CASE Put(T, Whole(r)) /\ Exit(r, 0)
    <3>1. files'[T] = Whole(r) /\ \A n \in Names : n # T => files'[n] = files[n]
      BY <1>1, <1>2, <2>4, PutFacts, ContentsWritten
    <3>2. pc'[r] = "done"
      BY <1>1, <2>4 DEF Exit, TypeOK
    <3>3. \A n \in Names : files'[n] # Torn(r)
      BY <2>2, <3>1, ContentsWritten
    <3>4. Exists(T)' /\ Exists(S)'
      BY <1>2, <1>3, <2>1, <2>3, <3>1, ContentsWritten DEF Exists
    <3>5. Staged(r)' /\ Scaffolded(r)' /\ Batched(r)' /\ Counted(r)' /\ Looked(r)'
      BY <1>1, <2>1, <2>3, <3>2, <3>4
      DEF RunInv, Staged, Scaffolded, Batched, Counted, Looked
    <3>6. Written(r)' /\ HalfNamed(r)'
      BY <2>1, <3>2, <3>3, <3>4 DEF Written, HalfNamed
    <3> QED
      BY <3>5, <3>6 DEF RunInv
  <2>5. CASE WriteFails(r, T) /\ FailNaming(r)
    <3>1. pc'[r] = "done" /\ exit'[r] = 1 /\ S \in told'[r]
      BY <1>1, <2>5 DEF FailNaming, Exit, TypeOK
    <3>2. Staged(r)' /\ Scaffolded(r)' /\ Batched(r)' /\ Counted(r)' /\ Looked(r)'
      BY <1>1, <2>1, <3>1
      DEF RunInv, Staged, Scaffolded, Batched, Counted, Looked
    <3>3. Written(r)' /\ HalfNamed(r)'
      BY <2>1, <3>1 DEF Written, HalfNamed
    <3> QED
      BY <3>2, <3>3 DEF RunInv
  <2> QED
    BY <1>5, <2>4, <2>5 DEF WriteSource
<1>6. CASE Kill(r)
  <2>1. /\ pc'[r] = "killed" /\ cmd'[r] = cmd[r] /\ chosen'[r] = chosen[r]
        /\ absent'[r] = absent[r]
    BY <1>1, <1>6 DEF Kill, Goto, locals, TypeOK
  <2> QED
    BY <1>1, <2>1
    DEF RunInv, Staged, Scaffolded, Batched, Counted, Looked, Written, HalfNamed
<1> QED
  BY <1>4, <1>5, <1>6

(* One more module looked at.                                              *)
LEMMA OwnCheck ==
  ASSUME IInv, NEW r \in Runs, CheckFile(r)
  PROVE  RunInv(r)'
<1> DEFINE i == at[r]
           c == cmd[r]
<1>1. TypeOK /\ RunInv(r)
  BY DEF IInv
<1>2. PICK k \in Counters :
        /\ Given(c, i, k, taken[r])
        /\ taken' = [taken EXCEPT ![r] = @ \cup {Candidate(c, i, k)}]
        /\ Note(r, Candidate(c, i, k))
        /\ KeepForWriter(r, Candidate(c, i, k))
  BY DEF CheckFile
<1> DEFINE name == Candidate(c, i, k)
<1>3. /\ c \in Commands /\ i \in DOMAIN c.batch
      /\ DOMAIN c.batch = 1..Len(c.batch) /\ Len(c.batch) \in Nat
      /\ i \in Nat /\ chosen[r] \subseteq DOMAIN c.batch
  BY <1>1, CommandsAssumption DEF CheckFile, TypeOK, RunInv, Batched
<1>4. /\ pc[r] = "check" /\ pc' = pc /\ cmd'[r] = c /\ at'[r] = i + 1
      /\ files' = files /\ exit' = exit /\ failed' = failed /\ told' = told
  BY <1>1 DEF CheckFile, TypeOK
<1>5. taken'[r] = taken[r] \cup {name}
  BY <1>1, <1>2 DEF TypeOK
<1>6. \/ chosen'[r] = chosen[r] /\ Exists(name)
      \/ chosen'[r] = chosen[r] \cup {i} /\ (c.force \/ ~Exists(name))
  BY <1>1, <1>2 DEF KeepForWriter, TypeOK
<1>7. absent'[r] = IF Exists(name) THEN absent[r] ELSE absent[r] \cup {name}
  BY <1>1, <1>2 DEF Note, TypeOK
<1>8. \A n \in taken[r] : \E j \in DOMAIN c.batch, l \in Counters :
        j < i /\ n = Candidate(c, j, l)
  BY <1>1, <1>4 DEF RunInv, Counted
<1>9. Staged(r)' /\ Written(r)' /\ Scaffolded(r)' /\ HalfNamed(r)'
  BY <1>1, <1>4
  DEF RunInv, Staged, Written, Scaffolded, HalfNamed, Exists
<1>10. Batched(r)'
  <2>1. \A j \in DOMAIN c.batch :
          IF j < i THEN j \in chosen[r] \/ Named(r, j) ELSE j \notin chosen[r]
    BY <1>1, <1>4 DEF RunInv, Batched
  <2>2. \A j \in DOMAIN c.batch : Named(r, j)' = Named(r, j)
    BY <1>4 DEF Named, Exists
  <2>3. i \in chosen'[r] \/ Named(r, i)
    BY <1>3, <1>6 DEF Named
  <2>4. chosen'[r] \subseteq DOMAIN c.batch /\ at'[r] <= Len(c.batch) + 1
    BY <1>3, <1>4, <1>6
  <2>5. ASSUME NEW j \in DOMAIN c.batch
        PROVE  IF j < at'[r] THEN j \in chosen'[r] \/ Named(r, j)'
                             ELSE j \notin chosen'[r]
    <3>1. CASE j < i
      BY <1>3, <1>4, <1>6, <2>1, <2>2, <3>1
    <3>2. CASE j = i
      BY <1>3, <1>4, <2>2, <2>3, <3>2
    <3>3. CASE i < j
      BY <1>3, <1>4, <1>6, <2>1, <3>3
    <3> QED
      BY <1>3, <3>1, <3>2, <3>3
  <2> QED
    BY <1>4, <2>4, <2>5 DEF Batched
<1>11. Counted(r)'
  <2>1. i < i + 1 /\ \A j \in DOMAIN c.batch : j < i => j < i + 1
    BY <1>3
  <2>2. \A n \in taken'[r] : \E j \in DOMAIN c.batch, l \in Counters :
          j < i + 1 /\ n = Candidate(c, j, l)
    BY <1>3, <1>5, <1>8, <2>1
  <2> QED
    BY <1>4, <2>2 DEF Counted
<1>12. Looked(r)'
  <2> SUFFICES ASSUME ~c.force, NEW j \in chosen'[r], Alone(c, j)
               PROVE  Candidate(c, j, 0) \in absent'[r]
    BY <1>4 DEF Looked
  <2>1. CASE j \in chosen[r]
    BY <1>1, <1>7, <2>1 DEF RunInv, Looked
  <2>2. CASE j \notin chosen[r]
    <3>1. j = i /\ ~Exists(name)
      BY <1>6, <2>2
    <3>2. \A n \in taken[r] : \E m \in DOMAIN c.batch \ {i}, l \in Counters :
            n = Candidate(c, m, l)
      <4>1. \A m \in DOMAIN c.batch : m < i => m \in DOMAIN c.batch \ {i}
        BY <1>3
      <4> QED
        BY <1>8, <4>1
    <3>3. k = 0
      <4>1. Given(c, i, k, taken[r]) /\ Alone(c, i) /\ i \in DOMAIN c.batch
        BY <1>2, <1>3, <3>1
      <4> HIDE DEF c, i
      <4> QED
        BY <4>1, <3>2, AloneFirst
    <3> QED
      BY <1>7, <3>1, <3>3
  <2> QED
    BY <2>1, <2>2
<1> QED
  BY <1>9, <1>10, <1>11, <1>12 DEF RunInv

(* One more module written, or failed.                                     *)
LEMMA OwnArtifact ==
  ASSUME IInv, NEW r \in Runs, WriteArtifact(r)
  PROVE  RunInv(r)'
<1> DEFINE c == cmd[r]
<1>1. TypeOK /\ RunInv(r)
  BY DEF IInv
<1>2. PICK i \in chosen[r], k \in Counters :
        /\ taken' = [taken EXCEPT ![r] = @ \cup {Candidate(c, i, k)}]
        /\ chosen' = [chosen EXCEPT ![r] = @ \ {i}]
        /\ \/ Put(Candidate(c, i, k), Whole(r)) /\ UNCHANGED failed
           \/ /\ WriteFails(r, Candidate(c, i, k))
              /\ failed' = [failed EXCEPT ![r] = TRUE]
  BY DEF WriteArtifact
<1> DEFINE name == Candidate(c, i, k)
<1>3. c \in Commands /\ i \in DOMAIN c.batch /\ name \in Names
  BY <1>1, NamesOfCommand DEF TypeOK, RunInv, Batched
<1>4. /\ pc[r] = "write" /\ pc' = pc /\ cmd'[r] = c
      /\ absent' = absent /\ exit' = exit /\ c.tool = "generate"
  BY <1>1 DEF WriteArtifact, RunInv, Staged
<1>5. taken'[r] = taken[r] \cup {name} /\ chosen'[r] = chosen[r] \ {i}
  BY <1>1, <1>2 DEF TypeOK
<1>6. \/ /\ Exists(name)' /\ failed'[r] = failed[r]
         /\ \A n \in Names : files'[n] = Torn(r) => files[n] = Torn(r)
      \/ failed'[r]
  <2>1. CASE Put(name, Whole(r)) /\ UNCHANGED failed
    <3>1. files'[name] = Whole(r) /\ \A n \in Names : n # name => files'[n] = files[n]
      BY <1>1, <1>3, <2>1, PutFacts, ContentsWritten
    <3>2. files'[name] # Nothing /\ files'[name] # Torn(r)
      BY <3>1, ContentsWritten
    <3> QED
      BY <1>4, <2>1, <3>1, <3>2 DEF Exists
  <2>2. CASE failed' = [failed EXCEPT ![r] = TRUE]
    BY <1>1, <2>2 DEF TypeOK
  <2> QED
    BY <1>2, <2>1, <2>2
<1>7. Staged(r)' /\ Scaffolded(r)' /\ HalfNamed(r)'
  BY <1>4 DEF Staged, Scaffolded, HalfNamed
<1>8. Written(r)'
  BY <1>1, <1>4, <1>6 DEF RunInv, Written
<1>9. Batched(r)'
  <2>1. \A n \in Names : Exists(n) => Exists(n)'
    BY <1>1, FilesAfter, ContentsWritten DEF StepOf, Openapi, Exists
  <2>2. \A j \in DOMAIN c.batch : Named(r, j) => Named(r, j)'
    BY <1>3, <1>4, <2>1, NamesOfCommand DEF Named
  <2>3. Named(r, i)' \/ failed'[r]
    BY <1>4, <1>6 DEF Named
  <2>4. failed[r] => failed'[r]
    BY <1>6
  <2> QED
    BY <1>1, <1>4, <1>5, <2>2, <2>3, <2>4 DEF RunInv, Batched
<1>10. Counted(r)'
  BY <1>1, <1>3, <1>4, <1>5 DEF RunInv, Counted
<1>11. Looked(r)'
  BY <1>1, <1>4, <1>5 DEF RunInv, Looked
<1> QED
  BY <1>7, <1>8, <1>9, <1>10, <1>11 DEF RunInv

-----------------------------------------------------------------------------
LEMMA NextTypeOK == IInv /\ [Next]_vars => TypeOK'
<1> SUFFICES ASSUME IInv, [Next]_vars PROVE TypeOK'
  OBVIOUS
<1>1. TypeOK
  BY DEF IInv
<1>2. ASSUME NEW r \in Runs, StepOf(r) PROVE TypeOK'
  <2>1. files' \in [Names -> Contents]
    BY <1>2, FilesAfter
  <2>2. /\ cmd[r] \in Commands
        /\ Scaffold(cmd[r]) \in Names /\ Source(cmd[r]) \in Names
    BY <1>1, NamesOfCommand DEF TypeOK
  <2>3. chosen[r] \subseteq DOMAIN cmd[r].batch
    BY DEF IInv, RunInv, Batched
  <2> USE DEF TypeOK, Goto, Exit, Note, locals, Labels
  <2>4. CASE StartInit(r)
    BY <1>1, <2>1, <2>4 DEF StartInit
  <2>5. CASE MakeDirectory(r)
    BY <1>1, <2>1, <2>5 DEF MakeDirectory
  <2>6. CASE GuardOverwrite(r)
    BY <1>1, <2>1, <2>2, <2>6 DEF GuardOverwrite
  <2>7. CASE WriteScaffold(r)
    BY <1>1, <2>1, <2>7 DEF WriteScaffold
  <2>8. CASE MakeSourceDirectory(r)
    BY <1>1, <2>1, <2>2, <2>8 DEF MakeSourceDirectory, FailNaming
  <2>9. CASE LookForSource(r)
    BY <1>1, <2>1, <2>2, <2>9 DEF LookForSource
  <2>10. CASE WriteSource(r)
    BY <1>1, <2>1, <2>2, <2>10 DEF WriteSource, FailNaming
  <2>11. CASE LoadAndScan(r)
    <3>1. LoadExit(cmd[r].flaws) \in {0, 1, 2, 47}
      BY DEF LoadExit
    <3> QED
      BY <1>1, <2>1, <2>11, <3>1 DEF LoadAndScan
  <2>12. CASE CheckFile(r)
    <3>1. PICK k \in Counters :
            /\ taken' = [taken EXCEPT ![r] = @ \cup {Candidate(cmd[r], at[r], k)}]
            /\ Note(r, Candidate(cmd[r], at[r], k))
            /\ KeepForWriter(r, Candidate(cmd[r], at[r], k))
      BY <2>12 DEF CheckFile
    <3>2. at[r] \in DOMAIN cmd[r].batch
      BY <2>12 DEF CheckFile
    <3>3. Candidate(cmd[r], at[r], k) \in Names
      BY <2>2, <3>2, NamesOfCommand
    <3>4. chosen' \in [Runs -> SUBSET Nat] /\ at' \in [Runs -> Nat \ {0}]
      BY <1>1, <2>12, <3>1 DEF CheckFile, KeepForWriter
    <3>5. /\ taken' \in [Runs -> SUBSET Names] /\ skipped' \in [Runs -> SUBSET Names]
          /\ absent' \in [Runs -> SUBSET Names]
      BY <1>1, <3>1, <3>3
    <3> QED
      BY <1>1, <2>1, <2>12, <3>4, <3>5 DEF CheckFile
  <2>13. CASE StartWriter(r)
    BY <1>1, <2>1, <2>13 DEF StartWriter
  <2>14. CASE WriteArtifact(r)
    <3>1. PICK i \in chosen[r], k \in Counters :
            /\ taken' = [taken EXCEPT ![r] = @ \cup {Candidate(cmd[r], i, k)}]
            /\ chosen' = [chosen EXCEPT ![r] = @ \ {i}]
            /\ UNCHANGED failed \/ failed' = [failed EXCEPT ![r] = TRUE]
      BY <2>14 DEF WriteArtifact
    <3>2. Candidate(cmd[r], i, k) \in Names
      BY <2>2, <2>3, NamesOfCommand
    <3>3. taken' \in [Runs -> SUBSET Names] /\ chosen' \in [Runs -> SUBSET Nat]
      BY <1>1, <3>1, <3>2
    <3>4. failed' \in [Runs -> BOOLEAN]
      BY <1>1, <3>1
    <3>5. UNCHANGED <<pc, cmd, at, skipped, absent, told, exit, edits>>
      BY <2>14 DEF WriteArtifact
    <3> QED
      BY <1>1, <2>1, <3>3, <3>4, <3>5
  <2>15. CASE FinishGenerate(r)
    BY <1>1, <2>1, <2>15 DEF FinishGenerate
  <2>16. CASE Kill(r)
    BY <1>1, <2>1, <2>16 DEF Kill
  <2> QED
    BY <1>2, <2>4, <2>5, <2>6, <2>7, <2>8, <2>9, <2>10, <2>11, <2>12, <2>13,
       <2>14, <2>15, <2>16 DEF StepOf, InitModule, Openapi
<1>3. ASSUME NEW n \in Names, Edit(n) PROVE TypeOK'
  <2>1. files' \in [Names -> Contents]
    BY <1>1, <1>3, PutFacts, ContentsWritten DEF Edit
  <2>2. edits' \in 0..MaxEdits
    BY <1>1, <1>3, CommandsAssumption DEF Edit, TypeOK
  <2> QED
    BY <1>1, <1>3, <2>1, <2>2 DEF Edit, TypeOK, locals
<1>4. CASE UNCHANGED vars
  BY <1>1, <1>4 DEF vars, locals, TypeOK
<1> QED
  BY <1>2, <1>3, <1>4 DEF Next, StepOf

LEMMA NextIInv == IInv /\ [Next]_vars => IInv'
<1> SUFFICES ASSUME IInv, [Next]_vars, NEW r \in Runs PROVE RunInv(r)'
  BY NextTypeOK DEF IInv
<1>1. TypeOK /\ RunInv(r)
  BY DEF IInv
<1>2. ASSUME NEW q \in Runs, StepOf(q), q # r PROVE RunInv(r)'
  BY <1>1, <1>2, CalmOthers, CalmKeeps
<1>3. ASSUME StepOf(r) PROVE RunInv(r)'
  <2>1. CASE \/ StartInit(r) \/ MakeDirectory(r) \/ GuardOverwrite(r)
             \/ MakeSourceDirectory(r) \/ LookForSource(r)
             \/ LoadAndScan(r) \/ StartWriter(r) \/ FinishGenerate(r)
    <3>1. UNCHANGED files
      BY <2>1 DEF StartInit, MakeDirectory, GuardOverwrite, MakeSourceDirectory,
                  LookForSource, LoadAndScan, StartWriter, FinishGenerate
    <3> QED
      BY <2>1, <3>1, OwnQuiet
  <2>2. CASE WriteScaffold(r) \/ WriteSource(r) \/ Kill(r)
    BY <2>2, OwnInitWrite
  <2>3. CASE CheckFile(r)
    BY <2>3, OwnCheck
  <2>4. CASE WriteArtifact(r)
    BY <2>4, OwnArtifact
  <2> QED
    BY <1>3, <2>1, <2>2, <2>3, <2>4 DEF StepOf, InitModule, Openapi
<1>4. ASSUME NEW n \in Names, Edit(n) PROVE RunInv(r)'
  BY <1>1, <1>4, CalmEdit, CalmKeeps
<1>5. CASE UNCHANGED vars
  <2>1. Calm(r)
    BY <1>5 DEF vars, locals, Calm, Foreign
  <2> QED
    BY <1>1, <2>1, CalmKeeps
<1> QED
  BY <1>2, <1>3, <1>4, <1>5 DEF Next, StepOf

(* The invariant of the runs holds of every run, whatever the others do.   *)
THEOREM Inductive == Spec => []IInv
<1>1. IInv /\ [Next]_vars => IInv'
  BY NextIInv
<1> QED
  BY InitIInv, <1>1, PTL DEF Spec

(* Types are kept, in particular every file is one a command line names    *)
(* and every exit code one of 0, 1, 2 and 47.                              *)
THEOREM TypeCorrect == Spec => []TypeOK
<1>1. IInv => TypeOK
  BY DEF IInv
<1> QED
  BY <1>1, Inductive, PTL

(* However runs, kills and edits interleave, a binding without its source  *)
(* belongs to an init on its way, killed, or failed with the file named.   *)
THEOREM HalfScaffoldsAreNamed == Spec => []HalfScaffoldNamed
<1>1. IInv => HalfScaffoldNamed
  BY DEF IInv, RunInv, HalfNamed, HalfScaffoldNamed
<1> QED
  BY <1>1, Inductive, PTL

(* Exit code 0 of init and of generate means that the files are there.     *)
THEOREM ZeroIsTrue == Spec => []ZeroMeansThere
<1>1. IInv => ZeroMeansThere
  <2> SUFFICES ASSUME IInv, NEW r \in Runs, pc[r] = "done", exit[r] = 0
               PROVE  /\ \A n \in Names : files[n] # Torn(r)
                      /\ cmd[r].tool = "init" =>
                           /\ Exists(Scaffold(cmd[r]))
                           /\ cmd[r].style = "binding" => Exists(Source(cmd[r]))
                      /\ cmd[r].tool = "generate" /\ ~cmd[r].dryRun =>
                           \A i \in DOMAIN cmd[r].batch : Named(r, i)
    BY DEF ZeroMeansThere, Named
  <2> QED
    BY DEF IInv, RunInv, Written, Scaffolded, Batched
<1> QED
  BY <1>1, Inductive, PTL

(* What a run is about to write, it has seen absent, unless it was told to *)
(* overwrite or two modules compete for the name.                          *)
LEMMA InHandIsAbsent ==
  ASSUME IInv, NEW r \in Runs, NEW n \in Names, InHand(r, n), ~cmd[r].force
  PROVE  n \in absent[r] \/ Contested(cmd[r], n)
<1>1. RunInv(r)
  BY DEF IInv
<1>2. CASE pc[r] = "first" /\ n = Scaffold(cmd[r])
  BY <1>1, <1>2 DEF RunInv, Looked
<1>3. CASE pc[r] = "src" /\ n = Source(cmd[r])
  BY <1>1, <1>3 DEF RunInv, Looked
<1>4. ASSUME pc[r] = "write", NEW i \in chosen[r], NEW k \in Counters,
             Given(cmd[r], i, k, taken[r]), n = Candidate(cmd[r], i, k)
      PROVE  n \in absent[r] \/ Contested(cmd[r], n)
  <2>1. i \in DOMAIN cmd[r].batch
    BY <1>1 DEF RunInv, Batched
  <2>2. CASE ~Alone(cmd[r], i)
    BY <1>4, <2>1, <2>2 DEF Contested
  <2>3. CASE Alone(cmd[r], i)
    <3>1. \A m \in taken[r] : \E j \in DOMAIN cmd[r].batch \ {i}, l \in Counters :
            m = Candidate(cmd[r], j, l)
      BY <1>1, <1>4 DEF RunInv, Counted
    <3>2. k = 0
      BY <1>4, <2>1, <2>3, <3>1, AloneFirst
    <3> QED
      BY <1>1, <1>4, <2>3, <3>2 DEF RunInv, Looked
  <2> QED
    BY <2>2, <2>3
<1> QED
  BY <1>2, <1>3, <1>4 DEF InHand

(* Without --force no run replaces a file it has seen, except where two    *)
(* modules of a batch compete for a name.                                  *)
THEOREM KnownFilesStay == Spec => NoKnownFileReplaced
<1> DEFINE Kept == \A r \in Runs, n \in Names :
                     /\ ~cmd[r].force
                     /\ Exists(n) /\ files'[n] # files[n] /\ files'[n].by = r
                     => n \in absent[r] \/ Contested(cmd[r], n)
<1>1. IInv /\ [Next]_vars => Kept
  <2> SUFFICES ASSUME IInv, [Next]_vars, NEW r \in Runs, NEW n \in Names,
                      ~cmd[r].force, files'[n] # files[n], files'[n].by = r
               PROVE  n \in absent[r] \/ Contested(cmd[r], n)
    OBVIOUS
  <2>1. ASSUME NEW q \in Runs, StepOf(q)
        PROVE  n \in absent[r] \/ Contested(cmd[r], n)
    <3>1. InHand(q, n) /\ files'[n].by = q
      BY <2>1, FilesAfter, ContentsWritten
    <3> QED
      BY <3>1, InHandIsAbsent
  <2>2. ASSUME NEW m \in Names, Edit(m) PROVE FALSE
    <3>1. TypeOK
      BY DEF IInv
    <3>2. files'[n] = Whole(User)
      BY <2>2, <3>1, PutFacts, ContentsWritten DEF Edit
    <3> QED
      BY <3>2, ContentsWritten, WritersAssumption
  <2>3. CASE UNCHANGED vars
    BY <2>3 DEF vars
  <2> QED
    BY <2>1, <2>2, <2>3 DEF Next, StepOf
<1> QED
  BY <1>1, Inductive, PTL DEF Spec, NoKnownFileReplaced

=============================================================================
