# A TLA+ model of apcore-cli (TypeScript)

apcore-cli turns a registry of modules into a command line. One process serves one
command line; what makes it hard is not many threads but what surrounds the one: a
human who may or may not answer a prompt, a timer that races him, a child process
that prints, hangs and dies on its own schedule, an executor whose own gates overlap
with those of the CLI, and a user who may press Ctrl-C between any two steps. Around
that one call lie files other processes write, rules loaded at the start, command
tables built lazily from a registry that changes, and secrets that outlive the
environment they were made in. This project models those parts, checks them with TLC
and proves the safety results with TLAPS for every value of the constants.

Paths below are relative to the repository; line numbers are in `PROJECT.json`.

## The system

| Component | State it keeps | Operations | Interacts with | What makes it correct |
|---|---|---|---|---|
| Approval gate, `approval.ts` | readline interface, timer | `checkApproval`, `CliApprovalHandler.requestApproval`, `promptWithTimeout` | every command that runs something; the executor's `approval_gate` calls the handler | no grant without consent; every prompt settles; nothing held afterwards |
| Subprocess sandbox, `security/sandbox.ts` | promise, timer, temporary directory, two capture buffers; in the child: executor, pipes | `Sandbox.execute`, `_sandboxedExecute`, `runSandboxRunner` | spawns the same binary; asks the attached ACL first | complete value or error; bounded capture; no orphan; tidied up; always answered |
| Module command, `exec`, `validate`; `main.ts`, `discovery.ts`, `validate.ts` | the call in progress | `buildModuleCommand`'s action, `registerExecCommand`, `registerValidateCommand`, `collectInput`, `validateInputSchema` | gate, ACL, executor, sandbox, audit log, formatter | gates before start on every route; record and exit code agree with what happened |
| System commands, `system-cmd.ts` | none | health, usage; enable, disable, reload, config set; config get, which reads the configuration itself | gate, executor | mutations approved, exit codes truthful |
| ACL and identity, `acl-loader.ts`, `main.ts` | attached ACL, asserted identity (module globals) | load, attach, `assertDelegatedAccess`, `buildCliContext`, `warnStrategyBypassesAcl` | executor (`setAcl`), sandbox, audit log | a configured ACL is enforced on every route that claims it |
| Audit log, `security/audit.ts` | a JSONL file, a warned-once flag | `logExecution`, `logAclDecision`, `append` | written by commands and the ACL callback, read by `system-usage.ts` | one truthful record per execution; a reader survives a cut line |
| Program construction, `main.ts`, `builtin-group.ts` | the commander tree, module globals | `createCli`, `_registerApcliSubcommands`, `resolveVisibility` | everything | exclusive options rejected, governance attached or refused |
| Command groups, `cli.ts`, `exposure.ts` | alias map, group map, command and descriptor caches, latches | `listCommands`, `getCommand`, `buildGroupMap`, `buildAliasMap` | registry, exposure filter | hidden modules unreachable, reserved names protected, caches agree |
| OpenAPI, `openapi-cmd.ts`, `openapi-source.ts` | files in the output directory | scan, `plannedFilenames`, generate | toolkit writer | existing files survive without `--force`; 0 means written |
| Scaffolding, `init-cmd.ts` | files in the working directory | init module in three styles | the same directories | half a scaffold is announced, existing files survive |
| Configuration, `config.ts` | parsed file, read once | `resolve`, `resolveFromFile` | everyone | precedence of the four tiers |
| Schemas, `ref-resolver.ts`, `schema-parser.ts` | none (pure) | `resolveRefs`, `schemaToCliOptions`, `reconvertEnumValues` | module command, commander | each property gets its own value |
| Secrets, `security/config-encryptor.ts`, `security/auth.ts` | keyring, config value | `store`, `retrieve`, `getApiKey` | configuration | what was stored is retrieved |
| Usage statistics, `system-usage.ts` | none (reads the log) | `computeSummary`, `sortModulesByUsage` | audit log, list | counts what was logged |
| ACL commands, completion, help, formatting | none | print | | |

The hazards of this code, each at its line, are in `PROJECT.json`; the properties
below were chosen from that list.

## Modules

    ApprovalDecision <---- ApprovalPrompt <---- PromptInCommand <---- ApprovalPromptProofs
       (abstract)                                 :       ^
                                                  :    MCApprovalPrompt
                                                  v
    GovernedCall <------------------------- Invocation <---- InvocationProofs
     (abstract)               AuditTrail <.....:  ^  ^
                              (abstract)          :  MCInvocation
                                                  :
                           Sandbox <---- ChildInCommand <---- SandboxProofs
                                                  ^
                                               MCSandbox

    AuditTrail <.. AuditLog <---- AuditLogProofs     Startup <---- StartupProofs
    (abstract)        ^                                 ^
                   MCAuditLog                        MCStartup

    Artifacts <---- ArtifactsProofs        Secrets <---- SecretsProofs
       ^                                      ^
    MCArtifacts                            MCSecrets

    SchemaNodes <---- RefResolver <---- ModuleInput <---- MCArguments
        ^                                  |
        +---------- Arguments <------------+
                        ^
                        +---- CommandLineProofs ----> CommandGroups <---- MCCommandGroups

An arrow is EXTENDS; a dotted one, and those to the abstract modules, INSTANCE ... WITH.

`Invocation` composes the parts: where `ApprovalPrompt` details how a prompt ends
and `Sandbox` how a child ends, `Invocation` takes one step with any outcome those
modules allow. That these are the outcomes is a refinement, checked and proved:
`PromptInCommand` reads a pass through the gate as a place in a command (the CLI's
gate, or the `approval` step of the executor when the handler is asked), and
`ImplementsGate` says that every step of the gate is a step of `Invocation` there or
none at all; `ChildInCommand` and `ImplementsChild` do the same for the child. That a
prompt and a child do answer, which `Invocation`'s fairness takes for granted, is
`PromptSettles` and `CallAnswered` of the detailed modules.
What `Invocation` starts from comes from other modules in turn: that an ACL the
CLI holds is the one the executor enforces is `HeldMeansEnforced` of `Startup`, and
the input a module command collects is `Arguments`. `Invocation` and `AuditLog` meet in
`AuditTrail`: the one shows that every command line hands its decisions and its record
over as a trail, whatever its options, the other that what several processes hand over,
settings and failures included, is one trail for each call.

### ApprovalPrompt

One pass through the gate. `call` holds the inputs: who asks (a module command,
`exec`, a system command, or the executor through `CliApprovalHandler`), what
requires approval, what bypasses it, the two timeouts and the terminal. `Required`,
`Bypassed`, `EffectiveTimeout`, `ClampTimeout` translate the guards and the timeout
arithmetic, NaN included. `OpenPrompt`, `ReadLine`, `TimerFires`, `CloseInput` and
`Kill` are the callbacks of `promptWithTimeout`; a callback, the promise
continuation it triggers and the `finally` are one action because Node drains the
microtasks of one callback before it runs the next. The typed line is a state of
its own (`TypeLine`), so the timer can run between typing and reading. `CloseInput`
models what readline does on Ctrl-D, and on Ctrl-C in raw mode without a SIGINT
listener: it closes and drops the question.

`PromptInCommand` gives for a pass through the gate the command line that leads to it
(`Surroundings`), and the place in that command (`Place`). A call that an ACL
asks about is there a sandboxed call, the only kind for which the CLI itself
learns what the ACL requires.

`ApprovalDecision` is what the gate promises: one verdict, never revised, granted
only to the exempt and the consenting, and in the end there is one.

### Sandbox

The parent's synchronous prefix (`Launch`, `LaunchThrows`), its callbacks
(`StdoutData`, `StderrData`, `TimerFires`, `Close`, `SpawnError`), the end of the
parent's process, the child's runner and the module in it, and the operating system
(`Killed`, `ReadyToClose`). Output is counted in bytes; `cuts` are the offsets that
lie inside a multi-byte character, chosen freely in the initial state. A chunk is
any number of waiting bytes. `Cleanup` is one try that the system may refuse at any
time, for what is still written there or for what the module did to the directory: the
code swallows the error, and the directory then stays. What the code does owe is the
try, and at which moment: `swept` is a history variable that says whether it came while
something of the child could still write ("early", as under the timeout) or when nothing
could ("late"). `RunnerDiscovers` is the import of the extensions and the call, from
where on their code may print, exit or start a process that shares the pipes
(`ModuleForks`): such an `heir` outlives the child and the kill, and the close event
waits for it. The parent may be killed at any time (`ParentExit`), with the call
unanswered and the child left to itself.

`ChildInCommand` is the same child seen from the command that awaits it: the answer is
the last the command learns of it, and a child that was on its way then, or that
has lost its parent, may still start its module.

### Invocation

One command line from its input to its exit. `pc` follows the action of
`buildModuleCommand`, `exec`, `validate` and the system commands; the steps marked
external (`AclStep`, `ApprovalStep`, `PipelineFails`, `ModuleStarts`) are the
pipeline of the executor library, modelled from `PRESET_STEPS` in `strategy.ts`
and from how the commands call it. `RouteOf` is the order in which `main.ts` and
`discovery.ts` try stream, trace, strategy, child and direct call; `Presented` is
the caller each route passes to the executor. `Interrupt` is enabled at every step:
no signal handler is installed. A child that was spawned may start its module after
the command has been killed or has failed on the timer (`ChildStarts`): nothing
stops it between the signal and its death, nor when the parent has died.
`RouteOf` is nested IF and not CASE, whose arms would overlap: TLC takes the first that
holds, the logic any.

`GovernedCall` is what a command promises: a permit before a start, no start in a
rehearsal, success reported only of a finished effect or a rehearsal, one report. A
`detached` effect, that of a child, may begin after the report of a failure, but not
without its permit and not after the report of a success.

`decisions` is what the audit callback of the ACL hears about the call, which is empty
unless the CLI attached that ACL itself (`Held`): at the gate of a sandboxed call
(`CheckAccess`), before the spawn (`TakeRoute`), in the executor's `acl_check`
(`AclStep`). Whether the library's preflight consults the ACL cannot be told from this
repository, so `PreflightDecides` allows both. A module in this process may fail with
any error, also with the 77 or 46 of a call it made itself (`ModuleThrows`).

### AuditTrail

What the audit log promises about one call: decisions of the ACL first, none behind a
denial, then at most one record of the run, which is no success behind a denial and,
where the CLI's ACL governs the call and allowing decisions are kept, takes one for a
success. Of `Invocation` it is the view of one command, with every decision kept; of
`AuditLog` the view of each call, with the decisions the settings keep.

### AuditLog

`~/.apcore-cli/audit.jsonl` under several processes. The file is a sequence of cells,
three to a record: the head of its JSON text, the rest, and the newline. With these
one can tell an empty fragment from a torn one and from a text whose newline is
missing. `Write` is one `write(2)` of `appendFileSync`: it puts any number of the
remaining cells at the end of the file, and what is left is written by the next
one, with other processes in between; `AppendFails` is the `catch` in `append`,
`Die` a death at any point. `Recorded`, `AuditFlag` and `AsBool` are the two settings
with their precedence and their tolerance of misspelt words. `Parses`, `Readable`
and `Counted` are what `computeSummary` makes of the file at any moment.

`Judge` is `checkAccess` with the audit callback. A call that an ACL of the CLI's
judges (`governed`: not when none is configured, when the host's executor brought its
own, or when the strategy skips `acl_check`) may be judged twice (`MaxJudgements`; that
it is not judged more often is in the type invariant of `Invocation`): a sandboxed call
by the command and by `Sandbox.execute`, or by the command and, on another route, by
the executor, which sees another caller there, so that the answers may differ. `Finish`
records the run, `Leave` ends a call that records none.

`issued` and `born` are history variables: which records were handed to which logger.
Their order stands for the timestamps. `Invocation` says when a command calls the
logger; here a call is reduced to its decisions and the record of its end. A process
that has ended normally is a slot at rest: its successor, with a fresh `warned`, does
nothing a slot that never warned cannot do.

### Startup

`createCli`, one step per decision: `CheckOptions`, `BuildGroup`, `BuildExposure`,
then the ACL from the tiers of its root to its attachment (`ResolveRoot`, `Stat`,
`LookInside`, `Load`, `Attach`), then the subcommands and the host's own commands
(`Finish`). Each exit is `Exit` with the code of the source. A process may construct
several programs: `attached` is the module global `_attachedAcl`, `enforced` what each
executor was given, and both survive from one program to the next. `Replace` is
another process that changes the rule files between two of the reads; a rule set
is known only by the place it came from. `unsettled` is a history variable: the
places that could be read as empty at some moment of the call, be it for a file that is
missing or for a `stat` that is refused, which the code cannot tell apart. `Options` is what a
host may pass together with the environment; `Registered` is the table of
`_registerApcliSubcommands` under `Visibility`. `SurfaceComplete` compares the programs of
one executor: hidden or visible, they offer the same; `include` leaves of that what it
names, `exclude` takes away what it names, be it a part of the six system commands, which
the comment in `main.ts` calls atomic (a finding).

### CommandGroups

The tables of `LazyModuleGroup` (flat) and `GroupedModuleGroup` (grouped) with the
latches that make them lazy. The code's maps are functions of the listing they
were built from, so the model keeps that listing: `known` stands behind the alias
map and the descriptor cache, `routed` behind the group map. `ok` in `BuildAliasMap`
is whether the registry answers: an error is a warning there and leaves the latch
open, while in `buildGroupMap` it ends the call (`GroupedThrows`). `ResolveGroup`,
`TopLevel`, `MeetsReserved` and `IsExposed` are the routing and the filter, `Matches`
the patterns. A dotted name is the sequence of its segments. `OneTable` compares the
lazy tables with those computed from the registry at the moment: what is cached is
what the table gives, and the table is the present one whenever the registry is the
one both maps were built from.

### Artifacts

The commands that write: `init module` step by step, `openapi scan`, and
`openapi generate` with its two passes over the batch. `CheckFile` is the first pass,
which plans a name and looks for the file; `WriteArtifact` is the second, by the
writer, which counts the collisions again over what is left (`Given` is the rule
both follow). A write may fail and leave the file as it was or cut off, a run may
be killed at any point, several runs share the files, and a user edits them.
`absent` and `skipped` are history variables: what the run saw when it looked.

### Secrets

The API key: `Store` encrypts it or, with a keyring, goes on to the awaited write
(`WriteKeyring`) and the return of the reference (`StoreReturns`), between which other
processes run and this one may end. `Save` is the host putting the result in the
configuration file, `Authenticate` and `Retrieve` are a request, up to the awaited
`getPassword` (`ReadKeyring`). `Resolve` is the precedence of flag, variable and file
with the resolver's copy of the file. A ciphertext is its value and the material and
rounds its key was derived from (the passphrase, or host and user), so `Opens` is what
AES-GCM promises and nothing more. `Restart` replaces a process, perhaps by one with
another passphrase or user, and loses what it had not saved; `RenameHost` gives another
name to the host under a process; `ChangeKeyring` empties, locks or (un)installs the
keyring. `begun`, `finished`, `superseded` and `writer` are history variables: which
stores there were in the keyring, and which of them had returned before another began
that has returned too. What is left is `Current`, the keys a reference may lead to: with
stores that overlap, that is not always the key of the caller whose store returned last.
Strings that earlier versions left behind are in the initial states.

### RefResolver, Arguments and ModuleInput

`SchemaNodes` has the nodes of a schema, which the two others share. `RefResolver` is
`resolveRefs`: references, the set of those being followed, and the merging of `allOf`,
`anyOf` and `oneOf`. `Arguments` goes on from the resolved schema: `Build` registers the
options or refuses the schema (only one with properties of its own is resolved; for any
other, `Unresolved`, there are no options and nothing is validated), `Parse` is
commander with any choice of flags, `Act` collects the input, restores the types of
enumerations and validates. How a schema is resolved is its parameter `Resolve`, so that
what it does can be proved for every way of resolving, though `resolveRefs` is
recursive; `ModuleInput` gives the parameter `ResolveRefs` and is what TLC checks. The
four spellings of a name (property, `Flag`, commander's `Attribute`, `CommanderKey`) are
computed from its pieces: words joined by `_`, by `-`, or by nothing before a capital or
a digit. Commander capitalises behind every `-` of the flag, and throws when nothing
follows one (`HasAttribute`); the code, behind a `_` only before a small letter or a
digit (`Joins`), so that `user_ID` is stored as `userID` and looked for as `user_ID`.
`OwnAttribute` leaves out such names, which lose their value. `Expected` is the
reference of `EachToItsOwn`: what each property should be, read off the resolved schema,
the command line and the JSON object without any of the machinery. `ResolvedAsDeclared`
has another: the properties a written schema declares, with what each is meant to be,
read off its references and branches one by one.

The definitions whose comment begins "Variant with a bug" are not part of any
next-state relation: each is a plausible slip in the code, kept beside the
definition it would replace to show that a property notices it.

## Runs

| Run | Shows |
|---|---|
| `approval_prompt` | `GrantNeedsConsent`, `NothingHeldAfterSettling`, `UsableTimeoutHonoured`, `PromptSettles`, that the gate implements `ApprovalDecision` and (`ImplementsGate`) its part of `Invocation`, over all 91,944 states |
| `sandbox` | `CaptureBounded`, `ValueIsComplete`, `NoOrphanAfterAnswer`, `AnsweredIsTidied`, `CallAnswered`, `SweptInTheEnd`, and that parent and child implement (`ImplementsChild`) their part of `Invocation`, over 102,752 states |
| `invocation` | `AdmittedBeforeStart`, `ApprovedBeforeStart`, `OneTruthfulRecord`, `ExitCodeTellsOutcome`, `BypassIsAnnounced`, `CommandEnds`, and that a command line implements `GovernedCall` and (`ImplementsAuditTrail`) hands an `AuditTrail` to the log, over 1,038,350 states |
| `audit_log` | `SilenceMeansWritten`, `LostOnlyBehindABreak`, `ClosedLinesStay`, `SummaryTruthful`, `DecisionBesideRun`, and that the records of each call are an `AuditTrail` (`ImplementsAuditTrail`), over 586,408 states |
| `startup` | `GovernedOrRefused`, `HeldMeansEnforced`, `SurfaceComplete`, over 2,831,852 states |
| `command_groups` | `ListedCanBeGot`, `OnlyExposedIsReachable`, `LostOnlyByCollision`, `OneTable`, over 153,505 states |
| `artifacts` | `HalfScaffoldNamed`, `ZeroMeansThere`, `NoKnownFileReplaced`, over 1,264,554 states |
| `secrets` | `RetrievedIsStored`, over 2,686,914 states |
| `arguments` | `EachToItsOwn`, `ResolvedAsDeclared`, over 6,240 states |
| `sandbox_text` | a character cut by a chunk boundary is decoded to something else |
| `invocation_identity` | the asserted identity is not presented on the stream, trace and strategy routes |
| `arguments_defaults` | a default takes the place of what the JSON input says, which the README promises only of flags |

The last three runs are expected violations: each checks one sentence of the
repository's documents or comments against the model, and `findings` in
`PROJECT.json` quotes the sentence. The type invariants are theorems and need no run. The
findings without a run were met while modelling or reading; several are visible in
the models as the exceptions that a property names (`Contested` in `Artifacts`,
`OwnAttribute` in `Arguments`, `Inlined` and `Resolved` in `ModuleInput`, `known = listing` in
`CommandGroups`, `Discovers` in `Startup`, the traced route and the throwing module
in `BypassIsAnnounced`).

### Bounds

- `approval_prompt`: the clamp 3600 becomes 3 and the default 60 becomes 2; the
  options take a value below, inside and above the clamp, none, and NaN, the
  environment one below and one above the default. Only the
  order of clock, deadline and clamp matters, and these values realise every order.
  `Horizon` stops the clock one past the clamp, where nothing is left to become due.
- `sandbox`: a budget of 2 bytes per stream and a child that writes at most 3
  (`MaxBytes`): below, at and above the limit, in one chunk or several. One second
  of `Timeout` races every other event. What the module leaves behind is one process at a
  time: the close event waits for all of them alike.
- `invocation`: one strategy with and one without the gates, one identity and the
  anonymous caller, four rule sets that distinguish the two in both directions or
  ask a human. Calls that differ only in an input that is never read are left out
  (the last five conjuncts of `Calls`). A second identity would behave as the first.
- `audit_log`: two processes, two modules, two calls (up to three records each), each
  governed by an ACL or not. Three settings: in one the environment wins, a misspelt word
  leaves the records on and denials are not written; in one everything is recorded; in one
  nothing but the runs is, by the word of the file. Breaks (short writes, failures and
  deaths together) are bounded by setting, `MaxBreaks`: three where only runs are
  recorded, so that a torn line is followed by another torn one and one process cuts in
  twice; one where decisions are recorded and the log is longer. What breaks do does not
  depend on what the records say; each further record meets only the cells directly
  before it, which is what `LostOnlyBehindABreak` says; and the theorems hold for any
  number of breaks in every setting. Processes and modules are symmetric.
- `startup`: two programs, so that every global is inherited once, and one file
  replaced, anywhere between the reads of either. Three executors, one for each thing
  `setAcl` can do. The options vary one concern at a time around a host with
  registry and executor; the concerns meet only in the globals, which the second
  program meets in every state the first can leave.
- `command_groups`: three changes of the registry over nine descriptors: the
  routing rules involve pairs of modules, and the third change is what happens to a
  pair after a table was built. The descriptors share aliases, ids, groups and a
  reserved prefix; the filter is on, off, and for or against two patterns.
- `artifacts`: two runs and one edit. The batches hold two modules that compete for a
  name and one whose own name is the counted name of another, which is where two
  counts can differ; two digits are enough for three modules. A third run can do to
  the second what the second does to the first. The runs are symmetric.
- `secrets`: two processes, two stores, two changes: a ciphertext or a reference can
  be overtaken by another one, two stores can overlap in either order of writing and of
  returning, and environment, host and keyring can each change once between store and
  request, or one of them twice. The processes are symmetric.
- `arguments`: schemas of two properties, since names clash in pairs, each with the
  types, defaults and references that `Build` and `Act` distinguish, and nested ones for
  `RefResolver`: references shared, chained, circular and missing, and branches of
  each keyword, with and without properties beside them. Among the names are pairs that
  come near each other or a built-in option, and names in which a capital, a digit or
  nothing follows a `_`. Every set of flags, two texts, four JSON objects.

### Fairness

- ApprovalPrompt: the gate's synchronous prefix runs, time passes, and an armed
  timer fires. The user owes nothing: no fairness on typing, closing, Ctrl-C.
- Sandbox: the event loop delivers data, close, error and timer events that are
  due, the kernel delivers SIGKILL, and time passes. The module in the child and what it
  started owe nothing: they may print or compute for ever. The parent may be killed at any
  time, or stay; a dead parent owes no answer.
- Invocation: the steps of the CLI and of the pipeline proceed (one weak fairness
  condition on their disjunction, `Proceed`). Reading the input is not in it, since
  stdin may never end; neither are the end of a module that runs in this process,
  and Ctrl-C.

- AuditLog: none. Its properties are safety properties; nothing promises that an
  append ever succeeds.
- Startup, CommandGroups, Artifacts, Secrets, Arguments: none. They are asked what
  a step may do, not whether one is taken: a host need not ask again, a user need
  not retry, and the code behind them is synchronous.

Deadlock is not checked because each model ends: a settled prompt, an exited
parent with a dead child, an exited command, a bounded number of calls, of programs,
of changes or of runs.

## Proofs

| Module | Theorems |
|---|---|
| `ApprovalPromptProofs` | `TypeCorrect`, `ConsentTheorem`, `ReleaseTheorem`, `TimeoutTheorem`, `NeverStuck`, `RefinementTheorem`, `GateTheorem` |
| `SandboxProofs` | `TypeCorrect`, `BudgetTheorem`, `CompletenessTheorem`, `NoOrphanTheorem`, `TidyTheorem`, `NeverStuck`, `ChildTheorem` |
| `InvocationProofs` | `TypeCorrect`, `AdmissionTheorem`, `ApprovalTheorem`, `AuditTheorem`, `ExitCodeTheorem`, `AnnouncementTheorem`, `RefinementTheorem`, `TrailTheorem`, `EndTheorem` |
| `AuditLogProofs` | `TypeCorrect`, `SilenceTheorem`, `ClosedLinesTheorem`, `LossTheorem`, `SummaryTheorem`, `DecisionTheorem`, `TrailTheorem` |
| `StartupProofs` | `TypeCorrect`, `RulesAreNotLost`, `HeldIsEnforced`, `SurfaceIsComplete` |
| `CommandLineProofs` | `TypeCorrect`, `ListedIsFound`, `OnlyExposedReached`, `OnlyCollisionsLose`, `LazinessTheorem`, `DeliveryTheorem` |
| `ArtifactsProofs` | `TypeCorrect`, `HalfScaffoldsAreNamed`, `ZeroIsTrue`, `KnownFilesStay` |
| `SecretsProofs` | `TypeCorrect`, `RetrievalIsHonest` |

They hold for every value of the constants that satisfies the named assumption of
its module: `TimeoutAssumption` (the default lies in the clamp, absent and NaN are
no integers), `NoAclAssumption` (no ACL is none of the ACLs), `SandboxAssumption`
(three natural numbers),
`InvocationAssumption` (the bypassing strategies are strategies, the rules are
functions from callers to accesses), `AuditAssumption` (natural bounds, and
settings whose unset word is none of the others), `StartupAssumption` (options and
files of their types, and a pre-built group has a mode it could be built with),
`GroupsAssumption` (names are sequences of segments, descriptors are made of
names), `CommandsAssumption` and `WritersAssumption` (command lines of their type;
the user and nobody are no runs), `EnvsAssumption` and `LegacyAssumption` (the empty
and the absent string are no keys; old ciphertexts were made in some environment by
one of the ways the code still opens), `ArgumentsAssumption` (the literals of the code
are words, the absent value is none of the values, and a schema resolved without
errors has properties of their types: TLC evaluates this last part for
`ResolveRefs`, and it is all the proof knows of it).

Each component has one inductive invariant, the conjunction of the type invariant
and named parts, and the usual three facts: it holds initially, every action
preserves it, it implies the properties. Where a later property needs more, the
further part is proved on top of it.

- ApprovalPrompt: an invariant that ties `rl` and `timer` to `phase` (an open
  prompt has an armed timer, a verdict has neither) is what makes consent
  inductive: a grant from `ReadLine` needs the timer to have been pending. The
  refinement maps each action to a verdict or a stutter. For `GateTheorem` the two
  descriptions of a gate have to agree on every call (`GuardsAgree`: the gate stands
  aside, and may ask, exactly where `Invocation` says so, though the modules read
  different fields of a call); then each step passes, refuses, kills or stutters.
- Sandbox: the budget needs `kept = taken` while nothing has been exceeded;
  completeness needs that a dead child with empty pipes has been read entirely and
  that overflow and a non-zero code are never undone; no-orphan needs that
  `exceeded` and a fired timer both imply the signal has been sent. That the directory is
  swept late needs that nothing holds the pipes once they are ready to close. `ChildTheorem`
  maps all of it to `ChildStarts`, `ChildAnswers`, `Interrupt` or a stutter. The
  attempt to prove it corrected two guards: a parent could die only after it had
  answered, and a command's child could start only while the command waited.
- Invocation: four parts. Control says which of `route`, `ran`, `ended`, `exit` and
  `err` go with which `pc`. Gates says what the steps passed so far have established
  about admission and approval on the route that has been or will be taken; without
  it `AdmittedBeforeStart` is not inductive, for the start itself checks nothing. A
  child that starts late, after its command has failed or died, is admitted only
  because no gate refused it before it was spawned: that is the last conjunct of
  `RouteCleared`, and `Erring` (an error on the child's route is the ACL's or the
  child's own) keeps it inductive and the exit codes truthful. Reports says how many
  records were appended. The refinement is proved step by step: four actions of
  `GovernedCall` and stuttering. `BypassIsAnnounced` needs one part more,
  `Announcing`: where the strategy's route has been taken, the banner that belongs
  to the kind of command has been printed. `TrailTheorem` rests on the fourth, `Deciding`: by place,
  how many decisions there are at most, and that past a gate which asks the CLI's ACL
  there is one to allow and none to deny. Then each of the three steps that ask
  (`TrailAnswers`), the preflight, and the two that record (`TrailRecords`) is a step of
  `AuditTrail`; a rehearsal may be judged because it names no strategy that could skip
  the gate (`RehearsalIsJudged`). `EndTheorem` gives each place its distance from the
  end; a step comes nearer or starts the module, which is done once.
- AuditLog: `SilenceMeansWritten` is inductive only together with three parts.
  Ownership: a process writes a record of its own that no other process writes and that
  was issued to its present logger. Placement: of a record being written exactly the
  first `written` cells are in the file, and no cell is there twice. Activity: where a
  call goes on after `append`. Placement also carries `LossTheorem`: a text that stands
  directly before a whole record and is no newline belongs to another record, of which
  the next cell is missing there. `SummaryTheorem` adds the counting: a counted line is
  the whole text of one run record, and two lines of the same record would put a cell
  there twice. `DecisionTheorem` needs `Beside`: records of one logger are handed over
  and written one after the other (`Sequence`), and a call that was granted has its
  decision among them unless the decisions are switched off. `TrailTheorem` needs
  `Trails`: the records of a call are one process's (`OneProcess`), and nothing of the
  call follows its run or a denial (`RunIsLast`, `DenialIsLast`): a process that still
  has a call has not recorded its run unless it is writing just that, and asks nothing
  after a denial. Only `Judge` and `Finish` hand over a record, and of one call
  (`TrailIssue`): for all others the step is a stutter (`TrailStutters`). A death or a
  failed append leaves the trail as it is, since what was handed over stays handed over.
- Startup: what has been decided at each `pc`. Of a root: that it is the tier that
  takes precedence. Of `acl`: that it is that place's, or nothing while the place has
  been unsettled, which needs that `unsettled` holds every place whose document is
  missing at the moment. Of the history: every returned program satisfies
  `GovernedOrRefused`, has the mode its options and environment gave it and the commands
  of that mode (`GroupInv`), and the last one's rules are those of its executor and of the
  global.
- CommandGroups: the tables hold only what was registered at some time, and a
  listing has each module once; what is routed has passed the filter and met no
  reserved name; the group map is the routing of the listing it was built from.
  `OnlyCollisionsLose` then finds the last position among those that share a name
  with the lost module, which exists because the positions are a well-founded set
  (`WFMin` of `WellFoundedInduction`). `LazinessTheorem` adds that a cached command
  was the table's answer when it was cached and that no later step of the same
  object changes the table (`CachedFromTable`, `RoutedIsMap`).
- Arguments: `Delivery` says what each stage has behind it: the resolved properties are
  well-formed and their options do not clash, the stored options come from the
  command line, the input is what `Merged` makes of them. That the input is also what
  `Expected` says rests on the four spellings: for a property whose attribute is its
  own, commander's key is the attribute (`KeyIsAttribute`), no other option stores
  under it (`OwnerIsUnique`, `NegationIsShared`), and so the value found under it is the one
  given (`StoredForOwn`, `FoundByKey`, `MergedForOwn`). The key and the attribute are
  two camel cases, of the name and of its flag; they agree, for names of any length,
  where each `_` has a small letter or a digit behind it and no `-` is in the name.
- Artifacts: of every run what it has seen and done at each `pc`: a module still to be
  written without `--force` was not there, the names taken in a pass belong to the
  modules passed, and a file it left cut off has made it fail or was its end. Other
  runs and the user leave all this alone: they write in their own name and remove
  nothing, which makes "exists" stable.
- Secrets: there is only one reference (`Circulating`). `Ordered`: a store under way is
  one process's, has not returned and waits behind stores that have. `Latest`: who wrote
  the keyring last is not superseded, nor about to be by a store that has written and not
  yet returned, which is what the await in `store` is good for: without it the store that
  wrote could be superseded by one that has written nothing. `Openable`: a ciphertext was
  made for the value it carries, and the environment it was made in opens it.

Only model-checked: `PromptSettles`, `CallAnswered`, `SweptInTheEnd`, `CommandEnds` and
the liveness part of `ImplementsDecision`, which rest on fairness. Of the first two the
theorems `NeverStuck` prove the safety part: an unsettled prompt, and an unanswered call
whose child was spawned, always have an armed timer, for a prompt one that is due or
that time can still reach. What is left to fairness is that time passes and a timer that
is due is run. Of `CommandEnds`, `EndTheorem` proves that a command cannot go round in
circles; that a step is owed and taken at every place is left to fairness.
(`GovernedCall` states no fairness, and `ImplementsGate` and `ImplementsChild` ask for
none, so these are proved in full.) `ResolvedAsDeclared` is checked and not proved,
because `RefResolver` is recursive.

## Not modelled

- The executor library's internals beyond the order of its gates, its middleware,
  and what it does with `_approval_token`.
- Writes to a pipe that are still pending when `process.exit` runs, which loses
  output on platforms where pipes are asynchronous.
- In `Invocation`, a failure of the audit write: a record in `records` there means
  "handed to append". What becomes of it is `AuditLog`'s subject, which in turn
  leaves out file modes, the salted hash, log levels that hide the warning, the sums
  of errors and durations and the sorting by them. The calls a module makes itself,
  through the same executor, are seen in both only as the error that ends it: the
  decisions about them are decisions about other calls.
- The distinction why a child fails: a module that returns nothing makes
  `process.stdout.write(undefined)` throw in the runner and is a `ModuleThrows` here
  (the same module succeeds without `--sandbox`, see the findings).
- The reason why a directory cannot be made or removed.
- `config get`, which reads the configuration past the executor.
- The environment handed to the child, text layout, help, completion, man pages; the
  ACL commands, which read the rules and print.
- In `Startup`, what the preAction hook does (the identity flags, which are an input
  of `Invocation`, and the toolkit overlay), verbose help, the log level and the
  audit logger, and a configuration file that does not parse.
- In `CommandGroups`, malformed display metadata and a command that fails to be
  built; in `Artifacts`, the hazards scan reports and the text of every template; in
  `Secrets`, the ciphers and what the server answers.
- In `RefResolver`, the depth limit and the arrays that are not branches; references
  in those stay as they are in the code, which is a finding.
- In `Arguments`, names with other characters than letters, digits, `_` and `-`, and names
  that begin with one of the last two.

## Plan

Done, in the order of what a failure would cost: `ApprovalPrompt`, `Sandbox`,
`Invocation` with their abstract specifications and the two modules that compose
them, `AuditLog` and `AuditTrail`, then `Startup`,
`CommandGroups`, `Artifacts`, `Secrets`, `RefResolver` with `Arguments`. What is left:

1. The preAction hook of `Startup`, with the identity and the toolkit overlay, so
   that the identity `Invocation` takes as an input becomes a step of the start.
2. Pure parts that are still missing: `flattenDict` with the legacy names of keys,
   the depth limit of references, the hazards of a scanned document.
3. Proofs: an abstract specification for what the reader gets of `AuditLog` (a set of
   records that only grows, minus what a break costs) and for `Secrets` (one cell, read
   or reported unreadable), with the present theorems as the steps of the refinement.
