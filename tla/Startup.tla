------------------------------ MODULE Startup -------------------------------
(***************************************************************************)
(* createCli of src/main.ts: how a program is put together and how it gets *)
(* its rules. A process may build several programs, one after the other;   *)
(* the attached ACL and the reserved name are globals of the process, the  *)
(* executors belong to the host and may be shared. Meanwhile another       *)
(* process may replace the files the rules are read from.                  *)
(*                                                                         *)
(* A refusal is process.exit: it ends the process with every program in    *)
(* it. A place is the path one tier of the ACL root names; a rule set is   *)
(* named after the place it was loaded from.                               *)
(***************************************************************************)
EXTENDS Naturals, Sequences

CONSTANTS
  Executors,     \* the executors a host may hand in
  SetAcl,        \* executor -> "absent", "works" or "throws"
  Asks,          \* executors on which setApprovalHandler exists and works
  HasSystem,     \* executors whose registry knows system.health.summary
  Options,       \* what a host may pass to createCli, with the environment
  Disks,         \* what may lie at the places at first: place -> kind
  MaxPrograms,   \* bound: programs built in one process
  MaxChanges     \* bound: files another process replaces

Nothing == "nothing"

(* The tiers of the ACL root in their order of precedence, and what a path *)
(* can lead to. A directory counts by its global_acl.yaml.                 *)
Tiers == <<"given", "env", "yaml", "default">>
Places == {"given", "env", "yaml", "default"}
Kinds == {"missing", "file", "badFile", "emptyDir", "dir", "badDir"}
Directories == {"emptyDir", "dir", "badDir"}
RuleSets == Places \cup {"object"}

(* The subcommand table, what of it needs an executor, and the six system  *)
(* commands.                                                               *)
Standalone == {"list", "describe", "init", "completion", "openapi"}
System == {"health", "usage", "enable", "disable", "reload", "config"}
NeedsExecutor == System \cup {"exec", "validate", "describe-pipeline", "acl"}
Table == Standalone \cup NeedsExecutor
AlwaysRegistered == {"exec"}

UserModes == {"all", "none", "include", "exclude"}
Modes == UserModes \cup {"auto"}

(* client: which of app, registry and executor are passed. acl: the acl    *)
(* option. configured: the lower tiers that name a root, "given" being     *)
(* --acl on the command line. group, shape, mode, listed, sealed, name:    *)
(* where the visibility of the built-in group comes from and what it says; *)
(* instance: the fields a pre-built ApcliGroup has of its own.             *)
OptionType ==
  [client : {"none", "registry", "executor", "both", "app", "appAndRegistry"},
   executor : Executors,
   acl : {"unset", "empty", "path", "object"},
   configured : SUBSET {"given", "env", "yaml"},
   group : {"instance", "config", "yaml"},
   shape : {"true", "false", "absent", "object", "wrong"},
   mode : Modes \cup {"bad"},
   listed : SUBSET Table,
   sealed : BOOLEAN,
   name : {"apcli", "tools", "Bad name"},
   instance : [name : {"apcli", "tools"}, injected : BOOLEAN, tier1 : BOOLEAN],
   env : {"unset", "all", "none"},
   expose : {"ok", "bad"},
   extras : Seq({"apcli", "tools", "extra"})]

ASSUME StartupAssumption ==
  /\ SetAcl \in [Executors -> {"absent", "works", "throws"}]
  /\ Asks \subseteq Executors /\ HasSystem \subseteq Executors
  /\ Nothing \notin Executors
  /\ Options # {} /\ Options \subseteq OptionType
  /\ \A o \in Options :
       o.group = "instance" => o.shape # "wrong" /\ o.mode # "bad"
  /\ Disks \subseteq [Places -> Kinds]
  /\ MaxPrograms \in Nat /\ MaxChanges \in Nat

VARIABLES
  pc,          \* where createCli is; "idle" between two calls
  opts,        \* its arguments
  group,       \* apcliCfg
  root,        \* the place the ACL root resolved to
  target,      \* whether the document is the root itself or inside it
  acl,         \* cliAcl
  programs,    \* the programs that were returned
  exit,        \* the code the process ended with; 0 while it runs
  enforced,    \* executor -> the rule set the CLI attached to it
  attached,    \* _attachedAcl
  wired,       \* executors that ask through the CLI's approval handler
  reserved,    \* _effectiveReservedNames: the one name in it
  disk,        \* place -> kind
  changes,     \* files replaced so far
  unsettled    \* history: places that lacked a document, or were changed from
               \* file to directory or back, since createCli began

call == <<opts, group, root, target, acl>>
globals == <<enforced, attached, wired, reserved>>
files == <<disk, changes>>
vars == <<pc, call, programs, exit, globals, files, unsettled>>

HasDocument(kind) == kind \in {"file", "badFile", "dir", "badDir"}
Lacking(d) == {p \in Places : ~HasDocument(d[p])}

NoGroup == [name |-> "apcli", mode |-> "auto", listed |-> {}, sealed |-> FALSE,
            injected |-> FALSE, tier1 |-> FALSE]

Init ==
  /\ pc = "idle" /\ opts = (CHOOSE o \in Options : TRUE) /\ group = NoGroup
  /\ root = Nothing /\ target = Nothing /\ acl = Nothing
  /\ programs = <<>> /\ exit = 0
  /\ enforced = [e \in Executors |-> Nothing] /\ attached = Nothing
  /\ wired = {} /\ reserved = "apcli"
  /\ disk \in Disks /\ changes = 0 /\ unsettled = {}

Goto(next) == pc' = next /\ UNCHANGED exit
Exit(code) == pc' = "exited" /\ exit' = code

-----------------------------------------------------------------------------
(* The options.                                                            *)

RegistryInjected(o) == o.client \in {"registry", "both", "app"}
ExecutorOf(o) ==
  IF o.client \in {"executor", "both", "app"} THEN o.executor ELSE Nothing

Call(o) ==
  /\ pc = "idle" /\ Len(programs) < MaxPrograms
  /\ opts' = o /\ group' = NoGroup
  /\ root' = Nothing /\ target' = Nothing /\ acl' = Nothing
  /\ unsettled' = Lacking(disk)
  /\ Goto("options")
  /\ UNCHANGED <<programs, globals, files>>

(* app excludes registry and executor, an executor needs a registry; then  *)
(* the approval handler is set, and an executor that refuses it goes on.    *)
CheckOptions ==
  /\ pc = "options"
  /\ \/ /\ opts.client \in {"appAndRegistry", "executor"}
        /\ Exit(2) /\ UNCHANGED wired
     \/ /\ opts.client \notin {"appAndRegistry", "executor"}
        /\ Goto("group")
        /\ wired' = wired \cup ({ExecutorOf(opts)} \cap Asks)
  /\ UNCHANGED <<call, programs, enforced, attached, reserved, files, unsettled>>

-----------------------------------------------------------------------------
(* Visibility of the built-in group.                                       *)

(* What makes the three sources throw or exit.                             *)
Refused(o) ==
  \/ o.group = "instance" /\ o.name # "apcli" /\ o.instance.name # o.name
  \/ /\ o.group # "instance"
     /\ \/ o.name = "Bad name"
        \/ o.shape = "wrong" /\ o.group = "config"
        \/ o.shape = "object" /\ o.mode = "bad"

ModeOf(o) ==
  CASE o.shape = "true"   -> "all"
    [] o.shape = "false"  -> "none"
    [] o.shape = "object" -> o.mode
    [] OTHER -> "auto"

(* _build: only the object form carries lists and the seal.                *)
GroupOf(o) ==
  [name |-> IF o.group = "instance" THEN o.instance.name ELSE o.name,
   mode |-> ModeOf(o),
   listed |-> IF o.shape = "object" THEN o.listed ELSE {},
   sealed |-> o.shape = "object" /\ o.sealed,
   injected |-> IF o.group = "instance" THEN o.instance.injected
                ELSE RegistryInjected(o),
   tier1 |-> IF o.group = "instance" THEN o.instance.tier1 ELSE o.group = "config"]

(* Variant with a bug: the seal is not looked at.                          *)
VisibilityUnsealed(g, env) ==
  IF g.tier1 /\ g.mode # "auto" THEN g.mode
  ELSE IF env # "unset" THEN env
  ELSE IF g.mode # "auto" THEN g.mode
  ELSE IF g.injected THEN "none" ELSE "all"

(* The code, then the environment unless sealed, then the file, then       *)
(* whether a host is there.                                                *)
Visibility(g, env) ==
  IF g.tier1 /\ g.mode # "auto" THEN g.mode
  ELSE IF ~g.sealed /\ env # "unset" THEN env
  ELSE IF g.mode # "auto" THEN g.mode
  ELSE IF g.injected THEN "none" ELSE "all"

BuildGroup ==
  /\ pc = "group"
  /\ \/ /\ Refused(opts) /\ Exit(2)
        /\ UNCHANGED <<group, reserved>>
     \/ /\ ~Refused(opts) /\ Goto("exposure")
        /\ group' = GroupOf(opts) /\ reserved' = GroupOf(opts).name
  /\ UNCHANGED <<opts, root, target, acl, programs, enforced, attached, wired,
                 files, unsettled>>

BuildExposure ==
  /\ pc = "exposure"
  /\ IF opts.expose = "bad" THEN Exit(2) ELSE Goto("root")
  /\ UNCHANGED <<call, programs, globals, files, unsettled>>

-----------------------------------------------------------------------------
(* The ACL: resolve, stat, look inside, load, attach. Between any two of   *)
(* these the files may change.                                             *)

(* An ACL object is used as it is; an injected executor is left alone      *)
(* unless the option is a string, the empty one included.                  *)
Discovers(o) ==
  o.acl # "object" /\ (ExecutorOf(o) = Nothing \/ o.acl # "unset")

(* The flag tier is the option, or --acl where no registry was injected.   *)
NamedTiers(o) ==
  LET given == \/ o.acl = "path"
               \/ ~RegistryInjected(o) /\ "given" \in o.configured
  IN  (o.configured \ {"given"}) \cup (IF given THEN {"given"} ELSE {})

FirstOf(tiers) ==
  IF tiers = {} THEN Nothing
  ELSE LET i == CHOOSE i \in 1..Len(Tiers) :
                  Tiers[i] \in tiers /\ \A j \in 1..(i - 1) : Tiers[j] \notin tiers
       IN  Tiers[i]

(* resolveAclRoot: the default counts only if it exists now.               *)
ResolveRoot ==
  /\ pc = "root"
  /\ \/ /\ ~Discovers(opts)
        /\ acl' = IF opts.acl = "object" THEN "object" ELSE Nothing
        /\ UNCHANGED root /\ Goto("attach")
     \/ /\ Discovers(opts)
        /\ root' = IF NamedTiers(opts) # {} THEN FirstOf(NamedTiers(opts))
                   ELSE IF disk["default"] # "missing" THEN "default" ELSE Nothing
        /\ UNCHANGED acl
        /\ Goto(IF root' = Nothing THEN "attach" ELSE "stat")
  /\ UNCHANGED <<opts, group, target, programs, globals, files, unsettled>>

(* statSync: no path that can be seen, no rules. "missing" is also what    *)
(* the system refuses to stat, for the error is not looked at.             *)
Stat ==
  /\ pc = "stat"
  /\ LET kind == disk[root] IN
     \/ /\ kind = "missing"
        /\ UNCHANGED target /\ Goto("attach")
     \/ /\ kind \in {"file", "badFile"}
        /\ target' = "root" /\ Goto("load")
     \/ /\ kind \in Directories
        /\ UNCHANGED target /\ Goto("inside")
  /\ UNCHANGED <<opts, group, root, acl, programs, globals, files, unsettled>>

(* existsSync of global_acl.yaml: not there, or not to be seen, no rules.  *)
LookInside ==
  /\ pc = "inside"
  /\ IF disk[root] \in {"dir", "badDir"}
     THEN target' = "inside" /\ Goto("load")
     ELSE UNCHANGED target /\ Goto("attach")
  /\ UNCHANGED <<opts, group, root, acl, programs, globals, files, unsettled>>

(* ACL.load of the path that was decided on; what is not there any more or *)
(* is not a rule set ends the process with 47.                             *)
Loadable ==
  \/ target = "root" /\ disk[root] = "file"
  \/ target = "inside" /\ disk[root] = "dir"

(* Variant with a bug: rules that cannot be read are no rules.             *)
LoadForgiving ==
  /\ pc = "load"
  /\ acl' = IF Loadable THEN root ELSE Nothing
  /\ Goto("attach")
  /\ UNCHANGED <<opts, group, root, target, programs, globals, files, unsettled>>

Load ==
  /\ pc = "load"
  /\ IF Loadable THEN acl' = root /\ Goto("attach")
                 ELSE UNCHANGED acl /\ Exit(47)
  /\ UNCHANGED <<opts, group, root, target, programs, globals, files, unsettled>>

(* What becomes of the loaded rules: there is an executor and it has a     *)
(* setAcl which works or throws, or one of these is missing.               *)
Taking(o) == IF ExecutorOf(o) = Nothing THEN "absent" ELSE SetAcl[ExecutorOf(o)]

(* Variant with a bug: the global stays as the program before set it.      *)
AttachKeepsGlobal ==
  /\ pc = "attach"
  /\ \/ /\ acl # Nothing /\ Taking(opts) = "works"
        /\ enforced' = [enforced EXCEPT ![ExecutorOf(opts)] = acl]
        /\ attached' = acl
        /\ Goto("register")
     \/ /\ acl # Nothing /\ Taking(opts) = "throws"
        /\ Exit(47) /\ UNCHANGED <<enforced, attached>>
     \/ /\ acl = Nothing \/ Taking(opts) = "absent"
        /\ UNCHANGED <<enforced, attached>>
        /\ Goto("register")
  /\ UNCHANGED <<call, programs, wired, reserved, files, unsettled>>

(* executor.setAcl and setAttachedAcl; a refusal is exit 47. Without an    *)
(* executor that takes rules the global is cleared.                        *)
Attach ==
  /\ pc = "attach"
  /\ \/ /\ acl # Nothing /\ Taking(opts) = "works"
        /\ enforced' = [enforced EXCEPT ![ExecutorOf(opts)] = acl]
        /\ attached' = acl
        /\ Goto("register")
     \/ /\ acl # Nothing /\ Taking(opts) = "throws"
        /\ Exit(47) /\ UNCHANGED <<enforced, attached>>
     \/ /\ acl = Nothing \/ Taking(opts) = "absent"
        /\ attached' = Nothing /\ UNCHANGED enforced
        /\ Goto("register")
  /\ UNCHANGED <<call, programs, wired, reserved, files, unsettled>>

-----------------------------------------------------------------------------
(* The subcommands and the host's own commands.                            *)

(* isSubcommandIncluded, and exec in any case.                             *)
Selected(g, mode) ==
  CASE mode = "include" -> AlwaysRegistered \cup (Table \cap g.listed)
    [] mode = "exclude" -> AlwaysRegistered \cup (Table \ g.listed)
    [] OTHER -> Table

SystemAvailable(o) == ExecutorOf(o) \in HasSystem

(* _registerApcliSubcommands.                                              *)
Registered(o, g) ==
  { name \in Selected(g, Visibility(g, o.env)) :
      /\ name \in System => SystemAvailable(o)
      /\ name \in NeedsExecutor => ExecutorOf(o) # Nothing }

(* extraCommands: each one is compared with the group and with those added *)
(* before it.                                                              *)
Collides(extras, name) ==
  \E i \in DOMAIN extras :
    extras[i] = name \/ \E j \in 1..(i - 1) : extras[j] = extras[i]

Finish ==
  /\ pc = "register"
  /\ \/ /\ Collides(opts.extras, group.name) /\ Exit(2)
        /\ UNCHANGED programs
     \/ /\ ~Collides(opts.extras, group.name) /\ Goto("idle")
        /\ programs' = Append(programs,
             [opts |-> opts, acl |-> acl, unsettled |-> unsettled,
              mode |-> Visibility(group, opts.env),
              commands |-> Registered(opts, group)])
  /\ UNCHANGED <<call, globals, files, unsettled>>

-----------------------------------------------------------------------------
(* Another process replaces what lies at a place that is still to be read. *)
Replace ==
  /\ pc \in {"root", "stat", "inside", "load"} /\ changes < MaxChanges
  /\ \E p \in Places, kind \in Kinds :
       /\ p = root \/ root = Nothing
       /\ kind # disk[p]
       /\ disk' = [disk EXCEPT ![p] = kind]
       /\ unsettled' =
            IF HasDocument(kind) /\ (kind \in Directories <=> disk[p] \in Directories)
            THEN unsettled ELSE unsettled \cup {p}
  /\ changes' = changes + 1
  /\ UNCHANGED <<pc, call, programs, exit, globals>>

CreateCli ==
  \/ \E o \in Options : Call(o)
  \/ CheckOptions \/ BuildGroup \/ BuildExposure
  \/ ResolveRoot \/ Stat \/ LookInside \/ Load \/ Attach \/ Finish

Next == CreateCli \/ Replace

Spec == Init /\ [][Next]_vars

-----------------------------------------------------------------------------
ProgramType ==
  [opts : Options, acl : RuleSets \cup {Nothing}, unsettled : SUBSET Places,
   mode : UserModes, commands : SUBSET Table]

TypeOK ==
  /\ pc \in {"idle", "options", "group", "exposure", "root", "stat", "inside",
             "load", "attach", "register", "exited"}
  /\ opts \in Options
  /\ group \in [name : {"apcli", "tools"}, mode : Modes, listed : SUBSET Table,
                sealed : BOOLEAN, injected : BOOLEAN, tier1 : BOOLEAN]
  /\ root \in Places \cup {Nothing} /\ target \in {Nothing, "root", "inside"}
  /\ acl \in RuleSets \cup {Nothing}
  /\ programs \in Seq(ProgramType) /\ Len(programs) <= MaxPrograms
  /\ exit \in {0, 2, 47}
  /\ enforced \in [Executors -> RuleSets \cup {Nothing}]
  /\ attached \in RuleSets \cup {Nothing}
  /\ wired \subseteq Executors /\ reserved \in {"apcli", "tools"}
  /\ disk \in [Places -> Kinds] /\ changes \in 0..MaxChanges
  /\ unsettled \subseteq Places

(* Rules that were asked for are never lost on the way: a program over an  *)
(* executor that takes rules is returned without any only if the place     *)
(* that takes precedence had no document that statSync could see, or was   *)
(* between file and directory, at some moment of the call, and otherwise   *)
(* it got the rules of that place. Everything else is a refusal.           *)
GovernedOrRefused ==
  \A i \in DOMAIN programs :
    LET p == programs[i]
        place == IF NamedTiers(p.opts) = {} THEN "default"
                 ELSE CHOOSE t \in NamedTiers(p.opts) :
                        \A u \in NamedTiers(p.opts) :
                          u = t \/ t = "given" \/ (t = "env" /\ u = "yaml")
    IN  /\ Discovers(p.opts) => p.acl = place \/ (p.acl = Nothing /\ place \in p.unsettled)
        /\ p.opts.acl = "object" => p.acl = "object"
        /\ p.acl # Nothing => Taking(p.opts) # "throws"

(* What the CLI judges delegated calls by is what the executor of the last *)
(* program enforces: a sandboxed call is never admitted by rules of a      *)
(* program before it, nor by rules the executor did not take.              *)
HeldMeansEnforced ==
  pc = "idle" /\ programs # <<>> =>
    LET p == programs[Len(programs)] IN
    IF p.acl # Nothing /\ Taking(p.opts) = "works"
    THEN attached = p.acl /\ enforced[ExecutorOf(p.opts)] = p.acl
    ELSE attached = Nothing

(* A list says what it says, whoever runs the program: in code, or sealed, *)
(* it holds whatever the environment asks for.                             *)
Fixed(o) ==
  o.shape = "object" /\ o.mode \in {"include", "exclude"}
    /\ (o.sealed \/ GroupOf(o).tier1)

(* What is offered is decided by the executor and the lists alone. Over    *)
(* one executor a hidden group has what a visible one has; include leaves  *)
(* of that what it names and exclude takes away what it names, save exec,  *)
(* the escape hatch, which is there whenever an executor is; a fixed list  *)
(* holds against the environment. (Of the six system commands a list       *)
(* leaves a part, and they do not come together; without one they do.)     *)
SurfaceComplete ==
  \A i, j \in DOMAIN programs :
    LET p == programs[i]
        q == programs[j]
    IN  /\ "exec" \in p.commands <=> ExecutorOf(p.opts) # Nothing
        /\ ExecutorOf(p.opts) = Nothing => p.commands \subseteq Standalone
        /\ q.mode \in {"all", "none"} => q.commands \cap System \in {{}, System}
        /\ q.mode \in {"all", "none"} /\ ExecutorOf(p.opts) = ExecutorOf(q.opts) =>
             p.commands =
               IF p.mode = "include" THEN q.commands \cap (p.opts.listed \cup {"exec"})
               ELSE IF p.mode = "exclude" THEN q.commands \ (p.opts.listed \ {"exec"})
               ELSE q.commands
        /\ Fixed(p.opts) => p.mode = p.opts.mode

=============================================================================
