---------------------------- MODULE StartupProofs -----------------------------
(***************************************************************************)
(* Proofs about Startup for every host: whatever executors, options, files *)
(* and replacements of files there are, and however many programs one      *)
(* process builds. The invariant follows one call of createCli: what the   *)
(* root is once it is resolved, what may be missing by then, and what the  *)
(* globals are after the rules were attached.                              *)
(***************************************************************************)
EXTENDS Startup, TLAPS

Labels == {"idle", "options", "group", "exposure", "root", "stat", "inside",
           "load", "attach", "register", "exited"}
GroupType == [name : {"apcli", "tools"}, mode : Modes, listed : SUBSET Table,
              sealed : BOOLEAN, injected : BOOLEAN, tier1 : BOOLEAN]

(* The place that takes precedence, as GovernedOrRefused has it.           *)
Place(o) ==
  IF NamedTiers(o) = {} THEN "default"
  ELSE CHOOSE t \in NamedTiers(o) :
         \A u \in NamedTiers(o) : u = t \/ t = "given" \/ (t = "env" /\ u = "yaml")

(* The rules that a call has when it is past the loading.                  *)
Governed(o, rules, open) ==
  /\ Discovers(o) => rules = Place(o) \/ (rules = Nothing /\ Place(o) \in open)
  /\ o.acl = "object" => rules = "object"

(* The call in progress: what lacks a document is known to be unsettled,   *)
(* the root is the place that takes precedence, a root that was a          *)
(* directory is one still or unsettled, and past the loading the rules are *)
(* those that were asked for.                                              *)
CallInv ==
  /\ pc \in {"options", "group", "exposure", "root", "stat", "inside", "load"} =>
       Lacking(disk) \subseteq unsettled
  /\ pc \in {"stat", "inside", "load"} => Discovers(opts) /\ root = Place(opts)
  /\ pc \in {"options", "group", "exposure", "root", "stat", "inside", "load"} =>
       acl = Nothing
  /\ pc = "inside" => disk[root] \in Directories \/ root \in unsettled
  /\ pc \in {"attach", "register"} => Governed(opts, acl, unsettled)
  /\ pc \notin {"idle", "exited"} => Len(programs) < MaxPrograms

(* The group, once it is built, is the one the options describe.           *)
GroupInv ==
  pc \in {"exposure", "root", "stat", "inside", "load", "attach", "register"} =>
    group = GroupOf(opts)

(* What is held and enforced when the rules have been attached.            *)
Held(o, rules) ==
  IF rules # Nothing /\ Taking(o) = "works"
  THEN attached = rules /\ enforced[ExecutorOf(o)] = rules
  ELSE attached = Nothing

HeldInv ==
  /\ pc = "register" => Held(opts, acl) /\ (acl # Nothing => Taking(opts) # "throws")
  /\ pc = "idle" /\ programs # <<>> =>
       Held(programs[Len(programs)].opts, programs[Len(programs)].acl)

(* What every program returned has, whatever happens afterwards.           *)
Returned(p) ==
  /\ Governed(p.opts, p.acl, p.unsettled)
  /\ p.acl # Nothing => Taking(p.opts) # "throws"
  /\ GroupOf(p.opts) \in GroupType
  /\ p.mode = Visibility(GroupOf(p.opts), p.opts.env)
  /\ p.commands = Registered(p.opts, GroupOf(p.opts))

IInv ==
  /\ TypeOK
  /\ CallInv
  /\ HeldInv
  /\ GroupInv
  /\ \A i \in DOMAIN programs : Returned(programs[i])

-----------------------------------------------------------------------------
(* The code walks down the tiers: it ends where the precedence says.       *)
LEMMA FirstIsPlace ==
  ASSUME NEW T \in SUBSET {"given", "env", "yaml"}, T # {}
  PROVE  /\ FirstOf(T) \in T
         /\ FirstOf(T) = CHOOSE t \in T :
              \A u \in T : u = t \/ t = "given" \/ (t = "env" /\ u = "yaml")
<1>1. Len(Tiers) = 4 /\ Tiers[1] = "given" /\ Tiers[2] = "env" /\ Tiers[3] = "yaml"
      /\ Tiers[4] = "default"
  BY DEF Tiers
<1> DEFINE Fits(i) == Tiers[i] \in T /\ \A j \in 1..(i - 1) : Tiers[j] \notin T
           Wins(t) == \A u \in T : u = t \/ t = "given" \/ (t = "env" /\ u = "yaml")
<1>2. FirstOf(T) = Tiers[CHOOSE i \in 1..4 : Fits(i)]
  BY <1>1 DEF FirstOf
<1>3. CASE "given" \in T
  <2>1. Fits(1) /\ \A i \in 1..4 : Fits(i) => i = 1
    BY <1>1, <1>3
  <2>2. (CHOOSE i \in 1..4 : Fits(i)) = 1
    BY <2>1
  <2>3. \A t \in T : Wins(t) <=> t = "given"
    BY <1>3
  <2>4. (CHOOSE t \in T : Wins(t)) = "given"
    BY <1>3, <2>3
  <2> QED
    BY <1>1, <1>2, <1>3, <2>2, <2>4
<1>4. CASE "given" \notin T /\ "env" \in T
  <2>1. Fits(2) /\ \A i \in 1..4 : Fits(i) => i = 2
    BY <1>1, <1>4
  <2>2. (CHOOSE i \in 1..4 : Fits(i)) = 2
    BY <2>1
  <2>3. \A t \in T : Wins(t) <=> t = "env"
    BY <1>4
  <2>4. (CHOOSE t \in T : Wins(t)) = "env"
    BY <1>4, <2>3
  <2> QED
    BY <1>1, <1>2, <1>4, <2>2, <2>4
<1>5. CASE "given" \notin T /\ "env" \notin T
  <2>1. T = {"yaml"}
    BY <1>5
  <2>2. Fits(3) /\ \A i \in 1..4 : Fits(i) => i = 3
    BY <1>1, <2>1
  <2>3. (CHOOSE i \in 1..4 : Fits(i)) = 3
    BY <2>2
  <2>4. \A t \in T : Wins(t) <=> t = "yaml"
    BY <2>1
  <2>5. (CHOOSE t \in T : Wins(t)) = "yaml"
    BY <2>1, <2>4
  <2> QED
    BY <1>1, <1>2, <2>1, <2>3, <2>5
<1> QED
  BY <1>3, <1>4, <1>5

(* What the options can be.                                                *)
LEMMA OptionFacts ==
  ASSUME NEW o \in Options
  PROVE  /\ o \in OptionType
         /\ ExecutorOf(o) \in Executors \cup {Nothing}
         /\ Taking(o) \in {"absent", "works", "throws"}
         /\ Taking(o) # "absent" => ExecutorOf(o) \in Executors
         /\ NamedTiers(o) \subseteq {"given", "env", "yaml"}
         /\ Place(o) \in Places
<1>1. o \in OptionType
  BY StartupAssumption
<1>2. o.executor \in Executors /\ o.configured \subseteq {"given", "env", "yaml"}
  BY <1>1 DEF OptionType
<1>3. ExecutorOf(o) \in Executors \cup {Nothing}
  BY <1>2 DEF ExecutorOf
<1>4. /\ Taking(o) \in {"absent", "works", "throws"}
      /\ Taking(o) # "absent" => ExecutorOf(o) \in Executors
  BY <1>3, StartupAssumption DEF Taking
<1>5. NamedTiers(o) \subseteq {"given", "env", "yaml"}
  BY <1>2 DEF NamedTiers
<1>6. Place(o) \in Places
  <2>1. CASE NamedTiers(o) = {}
    BY <2>1 DEF Place, Places
  <2>2. CASE NamedTiers(o) # {}
    <3>1. FirstOf(NamedTiers(o)) \in NamedTiers(o) /\ Place(o) = FirstOf(NamedTiers(o))
      BY <1>5, <2>2, FirstIsPlace DEF Place
    <3> QED
      BY <1>5, <3>1 DEF Places
  <2> QED
    BY <2>1, <2>2
<1> QED
  BY <1>1, <1>3, <1>4, <1>5, <1>6

(* What is built from the options.                                         *)
LEMMA BuiltFacts ==
  ASSUME NEW o \in Options
  PROVE  /\ ~Refused(o) => GroupOf(o) \in GroupType
         /\ \A g \in GroupType : /\ Visibility(g, o.env) \in UserModes
                                 /\ Registered(o, g) \subseteq Table
<1>1. o \in OptionType
  BY OptionFacts
<1>2. /\ o.group \in {"instance", "config", "yaml"} /\ o.listed \in SUBSET Table
      /\ o.shape \in {"true", "false", "absent", "object", "wrong"}
      /\ o.sealed \in BOOLEAN /\ o.env \in {"unset", "all", "none"}
      /\ o.mode \in Modes \cup {"bad"} /\ o.name \in {"apcli", "tools", "Bad name"}
      /\ o.instance.name \in {"apcli", "tools"} /\ o.instance.injected \in BOOLEAN
      /\ o.instance.tier1 \in BOOLEAN
  BY <1>1 DEF OptionType
<1>3. ASSUME ~Refused(o) PROVE GroupOf(o) \in GroupType
  <2>1. ModeOf(o) \in Modes
    <3>1. o.shape = "object" => o.mode # "bad"
      BY <1>2, <1>3, StartupAssumption DEF Refused
    <3> QED
      BY <1>2, <3>1 DEF ModeOf, Modes, UserModes
  <2>2. (IF o.group = "instance" THEN o.instance.name ELSE o.name) \in {"apcli", "tools"}
    BY <1>2, <1>3 DEF Refused
  <2>3. RegistryInjected(o) \in BOOLEAN
    BY DEF RegistryInjected
  <2> QED
    BY <1>2, <2>1, <2>2, <2>3 DEF GroupOf, GroupType
<1>4. ASSUME NEW g \in GroupType PROVE Visibility(g, o.env) \in UserModes
  BY <1>2, <1>4 DEF Visibility, UserModes, Modes, GroupType
<1>5. ASSUME NEW g \in GroupType PROVE Registered(o, g) \subseteq Table
  BY DEF Registered, Selected, Table, NeedsExecutor, AlwaysRegistered
<1> QED
  BY <1>3, <1>4, <1>5

-----------------------------------------------------------------------------
LEMMA InitIInv == Init => IInv
<1> SUFFICES ASSUME Init PROVE IInv
  OBVIOUS
<1>1. opts \in Options
  BY StartupAssumption DEF Init
<1>2. group \in GroupType
  BY DEF Init, NoGroup, GroupType, Modes, UserModes
<1>3. TypeOK
  <2>1. disk \in [Places -> Kinds]
    BY StartupAssumption DEF Init
  <2>2. programs \in Seq(ProgramType) /\ Len(programs) <= MaxPrograms
    BY StartupAssumption DEF Init
  <2>3. changes \in 0..MaxChanges
    BY StartupAssumption DEF Init
  <2> QED
    BY <1>1, <1>2, <2>1, <2>2, <2>3 DEF Init, TypeOK, GroupType
<1>4. CallInv /\ HeldInv /\ GroupInv
  BY DEF Init, CallInv, HeldInv, GroupInv
<1>5. \A i \in DOMAIN programs : Returned(programs[i])
  BY DEF Init
<1> QED
  BY <1>3, <1>4, <1>5 DEF IInv

LEMMA NextTypeOK == IInv /\ [Next]_vars => TypeOK'
<1> SUFFICES ASSUME IInv, [Next]_vars PROVE TypeOK'
  OBVIOUS
<1>1. TypeOK /\ CallInv
  BY DEF IInv
<1>2. opts \in Options /\ group \in GroupType /\ root \in Places \cup {Nothing}
  BY <1>1 DEF TypeOK, GroupType
<1>3. /\ ExecutorOf(opts) \in Executors \cup {Nothing} /\ Place(opts) \in Places
      /\ Taking(opts) # "absent" => ExecutorOf(opts) \in Executors
      /\ NamedTiers(opts) \subseteq {"given", "env", "yaml"}
  BY <1>2, OptionFacts
<1> USE DEF TypeOK, Goto, Exit, call, globals, files
<1>4. ASSUME NEW o \in Options, Call(o) PROVE TypeOK'
  <2>1. NoGroup \in GroupType /\ Lacking(disk) \subseteq Places
    BY DEF NoGroup, GroupType, Modes, UserModes, Lacking
  <2> QED
    BY <1>1, <1>4, <2>1 DEF Call, GroupType
<1>5. CASE CheckOptions
  BY <1>1, <1>5, StartupAssumption DEF CheckOptions
<1>6. CASE BuildGroup
  <2>1. ~Refused(opts) => GroupOf(opts) \in GroupType
    BY <1>2, BuiltFacts
  <2>2. \A g \in GroupType : g.name \in {"apcli", "tools"}
    BY DEF GroupType
  <2>3. group' \in GroupType /\ reserved' \in {"apcli", "tools"}
    BY <1>1, <1>2, <1>6, <2>1, <2>2 DEF BuildGroup
  <2> QED
    BY <1>1, <1>6, <2>3 DEF BuildGroup, GroupType
<1>7. CASE BuildExposure
  BY <1>1, <1>7 DEF BuildExposure
<1>8. CASE ResolveRoot
  <2>1. root' \in Places \cup {Nothing} /\ acl' \in RuleSets \cup {Nothing}
    <3>1. NamedTiers(opts) # {} => FirstOf(NamedTiers(opts)) \in Places
      BY <1>3, FirstIsPlace DEF Places
    <3> QED
      BY <1>1, <1>8, <3>1 DEF ResolveRoot, Places, RuleSets
  <2> QED
    BY <1>1, <1>8, <2>1 DEF ResolveRoot
<1>9. CASE Stat
  BY <1>1, <1>9 DEF Stat
<1>10. CASE LookInside
  BY <1>1, <1>10 DEF LookInside
<1>11. CASE Load
  <2>1. root \in RuleSets
    BY <1>1, <1>3, <1>11 DEF Load, CallInv, RuleSets
  <2> QED
    BY <1>1, <1>11, <2>1 DEF Load
<1>12. CASE Attach
  BY <1>1, <1>3, <1>12 DEF Attach
<1>13. CASE Finish
  <2> DEFINE p == [opts |-> opts, acl |-> acl, unsettled |-> unsettled,
                   mode |-> Visibility(group, opts.env),
                   commands |-> Registered(opts, group)]
  <2>1. p \in ProgramType
    BY <1>1, <1>2, BuiltFacts DEF ProgramType
  <2>2. MaxPrograms \in Nat /\ programs \in Seq(ProgramType)
    BY <1>1, StartupAssumption
  <2>3. programs' \in Seq(ProgramType)
    BY <1>13, <2>1, <2>2 DEF Finish
  <2>4. Len(programs') <= MaxPrograms
    <3>1. Len(programs) < MaxPrograms /\ Len(programs) \in Nat
      BY <1>1, <1>13, <2>2 DEF Finish, CallInv
    <3>2. programs' = programs \/ programs' = Append(programs, p)
      BY <1>13 DEF Finish
    <3> HIDE DEF p
    <3>3. Len(Append(programs, p)) = Len(programs) + 1
      BY <2>1, <2>2
    <3> QED
      BY <2>2, <3>1, <3>2, <3>3
  <2> QED
    BY <1>1, <1>13, <2>3, <2>4 DEF Finish
<1>14. CASE Replace
  <2>1. changes' \in 0..MaxChanges
    BY <1>1, <1>14, StartupAssumption DEF Replace
  <2>2. disk' \in [Places -> Kinds] /\ unsettled' \subseteq Places
    BY <1>1, <1>14 DEF Replace
  <2> QED
    BY <1>1, <1>14, <2>1, <2>2 DEF Replace
<1>15. CASE UNCHANGED vars
  BY <1>1, <1>15 DEF vars
<1> QED
  BY <1>4, <1>5, <1>6, <1>7, <1>8, <1>9, <1>10, <1>11, <1>12, <1>13, <1>14, <1>15
  DEF Next, CreateCli

-----------------------------------------------------------------------------
(* The call in progress, step by step.                                     *)
LEMMA NextCallInv == IInv /\ [Next]_vars => CallInv'
<1> SUFFICES ASSUME IInv, [Next]_vars PROVE CallInv'
  OBVIOUS
<1>1. TypeOK /\ CallInv
  BY DEF IInv
<1>2. opts \in Options /\ disk \in [Places -> Kinds]
  BY <1>1 DEF TypeOK
<1>3. /\ Place(opts) \in Places /\ Nothing \notin Places
      /\ NamedTiers(opts) \subseteq {"given", "env", "yaml"}
  BY <1>2, OptionFacts DEF Nothing, Places
<1> USE DEF Goto, Exit, call, globals, files
<1>4. ASSUME NEW o \in Options, Call(o) PROVE CallInv'
  BY <1>1, <1>4 DEF Call, CallInv, Lacking
<1>5. CASE CheckOptions
  BY <1>1, <1>5 DEF CheckOptions, CallInv, Lacking
<1>6. CASE BuildGroup
  BY <1>1, <1>6 DEF BuildGroup, CallInv, Lacking
<1>7. CASE BuildExposure
  BY <1>1, <1>7 DEF BuildExposure, CallInv, Lacking
<1>8. CASE ResolveRoot
  <2>1. /\ pc = "root" /\ acl = Nothing /\ Lacking(disk) \subseteq unsettled
        /\ Len(programs) < MaxPrograms
        /\ UNCHANGED <<opts, programs, disk, unsettled>>
    BY <1>1, <1>8 DEF ResolveRoot, CallInv
  <2>2. CASE ~Discovers(opts)
    <3>1. pc' = "attach" /\ acl' = (IF opts.acl = "object" THEN "object" ELSE Nothing)
      BY <1>8, <2>2 DEF ResolveRoot
    <3>2. Governed(opts, acl', unsettled)
      BY <2>2, <3>1 DEF Governed
    <3> QED
      BY <2>1, <3>1, <3>2 DEF CallInv, Governed, Place
  <2>3. CASE Discovers(opts) /\ root' = Nothing
    <3>1. pc' = "attach" /\ acl' = acl
      BY <1>8, <2>3 DEF ResolveRoot
    <3>2. NamedTiers(opts) = {} /\ disk["default"] = "missing"
      BY <1>3, <1>8, <2>3, FirstIsPlace DEF ResolveRoot, Nothing
    <3>3. Place(opts) = "default" /\ "default" \in unsettled
      BY <2>1, <3>2 DEF Place, Lacking, Places, HasDocument
    <3>4. Governed(opts, acl', unsettled)
      BY <2>1, <2>3, <3>1, <3>3 DEF Governed, Discovers
    <3> QED
      BY <2>1, <3>1, <3>4 DEF CallInv, Governed, Place
  <2>4. CASE Discovers(opts) /\ root' # Nothing
    <3>1. pc' = "stat" /\ acl' = acl
      BY <1>8, <2>4 DEF ResolveRoot
    <3>2. root' = Place(opts)
      <4>1. CASE NamedTiers(opts) = {}
        BY <1>8, <2>4, <4>1 DEF ResolveRoot, Place
      <4>2. CASE NamedTiers(opts) # {}
        BY <1>3, <1>8, <2>4, <4>2, FirstIsPlace DEF ResolveRoot, Place
      <4> QED
        BY <4>1, <4>2
    <3> QED
      BY <2>1, <2>4, <3>1, <3>2 DEF CallInv, Lacking, Discovers, Place
  <2> QED
    BY <2>2, <2>3, <2>4
<1>9. CASE Stat
  <2>1. /\ pc = "stat" /\ acl = Nothing /\ Lacking(disk) \subseteq unsettled
        /\ Discovers(opts) /\ root = Place(opts) /\ Len(programs) < MaxPrograms
        /\ UNCHANGED <<opts, root, acl, programs, disk, unsettled>>
    BY <1>1, <1>9 DEF Stat, CallInv
  <2>2. CASE disk[root] = "missing"
    <3>1. pc' = "attach"
      BY <1>9, <2>2 DEF Stat, Directories
    <3>2. root \in unsettled
      BY <1>3, <2>1, <2>2 DEF Lacking, HasDocument
    <3>3. Governed(opts, acl, unsettled)
      BY <2>1, <3>2 DEF Governed, Discovers
    <3> QED
      BY <2>1, <3>1, <3>3 DEF CallInv, Governed, Place
  <2>3. CASE disk[root] \in {"file", "badFile"}
    <3>1. pc' = "load"
      BY <1>9, <2>3 DEF Stat, Directories
    <3> QED
      BY <2>1, <3>1 DEF CallInv, Lacking, Discovers, Place
  <2>4. CASE disk[root] \in Directories
    <3>1. pc' = "inside"
      BY <1>9, <2>4 DEF Stat, Directories
    <3> QED
      BY <2>1, <2>4, <3>1 DEF CallInv, Lacking, Discovers, Place
  <2> QED
    BY <1>9, <2>2, <2>3, <2>4 DEF Stat
<1>10. CASE LookInside
  <2>1. /\ pc = "inside" /\ acl = Nothing /\ Lacking(disk) \subseteq unsettled
        /\ Discovers(opts) /\ root = Place(opts) /\ Len(programs) < MaxPrograms
        /\ disk[root] \in Directories \/ root \in unsettled
        /\ UNCHANGED <<opts, root, acl, programs, disk, unsettled>>
    BY <1>1, <1>10 DEF LookInside, CallInv
  <2>2. CASE disk[root] \in {"dir", "badDir"}
    <3>1. pc' = "load"
      BY <1>10, <2>2 DEF LookInside
    <3> QED
      BY <2>1, <3>1 DEF CallInv, Lacking, Discovers, Place
  <2>3. CASE disk[root] \notin {"dir", "badDir"}
    <3>1. pc' = "attach"
      BY <1>10, <2>3 DEF LookInside
    <3>2. root \in unsettled
      BY <1>3, <2>1, <2>3 DEF Lacking, HasDocument, Directories
    <3>3. Governed(opts, acl, unsettled)
      BY <2>1, <3>2 DEF Governed, Discovers
    <3> QED
      BY <2>1, <3>1, <3>3 DEF CallInv, Governed, Place
  <2> QED
    BY <2>2, <2>3
<1>11. CASE Load
  <2>1. /\ pc = "load" /\ acl = Nothing
        /\ Discovers(opts) /\ root = Place(opts) /\ Len(programs) < MaxPrograms
        /\ UNCHANGED <<opts, programs, unsettled>>
    BY <1>1, <1>11 DEF Load, CallInv
  <2>2. CASE Loadable
    <3>1. pc' = "attach" /\ acl' = root
      BY <1>11, <2>2 DEF Load
    <3>2. Governed(opts, acl', unsettled)
      BY <2>1, <3>1 DEF Governed, Discovers
    <3> QED
      BY <2>1, <3>1, <3>2 DEF CallInv, Governed, Place
  <2>3. CASE ~Loadable
    BY <1>11, <2>3 DEF Load, CallInv
  <2> QED
    BY <2>2, <2>3
<1>12. CASE Attach
  BY <1>1, <1>12 DEF Attach, CallInv
<1>13. CASE Finish
  BY <1>1, <1>13 DEF Finish, CallInv
<1>14. CASE Replace
  <2>1. PICK p \in Places, kind \in Kinds :
          /\ disk' = [disk EXCEPT ![p] = kind]
          /\ unsettled' =
               IF HasDocument(kind) /\ (kind \in Directories <=> disk[p] \in Directories)
               THEN unsettled ELSE unsettled \cup {p}
    BY <1>14 DEF Replace
  <2>2. /\ pc \in {"root", "stat", "inside", "load"} /\ pc' = pc
        /\ UNCHANGED <<opts, root, acl, programs>>
    BY <1>14 DEF Replace
  <2>3. disk'[p] = kind /\ \A q \in Places : q # p => disk'[q] = disk[q]
    BY <1>2, <2>1
  <2>4. Lacking(disk') \subseteq unsettled'
    BY <1>1, <2>1, <2>2, <2>3 DEF CallInv, Lacking
  <2>5. pc = "inside" => disk'[root] \in Directories \/ root \in unsettled'
    <3> SUFFICES ASSUME pc = "inside" PROVE disk'[root] \in Directories \/ root \in unsettled'
      OBVIOUS
    <3>1. root \in Places /\ (disk[root] \in Directories \/ root \in unsettled)
      BY <1>1, <1>3 DEF CallInv
    <3> QED
      BY <2>1, <2>3, <3>1
  <2>6. pc \in {"stat", "inside", "load"} => Discovers(opts) /\ root = Place(opts)
    BY <1>1 DEF CallInv
  <2>7. acl = Nothing /\ Len(programs) < MaxPrograms
    BY <1>1, <2>2 DEF CallInv
  <2> QED
    BY <2>2, <2>4, <2>5, <2>6, <2>7 DEF CallInv, Lacking, Discovers, Place
<1>15. CASE UNCHANGED vars
  BY <1>1, <1>15 DEF vars, CallInv, Lacking, Governed
<1> QED
  BY <1>4, <1>5, <1>6, <1>7, <1>8, <1>9, <1>10, <1>11, <1>12, <1>13, <1>14, <1>15
  DEF Next, CreateCli

(* Only attaching touches what is held, and a program is returned next.    *)
LEMMA NextHeldInv == IInv /\ [Next]_vars => HeldInv'
<1> SUFFICES ASSUME IInv, [Next]_vars PROVE HeldInv'
  OBVIOUS
<1>1. TypeOK /\ HeldInv
  BY DEF IInv
<1>2. opts \in Options
  BY <1>1 DEF TypeOK
<1>3. CASE Attach
  <2>1. pc' \in {"register", "exited"} /\ UNCHANGED <<opts, acl, programs>>
    BY <1>3 DEF Attach, Goto, Exit, call
  <2>2. pc' = "register" => Held(opts, acl)' /\ (acl # Nothing => Taking(opts) # "throws")
    <3> SUFFICES ASSUME pc' = "register"
                 PROVE  Held(opts, acl)' /\ (acl # Nothing => Taking(opts) # "throws")
      OBVIOUS
    <3>1. CASE acl # Nothing /\ Taking(opts) = "works"
      <4>1. enforced' = [enforced EXCEPT ![ExecutorOf(opts)] = acl] /\ attached' = acl
        BY <1>3, <3>1 DEF Attach
      <4>2. ExecutorOf(opts) \in Executors
        BY <1>2, <3>1, OptionFacts
      <4>3. enforced'[ExecutorOf(opts)] = acl
        BY <1>1, <4>1, <4>2 DEF TypeOK
      <4> QED
        BY <2>1, <3>1, <4>1, <4>3 DEF Held
    <3>2. CASE ~(acl # Nothing /\ Taking(opts) = "works")
      <4>1. attached' = Nothing
        BY <1>3, <3>2 DEF Attach, Exit
      <4>2. acl # Nothing => Taking(opts) # "throws"
        BY <1>3 DEF Attach, Exit
      <4> QED
        BY <2>1, <3>2, <4>1, <4>2 DEF Held, Taking, ExecutorOf
    <3> QED
      BY <3>1, <3>2
  <2> QED
    BY <2>1, <2>2 DEF HeldInv, Taking, ExecutorOf
<1>4. CASE Finish
  <2> DEFINE p == [opts |-> opts, acl |-> acl, unsettled |-> unsettled,
                   mode |-> Visibility(group, opts.env),
                   commands |-> Registered(opts, group)]
  <2>1. pc = "register" /\ pc' \in {"idle", "exited"} /\ UNCHANGED <<enforced, attached>>
    BY <1>4 DEF Finish, Goto, Exit, globals
  <2>2. pc' = "idle" => programs' = Append(programs, p)
    BY <1>4 DEF Finish, Exit
  <2>3. p.opts = opts /\ p.acl = acl
    OBVIOUS
  <2> HIDE DEF p
  <2>4. programs \in Seq(ProgramType)
    BY <1>1 DEF TypeOK
  <2>5. pc' = "idle" => programs'[Len(programs')] = p
    BY <2>2, <2>4
  <2>6. Held(opts, acl)
    BY <1>1, <2>1 DEF HeldInv
  <2> QED
    BY <2>1, <2>3, <2>5, <2>6 DEF HeldInv, Held, Taking, ExecutorOf
<1>5. ASSUME pc' \notin {"idle", "register"} PROVE HeldInv'
  BY <1>5 DEF HeldInv
<1>6. ASSUME UNCHANGED <<pc, opts, acl, programs, enforced, attached>> PROVE HeldInv'
  BY <1>1, <1>6 DEF HeldInv, Held, Taking, ExecutorOf
<1>7. ASSUME NEW o \in Options, Call(o) PROVE HeldInv'
  BY <1>5, <1>7 DEF Call, Goto
<1>8. CASE CheckOptions \/ BuildGroup \/ BuildExposure
  BY <1>5, <1>8 DEF CheckOptions, BuildGroup, BuildExposure, Goto, Exit
<1>9. CASE ResolveRoot
  BY <1>5, <1>9 DEF ResolveRoot, Goto
<1>10. CASE Stat \/ LookInside \/ Load
  BY <1>5, <1>10 DEF Stat, LookInside, Load, Goto, Exit
<1>11. CASE Replace
  BY <1>6, <1>11 DEF Replace, call, globals
<1>12. CASE UNCHANGED vars
  BY <1>6, <1>12 DEF vars, call, globals
<1> QED
  BY <1>3, <1>4, <1>7, <1>8, <1>9, <1>10, <1>11, <1>12 DEF Next, CreateCli

(* A program is returned once, with what the call arrived at.              *)
LEMMA NextGroupInv == IInv /\ [Next]_vars => GroupInv'
<1> SUFFICES ASSUME IInv, [Next]_vars PROVE GroupInv'
  OBVIOUS
<1>1. GroupInv
  BY DEF IInv
<1> USE DEF Goto, Exit, call, globals, files, GroupInv
<1>2. CASE BuildGroup
  BY <1>2 DEF BuildGroup
<1>3. CASE BuildExposure \/ ResolveRoot \/ Stat \/ LookInside \/ Load \/ Attach
  BY <1>1, <1>3 DEF BuildExposure, ResolveRoot, Stat, LookInside, Load, Attach
<1>4. CASE (\E o \in Options : Call(o)) \/ CheckOptions \/ Finish
  BY <1>4 DEF Call, CheckOptions, Finish
<1>5. CASE Replace \/ UNCHANGED vars
  BY <1>1, <1>5 DEF Replace, vars
<1> QED
  BY <1>2, <1>3, <1>4, <1>5 DEF Next, CreateCli

LEMMA NextReturned ==
  IInv /\ [Next]_vars => \A i \in DOMAIN programs' : Returned(programs'[i])
<1> SUFFICES ASSUME IInv, [Next]_vars
             PROVE  \A i \in DOMAIN programs' : Returned(programs'[i])
  OBVIOUS
<1>1. /\ TypeOK /\ CallInv /\ HeldInv /\ GroupInv
      /\ \A i \in DOMAIN programs : Returned(programs[i])
  BY DEF IInv
<1>2. CASE programs' = programs
  BY <1>1, <1>2
<1>3. CASE Finish
  <2> DEFINE p == [opts |-> opts, acl |-> acl, unsettled |-> unsettled,
                   mode |-> Visibility(group, opts.env),
                   commands |-> Registered(opts, group)]
  <2>1. programs' = programs \/ programs' = Append(programs, p)
    BY <1>3 DEF Finish
  <2>2. group \in GroupType /\ programs \in Seq(ProgramType)
    BY <1>1 DEF TypeOK, GroupType
  <2>3. Governed(opts, acl, unsettled) /\ (acl # Nothing => Taking(opts) # "throws")
    BY <1>1, <1>3 DEF Finish, CallInv, HeldInv
  <2>4. Returned(p)
    <3>1. group = GroupOf(opts)
      BY <1>1, <1>3 DEF Finish, GroupInv
    <3> QED
      BY <2>2, <2>3, <3>1 DEF Returned
  <2> HIDE DEF p
  <2>5. ASSUME programs' = Append(programs, p), NEW i \in DOMAIN programs'
        PROVE  Returned(programs'[i])
    <3>1. /\ DOMAIN programs = 1..Len(programs) /\ Len(programs) \in Nat
          /\ DOMAIN programs' = 1..(Len(programs) + 1)
          /\ programs'[Len(programs) + 1] = p
          /\ \A j \in 1..Len(programs) : programs'[j] = programs[j]
      BY <2>2, <2>5
    <3>2. CASE i = Len(programs) + 1
      BY <2>4, <3>1, <3>2
    <3>3. CASE i \in 1..Len(programs)
      BY <1>1, <3>1, <3>3
    <3> QED
      BY <3>1, <3>2, <3>3
  <2> QED
    BY <1>2, <2>1, <2>5
<1>4. Finish \/ programs' = programs
  BY DEF Next, CreateCli, Call, CheckOptions, BuildGroup, BuildExposure,
         ResolveRoot, Stat, LookInside, Load, Attach, Replace, vars, call
<1> QED
  BY <1>2, <1>3, <1>4

-----------------------------------------------------------------------------
LEMMA NextIInv == IInv /\ [Next]_vars => IInv'
<1> SUFFICES ASSUME IInv, [Next]_vars PROVE IInv'
  OBVIOUS
<1>1. TypeOK' /\ CallInv' /\ HeldInv' /\ GroupInv'
  BY NextTypeOK, NextCallInv, NextHeldInv, NextGroupInv
<1>2. \A i \in DOMAIN programs' : Returned(programs'[i])
  BY NextReturned
<1>3. (\A i \in DOMAIN programs : Returned(programs[i]))'
  BY <1>2
<1> QED
  BY <1>1, <1>3 DEF IInv

(* The invariant holds of every process that builds programs.              *)
THEOREM Inductive == Spec => []IInv
BY InitIInv, NextIInv, PTL DEF Spec

(* Types are kept: every exit code of createCli is 2 or 47, every mode of  *)
(* a returned program one a user may ask for.                              *)
THEOREM TypeCorrect == Spec => []TypeOK
<1>1. IInv => TypeOK
  BY DEF IInv
<1> QED
  BY <1>1, Inductive, PTL

(* Rules that were asked for are enforced or refused, or there were none   *)
(* to read at some moment of the call.                                     *)
THEOREM RulesAreNotLost == Spec => []GovernedOrRefused
<1>1. IInv => GovernedOrRefused
  <2> SUFFICES ASSUME IInv, NEW i \in DOMAIN programs, Returned(programs[i])
               PROVE  LET p == programs[i]
                      IN  /\ Discovers(p.opts) =>
                               p.acl = Place(p.opts) \/ (p.acl = Nothing /\ Place(p.opts) \in p.unsettled)
                          /\ p.opts.acl = "object" => p.acl = "object"
                          /\ p.acl # Nothing => Taking(p.opts) # "throws"
    BY DEF IInv, GovernedOrRefused, Place
  <2> QED
    BY DEF Returned, Governed
<1> QED
  BY <1>1, Inductive, PTL

(* What delegated calls are judged by is what the last executor enforces.  *)
THEOREM HeldIsEnforced == Spec => []HeldMeansEnforced
<1>1. IInv => HeldMeansEnforced
  BY DEF IInv, HeldInv, Held, HeldMeansEnforced
<1> QED
  BY <1>1, Inductive, PTL

(* What is offered when nothing is selected away.                          *)
Whole(o) == {name \in Table : (name \in System => SystemAvailable(o))
                             /\ (name \in NeedsExecutor => ExecutorOf(o) # Nothing)}

(* What a call offers, for all hosts and groups: what is left of the whole *)
(* by the mode and the list.                                               *)
LEMMA SurfaceOf ==
  ASSUME NEW o \in Options, NEW g \in GroupType
  PROVE  Registered(o, g) =
           IF Visibility(g, o.env) = "include" THEN Whole(o) \cap (g.listed \cup {"exec"})
           ELSE IF Visibility(g, o.env) = "exclude" THEN Whole(o) \ (g.listed \ {"exec"})
           ELSE Whole(o)
<1> DEFINE mode == Visibility(g, o.env)
           chosen == Selected(g, mode)
<1>1. "exec" \in Table
  BY DEF Table, NeedsExecutor
<1>2. /\ mode = "include" => chosen = {"exec"} \cup (Table \cap g.listed)
      /\ mode = "exclude" => chosen = {"exec"} \cup (Table \ g.listed)
      /\ mode \notin {"include", "exclude"} => chosen = Table
  BY DEF Selected, AlwaysRegistered
<1>3. Registered(o, g) =
        {name \in chosen : (name \in System => SystemAvailable(o))
                          /\ (name \in NeedsExecutor => ExecutorOf(o) # Nothing)}
  BY DEF Registered
<1> HIDE DEF mode, chosen
<1>4. mode = "include" => Registered(o, g) = Whole(o) \cap (g.listed \cup {"exec"})
  BY <1>1, <1>2, <1>3 DEF Whole
<1>5. mode = "exclude" => Registered(o, g) = Whole(o) \ (g.listed \ {"exec"})
  BY <1>1, <1>2, <1>3 DEF Whole
<1>6. mode \notin {"include", "exclude"} => Registered(o, g) = Whole(o)
  BY <1>2, <1>3 DEF Whole
<1> QED
  BY <1>4, <1>5, <1>6 DEF mode

(* What a whole surface has.                                               *)
LEMMA WholeFacts ==
  ASSUME NEW o \in Options
  PROVE  /\ "exec" \in Whole(o) <=> ExecutorOf(o) # Nothing
         /\ ExecutorOf(o) = Nothing => Whole(o) \subseteq Standalone
         /\ Whole(o) \cap System \in {{}, System}
<1>1. /\ "exec" \notin System /\ "exec" \in NeedsExecutor
      /\ Table = Standalone \cup NeedsExecutor
      /\ System \subseteq NeedsExecutor
  BY DEF System, NeedsExecutor, Table
<1>2. SystemAvailable(o) => ExecutorOf(o) # Nothing
  BY StartupAssumption DEF SystemAvailable
<1>3. Whole(o) \cap System \in {{}, System}
  <2>1. CASE SystemAvailable(o)
    BY <1>1, <1>2, <2>1 DEF Whole
  <2>2. CASE ~SystemAvailable(o)
    BY <1>1, <2>2 DEF Whole
  <2> QED
    BY <2>1, <2>2
<1> QED
  BY <1>1, <1>3 DEF Whole

(* Only lists in the object form select, and a fixed one always does.      *)
LEMMA ListFacts ==
  ASSUME NEW o \in Options
  PROVE  LET g == GroupOf(o)
             mode == Visibility(g, o.env)
         IN  /\ mode \in {"include", "exclude"} => g.listed = o.listed
             /\ Fixed(o) => mode = o.mode
<1>1. /\ o.shape \in {"true", "false", "absent", "object", "wrong"}
      /\ o.env \in {"unset", "all", "none"} /\ o.sealed \in BOOLEAN
  BY OptionFacts DEF OptionType
<1> DEFINE g == GroupOf(o)
<1>2. /\ g.mode = ModeOf(o) /\ g.sealed = (o.shape = "object" /\ o.sealed)
      /\ g.listed = (IF o.shape = "object" THEN o.listed ELSE {})
  BY DEF GroupOf
<1>3. /\ o.shape = "object" => ModeOf(o) = o.mode
      /\ o.shape # "object" => ModeOf(o) \in {"all", "none", "auto"}
  BY <1>1 DEF ModeOf
<1>4. Fixed(o) <=> o.shape = "object" /\ o.mode \in {"include", "exclude"}
                     /\ (o.sealed \/ g.tier1)
  BY DEF Fixed
<1> HIDE DEF g
<1>5. Visibility(g, o.env) \in {"include", "exclude"} => g.listed = o.listed
  BY <1>1, <1>2, <1>3 DEF Visibility
<1>6. Fixed(o) => Visibility(g, o.env) = o.mode
  BY <1>1, <1>2, <1>3, <1>4 DEF Visibility
<1> QED
  BY <1>5, <1>6 DEF g

(* What a program offers, whatever is configured: what its executor can    *)
(* run, less what a list takes away.                                       *)
THEOREM SurfaceIsComplete == Spec => []SurfaceComplete
<1>1. ASSUME IInv, NEW i \in DOMAIN programs
      PROVE  LET p == programs[i]
             IN  /\ p.opts \in Options
                 /\ p.commands =
                      IF p.mode = "include" THEN Whole(p.opts) \cap (p.opts.listed \cup {"exec"})
                      ELSE IF p.mode = "exclude" THEN Whole(p.opts) \ (p.opts.listed \ {"exec"})
                      ELSE Whole(p.opts)
                 /\ Fixed(p.opts) => p.mode = p.opts.mode
  <2> DEFINE p == programs[i]
  <2>1. p \in ProgramType /\ Returned(p)
    BY <1>1 DEF IInv, TypeOK
  <2> HIDE DEF p
  <2>2. p.opts \in Options
    BY <2>1 DEF ProgramType
  <2>3. /\ GroupOf(p.opts) \in GroupType
        /\ p.mode = Visibility(GroupOf(p.opts), p.opts.env)
        /\ p.commands = Registered(p.opts, GroupOf(p.opts))
    BY <2>1 DEF Returned
  <2>4. /\ p.mode \in {"include", "exclude"} => GroupOf(p.opts).listed = p.opts.listed
        /\ Fixed(p.opts) => p.mode = p.opts.mode
    BY <2>2, <2>3, ListFacts
  <2> QED
    BY <2>2, <2>3, <2>4, SurfaceOf DEF p
<1>2. IInv => SurfaceComplete
  <2> SUFFICES ASSUME IInv, NEW i \in DOMAIN programs, NEW j \in DOMAIN programs
               PROVE  LET p == programs[i]
                          q == programs[j]
                      IN  /\ "exec" \in p.commands <=> ExecutorOf(p.opts) # Nothing
                          /\ ExecutorOf(p.opts) = Nothing => p.commands \subseteq Standalone
                          /\ q.mode \in {"all", "none"} => q.commands \cap System \in {{}, System}
                          /\ q.mode \in {"all", "none"} /\ ExecutorOf(p.opts) = ExecutorOf(q.opts) =>
                               p.commands =
                                 IF p.mode = "include" THEN q.commands \cap (p.opts.listed \cup {"exec"})
                                 ELSE IF p.mode = "exclude" THEN q.commands \ (p.opts.listed \ {"exec"})
                                 ELSE q.commands
                          /\ Fixed(p.opts) => p.mode = p.opts.mode
    BY DEF SurfaceComplete
  <2> DEFINE p == programs[i]
             q == programs[j]
  <2>1. /\ p.opts \in Options /\ q.opts \in Options
        /\ p.commands =
             IF p.mode = "include" THEN Whole(p.opts) \cap (p.opts.listed \cup {"exec"})
             ELSE IF p.mode = "exclude" THEN Whole(p.opts) \ (p.opts.listed \ {"exec"})
             ELSE Whole(p.opts)
        /\ Fixed(p.opts) => p.mode = p.opts.mode
        /\ q.mode \in {"all", "none"} => q.commands = Whole(q.opts)
    BY <1>1
  <2>2. ExecutorOf(p.opts) = ExecutorOf(q.opts) => Whole(p.opts) = Whole(q.opts)
    BY DEF Whole, SystemAvailable
  <2> HIDE DEF p, q
  <2>3. /\ "exec" \in p.commands <=> ExecutorOf(p.opts) # Nothing
        /\ ExecutorOf(p.opts) = Nothing => p.commands \subseteq Standalone
        /\ q.mode \in {"all", "none"} => q.commands \cap System \in {{}, System}
    BY <2>1, WholeFacts
  <2> QED
    BY <2>1, <2>2, <2>3 DEF p, q
<1> QED
  BY <1>2, Inductive, PTL
=============================================================================
