---------------------------- MODULE CommandGroups ----------------------------
(***************************************************************************)
(* The lazy command tables of src/cli.ts over a registry that changes: a   *)
(* LazyModuleGroup (flat) or a GroupedModuleGroup (grouped) is asked for   *)
(* its commands while the host registers, replaces and removes modules.    *)
(* What was listed for the alias map and for the group map is kept for     *)
(* ever; a registry that throws while the alias map is built is tolerated. *)
(*                                                                         *)
(* A dotted name is the sequence of its segments. The maps of the code are *)
(* functions of the listing they were built from, so the listing is kept   *)
(* in their place: `known` behind aliasMap and descriptorCache, `routed`   *)
(* behind groupMap and topLevelModules.                                    *)
(***************************************************************************)
EXTENDS Naturals, Sequences

CONSTANTS
  Names,        \* module ids, aliases, group and command names
  Descriptors,  \* what may be registered
  Patterns,     \* the patterns of the exposure filter
  FilterModes,  \* its modes that occur
  Unsafe,       \* segments a shell would not take
  Reserved,     \* the names of the built-in group
  GroupDepth,   \* segments that make a group
  MaxChanges    \* bound: changes of the registry

NoName == <<>>

ASSUME GroupsAssumption ==
  /\ NoName \notin Names
  /\ \A n \in Names : n \in Seq(STRING)
  /\ \A d \in Descriptors :
       /\ d.id \in Names /\ d.alias \in Names \cup {NoName}
       /\ d.grouping \in {"auto", "top", "named"} /\ d.group \in Names
  /\ Reserved \subseteq Names
  /\ FilterModes \subseteq {"all", "include", "exclude", "none"}
  /\ GroupDepth \in Nat \ {0} /\ MaxChanges \in Nat

VARIABLES
  kind,          \* "flat" or "grouped", fixed
  mode,          \* the filter's mode, fixed
  registry,      \* the descriptors in the order of registration
  changes,       \* changes so far
  known,         \* the listing behind the alias map
  aliasMapBuilt,
  routed,        \* the listing behind the group map: what passed the filter
  groupMapBuilt,
  commandCache,  \* command name -> descriptor it was built from
  groupCache,    \* groups built
  exited,        \* a reserved name was met: process.exit(2)
  ever,          \* history: descriptors registered at some time
  listing        \* history: the registry when the group map was built

latches == <<known, aliasMapBuilt, routed, groupMapBuilt, listing>>
caches == <<commandCache, groupCache>>
vars == <<kind, mode, registry, changes, latches, caches, exited, ever>>

Ids(listed) == {listed[i].id : i \in DOMAIN listed}

(* What is at the last of some positions: a Map keeps what was set last.   *)
LastAt(listed, positions) ==
  listed[CHOOSE i \in positions : \A j \in positions : j <= i]

WithId(listed, id) == {i \in DOMAIN listed : listed[i].id = id}

Init ==
  /\ kind \in {"flat", "grouped"} /\ mode \in FilterModes
  /\ registry = <<>> /\ changes = 0
  /\ known = <<>> /\ aliasMapBuilt = FALSE
  /\ routed = <<>> /\ groupMapBuilt = FALSE
  /\ commandCache = <<>> /\ groupCache = {}
  /\ exited = FALSE /\ ever = {} /\ listing = <<>>

-----------------------------------------------------------------------------
(* Exposure.                                                               *)

(* compilePattern: "*" is one segment, "**" one or more of them.           *)
Matches(id, pattern) ==
  LET matches[i \in 0..Len(pattern), j \in 0..Len(id)] ==
        IF i = 0 THEN j = 0
        ELSE IF j = 0 THEN FALSE
        ELSE \/ pattern[i] \in {"*", "**", id[j]} /\ matches[i - 1, j - 1]
             \/ pattern[i] = "**" /\ matches[i, j - 1]
  IN  matches[Len(pattern), Len(id)]

Hits(id) == \E p \in Patterns : Matches(id, p)

IsExposed(id) ==
  \/ mode = "all"
  \/ mode = "include" /\ Hits(id)
  \/ mode = "exclude" /\ ~Hits(id)

-----------------------------------------------------------------------------
(* Routing.                                                                *)

CliName(d) == IF d.alias = NoName THEN d.id ELSE d.alias

(* Variant with a bug: a name shorter than the depth has no command left.  *)
ResolveGroupTooDeep(d) ==
  IF d.grouping = "named" THEN <<d.group, CliName(d)>>
  ELSE IF d.grouping = "auto" /\ Len(CliName(d)) > 1
       THEN <<SubSeq(CliName(d), 1, GroupDepth),
              SubSeq(CliName(d), GroupDepth + 1, Len(CliName(d)))>>
       ELSE <<NoName, CliName(d)>>

(* resolveGroup: the group, or none, and the name of the command.          *)
ResolveGroup(d) ==
  IF d.grouping = "named" THEN <<d.group, CliName(d)>>
  ELSE IF d.grouping = "auto" /\ Len(CliName(d)) > 1
       THEN LET most  == Len(CliName(d)) - 1
                depth == IF GroupDepth < most THEN GroupDepth ELSE most
            IN  <<SubSeq(CliName(d), 1, depth),
                  SubSeq(CliName(d), depth + 1, Len(CliName(d)))>>
       ELSE <<NoName, CliName(d)>>

GroupName(d) == ResolveGroup(d)[1]
CommandName(d) == ResolveGroup(d)[2]

ShellSafe(name) == \A i \in DOMAIN name : name[i] \notin Unsafe
TopLevel(d) == GroupName(d) = NoName \/ ~ShellSafe(GroupName(d))

(* assertNotReserved: the explicit group, the group a name begins with, or *)
(* the name of a module without a group.                                   *)
MeetsReserved(d) ==
  \/ GroupName(d) \in Reserved
  \/ GroupName(d) = NoName /\ CommandName(d) \in Reserved

-----------------------------------------------------------------------------
(* The maps.                                                               *)

(* aliasMap: an alias leads to the module that was last to claim it.       *)
Claiming(listed, alias) ==
  {i \in DOMAIN listed : listed[i].alias = alias /\ listed[i].id # alias}

(* buildAliasMap, once; if the registry throws, nothing is kept.           *)
KnownAfter(ok) == IF aliasMapBuilt \/ ~ok THEN known ELSE registry

BuildAliasMap(ok) ==
  known' = KnownAfter(ok) /\ aliasMapBuilt' = (aliasMapBuilt \/ ok)

(* Variant with a bug: the filter is forgotten.                            *)
RoutableUnfiltered(base) ==
  [i \in {j \in DOMAIN registry : registry[j].id \in Ids(base)} |->
     LastAt(base, WithId(base, registry[i].id))]

(* What buildGroupMap routes, by position in the listing: of every exposed *)
(* module the descriptor that the alias map kept, if it kept one.          *)
Routable(base) ==
  [i \in {j \in DOMAIN registry :
            registry[j].id \in Ids(base) /\ IsExposed(registry[j].id)} |->
     LastAt(base, WithId(base, registry[i].id))]

(* buildGroupMap, once, with its call of buildAliasMap, of which the       *)
(* registry may throw in the first listing and answer the second.          *)
BuildGroupMap(ok) ==
  IF groupMapBuilt
  THEN UNCHANGED <<known, aliasMapBuilt, routed, groupMapBuilt, listing, exited>>
  ELSE LET new == Routable(KnownAfter(ok)) IN
       /\ BuildAliasMap(ok)
       /\ IF \E i \in DOMAIN new : MeetsReserved(new[i])
          THEN exited' = TRUE /\ UNCHANGED <<routed, groupMapBuilt, listing>>
          ELSE /\ routed' = new /\ groupMapBuilt' = TRUE /\ listing' = registry
               /\ UNCHANGED exited

Groups == {GroupName(routed[i]) : i \in {j \in DOMAIN routed : ~TopLevel(routed[j])}}
TopNames == {CommandName(routed[i]) : i \in {j \in DOMAIN routed : TopLevel(routed[j])}}

AtTop(name) ==
  {i \in DOMAIN routed : TopLevel(routed[i]) /\ CommandName(routed[i]) = name}
InGroup(group, name) ==
  {i \in DOMAIN routed : /\ ~TopLevel(routed[i]) /\ GroupName(routed[i]) = group
                        /\ CommandName(routed[i]) = name}

-----------------------------------------------------------------------------
(* LazyModuleGroup, with `base` as the listing behind its alias map.       *)

AliasLeads(base, alias, id) ==
  /\ Claiming(base, alias) # {}
  /\ LastAt(base, Claiming(base, alias)).id = id

(* A module is listed under the alias that leads to it, or else its id.    *)
FlatNames(base) ==
  {alias \in Names : \E id \in Ids(registry) : AliasLeads(base, alias, id)}
  \cup {id \in Ids(registry) : \A alias \in Names : ~AliasLeads(base, alias, id)}

(* The module behind a name: where the alias leads, or itself.             *)
FlatId(base, name) ==
  IF Claiming(base, name) # {} THEN LastAt(base, Claiming(base, name)).id ELSE name

(* Variant with a bug: what is known of a module is the registry's.        *)
FlatFindsListed(base, name) ==
  name \in DOMAIN commandCache \/ FlatId(base, name) \in Ids(base)

FlatFinds(base, name) ==
  name \in DOMAIN commandCache \/ FlatId(base, name) \in Ids(base) \cup Ids(registry)

(* From the cache, then from the descriptors kept, then from the registry. *)
FlatCommand(base, name) ==
  IF name \in DOMAIN commandCache THEN commandCache[name]
  ELSE LET id == FlatId(base, name)
       IN  IF id \in Ids(base) THEN LastAt(base, WithId(base, id))
                               ELSE LastAt(registry, WithId(registry, id))

Remember(name, d) ==
  commandCache' = [n \in DOMAIN commandCache \cup {name} |->
                     IF n = name THEN d ELSE commandCache[n]]

FlatList(ok) ==
  /\ kind = "flat" /\ ~exited
  /\ BuildAliasMap(ok)
  /\ UNCHANGED <<kind, mode, registry, changes, routed, groupMapBuilt, listing,
                 caches, exited, ever>>

(* getCommand of a name: the cache is asked before the alias map is built. *)
FlatGet(name, ok) ==
  /\ kind = "flat" /\ ~exited
  /\ IF name \in DOMAIN commandCache THEN UNCHANGED <<known, aliasMapBuilt>>
     ELSE BuildAliasMap(ok)
  /\ IF FlatFinds(KnownAfter(ok), name)
     THEN Remember(name, FlatCommand(KnownAfter(ok), name))
     ELSE UNCHANGED commandCache
  /\ UNCHANGED <<kind, mode, registry, changes, routed, groupMapBuilt, listing,
                 groupCache, exited, ever>>

-----------------------------------------------------------------------------
(* GroupedModuleGroup and its LazyGroups.                                  *)

TopCommand(name) == LastAt(routed, AtTop(name))
Member(group, name) == LastAt(routed, InGroup(group, name))

(* What the user of this object can reach: top-level commands that no      *)
(* group hides, and the members of the groups.                             *)
Reachable ==
  {TopCommand(name) : name \in TopNames \ Groups}
  \cup {Member(GroupName(routed[i]), CommandName(routed[i])) :
          i \in {j \in DOMAIN routed : ~TopLevel(routed[j])}}

GroupedList(ok) ==
  /\ kind = "grouped" /\ ~exited
  /\ BuildGroupMap(ok)
  /\ UNCHANGED <<kind, mode, registry, changes, caches, ever>>

(* The second listing of buildGroupMap throws: the call has no answer, and *)
(* only the alias map may stay.                                            *)
GroupedThrows(ok) ==
  /\ kind = "grouped" /\ ~exited /\ ~groupMapBuilt
  /\ BuildAliasMap(ok)
  /\ UNCHANGED <<kind, mode, registry, changes, routed, groupMapBuilt, listing,
                 caches, exited, ever>>

(* Variant with a bug: modules come before groups.                         *)
GroupedGetModulesFirst(name) ==
  /\ kind = "grouped" /\ ~exited /\ groupMapBuilt
  /\ \/ /\ name \in TopNames
        /\ Remember(name, TopCommand(name)) /\ UNCHANGED groupCache
     \/ /\ name \in Groups \ TopNames
        /\ groupCache' = groupCache \cup {name} /\ UNCHANGED commandCache
  /\ UNCHANGED <<kind, mode, registry, changes, latches, exited, ever>>

(* getCommand on the group map as it is: groups come before modules.       *)
GroupedGet(name) ==
  /\ kind = "grouped" /\ ~exited /\ groupMapBuilt
  /\ \/ /\ name \in Groups
        /\ groupCache' = groupCache \cup {name} /\ UNCHANGED commandCache
     \/ /\ name \in TopNames \ Groups
        /\ Remember(name, IF name \in DOMAIN commandCache THEN commandCache[name]
                          ELSE TopCommand(name))
        /\ UNCHANGED groupCache
  /\ UNCHANGED <<kind, mode, registry, changes, latches, exited, ever>>

-----------------------------------------------------------------------------
(* The host's registry.                                                    *)

Change ==
  /\ ~exited
  /\ changes < MaxChanges /\ changes' = changes + 1
  /\ UNCHANGED <<kind, mode, latches, caches, exited>>

Register(d) ==
  /\ Change
  /\ registry' = IF d.id \in Ids(registry)
                 THEN [i \in DOMAIN registry |->
                         IF registry[i].id = d.id THEN d ELSE registry[i]]
                 ELSE Append(registry, d)
  /\ ever' = ever \cup {d}

Unregister(n) ==
  /\ Change
  /\ registry' = [i \in 1..(Len(registry) - 1) |-> registry[IF i < n THEN i ELSE i + 1]]
  /\ UNCHANGED ever

AskFlat == \E ok \in BOOLEAN : FlatList(ok) \/ \E n \in Names : FlatGet(n, ok)
AskGrouped == \E ok \in BOOLEAN :
  GroupedList(ok) \/ GroupedThrows(ok) \/ \E n \in Names : GroupedGet(n)
Host == (\E d \in Descriptors : Register(d)) \/ (\E n \in DOMAIN registry : Unregister(n))

Next == AskFlat \/ AskGrouped \/ Host

Spec == Init /\ [][Next]_vars

-----------------------------------------------------------------------------
TypeOK ==
  /\ kind \in {"flat", "grouped"} /\ mode \in FilterModes
  /\ registry \in Seq(Descriptors) /\ changes \in 0..MaxChanges
  /\ known \in Seq(Descriptors) /\ aliasMapBuilt \in BOOLEAN
  /\ DOMAIN routed \subseteq Nat /\ \A i \in DOMAIN routed : routed[i] \in Descriptors
  /\ groupMapBuilt \in BOOLEAN
  /\ DOMAIN commandCache \subseteq Names
  /\ \A n \in DOMAIN commandCache : commandCache[n] \in Descriptors
  /\ exited \in BOOLEAN /\ ever \subseteq Descriptors
  /\ listing \in Seq(Descriptors)

(* Every name that the flat listCommands shows can be got, however the     *)
(* registry has changed since the alias map was built and commands were    *)
(* cached, and no cached command is of a module that never was.            *)
ListedCanBeGot ==
  kind = "flat" =>
    /\ \A name \in FlatNames(known) : FlatFinds(known, name)
    /\ \A name \in DOMAIN commandCache : commandCache[name] \in ever

(* No group and no top-level command leads to a module the filter hides or *)
(* to one that was never registered, and none of the modules is reached    *)
(* through the group of a reserved name.                                   *)
OnlyExposedIsReachable ==
  kind = "grouped" =>
    /\ \A d \in Reachable : IsExposed(d.id) /\ d \in ever
    /\ \A n \in DOMAIN commandCache :
         IsExposed(commandCache[n].id) /\ commandCache[n] \in ever
    /\ Groups \cap Reserved = {}

(* When the alias map and the group map were built from the same registry, *)
(* an exposed module can be run under a name, unless a module listed later *)
(* has the same route or a group bears the name of the command: the one    *)
(* way to lose a module is to collide with another.                        *)
LostOnlyByCollision ==
  kind = "grouped" /\ groupMapBuilt /\ known = listing =>
    \A i \in DOMAIN listing :
      LET d == listing[i] IN
      IsExposed(d.id) =>
        \/ d \in Reachable /\ CommandName(d) # NoName
        \/ \E j \in DOMAIN listing :
             j > i /\ IsExposed(listing[j].id)
                   /\ CommandName(listing[j]) = CommandName(d)
                   /\ (TopLevel(d) \/ GroupName(listing[j]) = GroupName(d))
        \/ TopLevel(d) /\ CommandName(d) \in Groups

(* A grouped object answers from one table for ever: what it has cached is *)
(* what its table gives, no cached command is hidden by a group, and while *)
(* the registry is the one both maps were built from, or is so again, the  *)
(* table is the one that would be computed now.                            *)
OneTable ==
  kind = "grouped" =>
    /\ \A name \in DOMAIN commandCache :
         name \in TopNames \ Groups /\ commandCache[name] = TopCommand(name)
    /\ groupMapBuilt /\ known = registry /\ listing = registry =>
         routed = [i \in {j \in DOMAIN registry : IsExposed(registry[j].id)} |->
                     registry[i]]

=============================================================================
