-------------------------- MODULE CommandLineProofs --------------------------
(***************************************************************************)
(* Proofs about how the words of a command line become a call: which       *)
(* module they name (CommandGroups), for every set of modules, filter and  *)
(* depth, and what input they give it (Arguments), for every schema and    *)
(* every way of resolving it.                                              *)
(*                                                                         *)
(* Of the groups: whatever is latched, routed or cached was registered at  *)
(* some time and had passed the filter, which is fixed; and the group map  *)
(* is still what was routed from the listing it was built from. Of the     *)
(* arguments: the four spellings of a name agree where the attribute is    *)
(* the property's own, so commander's value is found and is the one given. *)
(***************************************************************************)
EXTENDS CommandGroups, Arguments, SequenceTheorems, WellFoundedInduction, TLAPS

(* Descriptors from where they were registered.                            *)
Genuine(d) == d \in Descriptors /\ d \in ever

(* Listings hold what was registered, each module once.                    *)
ProperListing(l) ==
  /\ l \in Seq(Descriptors)
  /\ \A i \in DOMAIN l : l[i] \in ever
  /\ \A i, j \in DOMAIN l : l[i].id = l[j].id => i = j

(* The positions of a listing that are routed with what was known.         *)
Kept(l, base) == {j \in DOMAIN l : l[j].id \in Ids(base) /\ IsExposed(l[j].id)}

(* What was routed, and nothing else, is from that listing.                *)
RoutedInv ==
  /\ DOMAIN routed \subseteq DOMAIN listing
  /\ \A i \in DOMAIN routed :
       Genuine(routed[i]) /\ IsExposed(routed[i].id) /\ ~MeetsReserved(routed[i])
  /\ groupMapBuilt =>
       /\ DOMAIN routed = Kept(listing, known)
       /\ \A i \in DOMAIN routed : routed[i] = LastAt(known, WithId(known, listing[i].id))
  /\ ~groupMapBuilt => DOMAIN routed = {}
  /\ kind = "flat" => ~groupMapBuilt

CacheInv ==
  /\ DOMAIN commandCache \subseteq Names
  /\ \A n \in DOMAIN commandCache :
       /\ Genuine(commandCache[n])
       /\ kind = "grouped" => IsExposed(commandCache[n].id)

IInv ==
  /\ kind \in {"flat", "grouped"} /\ mode \in FilterModes
  /\ changes \in 0..MaxChanges /\ ever \subseteq Descriptors
  /\ aliasMapBuilt \in BOOLEAN /\ groupMapBuilt \in BOOLEAN /\ exited \in BOOLEAN
  /\ ProperListing(registry) /\ ProperListing(known) /\ ProperListing(listing)
  /\ RoutedInv /\ CacheInv

-----------------------------------------------------------------------------
(* A set of positions has a last one: among the distances from n, one is   *)
(* least.                                                                  *)
LEMMA LastExists ==
  ASSUME NEW n \in Nat, NEW S \in SUBSET (1..n), S # {}
  PROVE  \E i \in S : \A j \in S : j <= i
<1> DEFINE T == {n - i : i \in S}
<1>1. T \subseteq Nat /\ T # {}
  <2>1. \A i \in S : n - i \in Nat
    OBVIOUS
  <2>2. PICK i \in S : TRUE
    OBVIOUS
  <2>3. n - i \in T
    OBVIOUS
  <2> QED
    BY <2>1, <2>3
<1>2. PICK x \in T : \A y \in T : ~(<<y, x>> \in OpToRel(<, Nat))
  BY <1>1, NatLessThanWellFounded, WFMin
<1>3. PICK i \in S : x = n - i
  OBVIOUS
<1>4. \A j \in S : ~(n - j < n - i)
  BY <1>1, <1>2, <1>3 DEF OpToRel
<1> QED
  BY <1>4

(* What LastAt picks is at one of the positions, and at the last.          *)
LEMMA LastAtFacts ==
  ASSUME NEW listed, NEW n \in Nat, NEW S \in SUBSET (1..n), S # {}
  PROVE  \E i \in S : (\A j \in S : j <= i) /\ LastAt(listed, S) = listed[i]
<1>1. \E i \in S : \A j \in S : j <= i
  BY LastExists
<1> QED
  BY <1>1 DEF LastAt

(* The descriptor that is known of an id is of that id, and is the one in  *)
(* the listing.                                                            *)
LEMMA KnownOf ==
  ASSUME NEW l, ProperListing(l), NEW id \in Ids(l)
  PROVE  /\ Genuine(LastAt(l, WithId(l, id)))
         /\ LastAt(l, WithId(l, id)).id = id
         /\ \A i \in DOMAIN l : l[i].id = id => LastAt(l, WithId(l, id)) = l[i]
<1>1. /\ DOMAIN l = 1..Len(l) /\ Len(l) \in Nat
      /\ \A i \in DOMAIN l : l[i] \in Descriptors /\ l[i] \in ever
  BY DEF ProperListing
<1>2. WithId(l, id) \subseteq 1..Len(l) /\ WithId(l, id) # {}
  BY <1>1 DEF WithId, Ids
<1>3. PICK i \in WithId(l, id) : LastAt(l, WithId(l, id)) = l[i]
  BY <1>1, <1>2, LastAtFacts
<1> QED
  BY <1>1, <1>3 DEF WithId, Genuine, ProperListing

(* Names of commands are not empty.                                        *)
LEMMA NamesNotEmpty ==
  ASSUME NEW d \in Descriptors
  PROVE  CommandName(d) # NoName
<1>1. CliName(d) \in Seq(STRING) /\ CliName(d) # NoName
  BY GroupsAssumption DEF CliName
<1>2. CASE d.grouping = "auto" /\ Len(CliName(d)) > 1
  <2> DEFINE most == Len(CliName(d)) - 1
             depth == IF GroupDepth < most THEN GroupDepth ELSE most
  <2>1. depth \in Nat /\ depth < Len(CliName(d)) /\ Len(CliName(d)) \in Nat
    BY <1>1, <1>2, GroupsAssumption
  <2>2. CommandName(d) = SubSeq(CliName(d), depth + 1, Len(CliName(d)))
    BY <1>2 DEF CommandName, ResolveGroup
  <2> HIDE DEF depth
  <2>3. Len(SubSeq(CliName(d), depth + 1, Len(CliName(d)))) = Len(CliName(d)) - depth
    BY <1>1, <2>1
  <2>4. Len(CommandName(d)) # 0
    BY <2>1, <2>2, <2>3
  <2>5. Len(NoName) = 0
    BY DEF NoName
  <2> QED
    BY <2>4, <2>5
<1>3. CASE ~(d.grouping = "auto" /\ Len(CliName(d)) > 1)
  BY <1>1, <1>3 DEF CommandName, ResolveGroup
<1> QED
  BY <1>2, <1>3

(* What buildGroupMap routes.                                              *)
LEMMA RoutableFacts ==
  ASSUME NEW base, ProperListing(base), ProperListing(registry)
  PROVE  /\ DOMAIN Routable(base) = Kept(registry, base)
         /\ Kept(registry, base) \subseteq DOMAIN registry
         /\ \A i \in Kept(registry, base) :
              LET d == Routable(base)[i] IN
              /\ d = LastAt(base, WithId(base, registry[i].id))
              /\ Genuine(d) /\ IsExposed(d.id) /\ d.id = registry[i].id
<1>1. DOMAIN Routable(base) = Kept(registry, base)
  BY DEF Routable, Kept
<1>2. ASSUME NEW i \in Kept(registry, base)
      PROVE  /\ Routable(base)[i] = LastAt(base, WithId(base, registry[i].id))
             /\ registry[i].id \in Ids(base) /\ IsExposed(registry[i].id)
  BY DEF Routable, Kept
<1>3. ASSUME NEW i \in Kept(registry, base)
      PROVE  /\ Genuine(Routable(base)[i])
             /\ Routable(base)[i].id = registry[i].id
  BY <1>2, KnownOf
<1> QED
  BY <1>1, <1>2, <1>3 DEF Kept

(* The flat group finds what it says it finds.                             *)
LEMMA FlatCommandGenuine ==
  ASSUME NEW base, ProperListing(base), ProperListing(registry), CacheInv,
         NEW name \in Names, FlatFinds(base, name)
  PROVE  Genuine(FlatCommand(base, name))
<1> DEFINE id == FlatId(base, name)
<1>1. CASE name \in DOMAIN commandCache
  BY <1>1 DEF CacheInv, FlatCommand
<1>2. CASE name \notin DOMAIN commandCache /\ id \in Ids(base)
  <2>1. FlatCommand(base, name) = LastAt(base, WithId(base, id))
    BY <1>2 DEF FlatCommand
  <2> QED
    BY <1>2, <2>1, KnownOf
<1>3. CASE name \notin DOMAIN commandCache /\ id \notin Ids(base)
  <2>1. FlatCommand(base, name) = LastAt(registry, WithId(registry, id))
    BY <1>3 DEF FlatCommand
  <2>2. id \in Ids(registry)
    BY <1>3 DEF FlatFinds
  <2> QED
    BY <2>1, <2>2, KnownOf
<1> QED
  BY <1>1, <1>2, <1>3

LEMMA InitIInv == Init => IInv
<1> SUFFICES ASSUME Init PROVE IInv
  OBVIOUS
<1>1. ProperListing(<<>>)
  BY DEF ProperListing
<1>2. changes \in 0..MaxChanges
  BY GroupsAssumption DEF Init
<1>3. RoutedInv /\ CacheInv
  BY DEF Init, RoutedInv, CacheInv
<1> QED
  BY <1>1, <1>2, <1>3 DEF Init, IInv

(* A command that is remembered.                                           *)
LEMMA RememberKeeps ==
  ASSUME CacheInv, NEW name \in Names, NEW d, Remember(name, d), Genuine(d),
         kind = "grouped" => IsExposed(d.id), UNCHANGED <<kind, mode, ever>>
  PROVE  CacheInv'
<1>1. /\ DOMAIN commandCache' = DOMAIN commandCache \cup {name}
      /\ \A n \in DOMAIN commandCache' :
           commandCache'[n] = IF n = name THEN d ELSE commandCache[n]
  BY DEF Remember
<1> QED
  BY <1>1 DEF CacheInv, Genuine, IsExposed

(* The calls on a flat group.                                              *)
LEMMA FlatKeeps ==
  ASSUME IInv, NEW ok \in BOOLEAN, FlatList(ok) \/ \E n \in Names : FlatGet(n, ok)
  PROVE  IInv'
<1>1. /\ kind = "flat" /\ ProperListing(registry) /\ ProperListing(known) /\ ProperListing(listing)
      /\ RoutedInv /\ CacheInv
  BY DEF IInv, FlatList, FlatGet
<1>2. /\ UNCHANGED <<kind, mode, registry, changes, routed, groupMapBuilt, listing,
                     exited, ever>>
      /\ aliasMapBuilt' \in BOOLEAN /\ known' \in {known, registry}
  BY DEF IInv, FlatList, FlatGet, caches, BuildAliasMap, KnownAfter
<1>3. ProperListing(registry)' /\ ProperListing(known)' /\ ProperListing(listing)'
  BY <1>1, <1>2 DEF ProperListing
<1>4. RoutedInv'
  BY <1>1, <1>2 DEF RoutedInv, Genuine, IsExposed
<1>5. CacheInv'
  <2>1. CASE UNCHANGED commandCache
    BY <1>1, <1>2, <2>1 DEF CacheInv, Genuine, IsExposed
  <2>2. ASSUME NEW n \in Names, FlatFinds(KnownAfter(ok), n),
               Remember(n, FlatCommand(KnownAfter(ok), n))
        PROVE  CacheInv'
    <3>1. ProperListing(KnownAfter(ok))
      BY <1>1 DEF KnownAfter
    <3>2. Genuine(FlatCommand(KnownAfter(ok), n))
      BY <1>1, <2>2, <3>1, FlatCommandGenuine
    <3> QED
      BY <1>1, <1>2, <2>2, <3>2, RememberKeeps
  <2> QED
    BY <2>1, <2>2 DEF FlatList, FlatGet, caches
<1> QED
  BY <1>2, <1>3, <1>4, <1>5 DEF IInv

(* The calls on a grouped one.                                             *)
LEMMA GroupedKeeps ==
  ASSUME IInv, NEW ok \in BOOLEAN,
         \/ GroupedList(ok) \/ GroupedThrows(ok) \/ \E n \in Names : GroupedGet(n)
  PROVE  IInv'
<1>1. /\ kind = "grouped" /\ ProperListing(registry) /\ ProperListing(known) /\ ProperListing(listing)
      /\ RoutedInv /\ CacheInv
  BY DEF IInv, GroupedList, GroupedThrows, GroupedGet
<1>2. UNCHANGED <<kind, mode, registry, changes, ever>>
  BY DEF GroupedList, GroupedThrows, GroupedGet
<1>3. ASSUME UNCHANGED <<known, aliasMapBuilt, routed, groupMapBuilt, listing, exited>>
      PROVE  /\ ProperListing(registry)' /\ ProperListing(known)' /\ ProperListing(listing)' /\ RoutedInv'
             /\ aliasMapBuilt' \in BOOLEAN /\ groupMapBuilt' \in BOOLEAN /\ exited' \in BOOLEAN
  BY <1>1, <1>2, <1>3 DEF IInv, ProperListing, RoutedInv, Genuine, IsExposed, Kept
<1>4. ASSUME UNCHANGED commandCache PROVE CacheInv'
  BY <1>1, <1>2, <1>4 DEF CacheInv, Genuine, IsExposed
<1>5. ASSUME BuildAliasMap(ok), UNCHANGED <<routed, groupMapBuilt, listing>>,
             ~groupMapBuilt, exited' \in BOOLEAN, UNCHANGED commandCache
      PROVE  IInv'
  <2>1. known' \in {known, registry} /\ aliasMapBuilt' \in BOOLEAN
    BY <1>5 DEF IInv, BuildAliasMap, KnownAfter
  <2>2. ProperListing(registry)' /\ ProperListing(known)' /\ ProperListing(listing)'
    BY <1>1, <1>2, <1>5, <2>1 DEF ProperListing
  <2>3. RoutedInv'
    BY <1>1, <1>2, <1>5 DEF RoutedInv
  <2> QED
    BY <1>2, <1>4, <1>5, <2>1, <2>2, <2>3 DEF IInv
<1>6. CASE GroupedList(ok)
  <2> DEFINE new == Routable(KnownAfter(ok))
  <2>1. UNCHANGED commandCache
    BY <1>6 DEF GroupedList, caches
  <2>2. CASE groupMapBuilt
    <3>1. UNCHANGED <<known, aliasMapBuilt, routed, groupMapBuilt, listing, exited>>
      BY <1>6, <2>2 DEF GroupedList, BuildGroupMap
    <3> QED
      BY <1>2, <1>3, <1>4, <2>1, <3>1 DEF IInv
  <2>3. CASE ~groupMapBuilt /\ \E i \in DOMAIN new : MeetsReserved(new[i])
    <3>1. /\ BuildAliasMap(ok) /\ exited' = TRUE
          /\ UNCHANGED <<routed, groupMapBuilt, listing>>
      BY <1>6, <2>3 DEF GroupedList, BuildGroupMap
    <3> QED
      BY <1>5, <2>1, <2>3, <3>1
  <2>4. CASE ~groupMapBuilt /\ \A i \in DOMAIN new : ~MeetsReserved(new[i])
    <3>1. /\ BuildAliasMap(ok) /\ UNCHANGED exited
          /\ routed' = new /\ groupMapBuilt' = TRUE /\ listing' = registry
      BY <1>6, <2>4 DEF GroupedList, BuildGroupMap
    <3>2. known' = KnownAfter(ok) /\ aliasMapBuilt' \in BOOLEAN
      BY <3>1 DEF IInv, BuildAliasMap
    <3>3. ProperListing(KnownAfter(ok))
      BY <1>1 DEF KnownAfter
    <3>4. ProperListing(registry)' /\ ProperListing(known)' /\ ProperListing(listing)'
      BY <1>1, <1>2, <3>1, <3>2, <3>3 DEF ProperListing
    <3>5. /\ DOMAIN new = Kept(registry, KnownAfter(ok))
          /\ Kept(registry, KnownAfter(ok)) \subseteq DOMAIN registry
          /\ \A i \in DOMAIN new :
               /\ new[i] = LastAt(KnownAfter(ok), WithId(KnownAfter(ok), registry[i].id))
               /\ Genuine(new[i]) /\ IsExposed(new[i].id)
      BY <1>1, <3>3, RoutableFacts
    <3>6. Kept(listing, known)' = Kept(registry, KnownAfter(ok))
      BY <1>2, <3>1, <3>2 DEF Kept, IsExposed
    <3> HIDE DEF new
    <3>7. RoutedInv'
      BY <1>1, <1>2, <2>4, <3>1, <3>2, <3>5, <3>6 DEF RoutedInv, Genuine, IsExposed
    <3> QED
      BY <1>2, <1>4, <2>1, <3>1, <3>2, <3>4, <3>7 DEF IInv
  <2> QED
    BY <2>2, <2>3, <2>4
<1>7. CASE GroupedThrows(ok)
  BY <1>5, <1>7 DEF GroupedThrows, caches, IInv
<1>8. ASSUME NEW n \in Names, GroupedGet(n) PROVE IInv'
  <2>1. UNCHANGED <<known, aliasMapBuilt, routed, groupMapBuilt, listing, exited>>
    BY <1>8 DEF GroupedGet, latches
  <2>2. CacheInv'
    <3>1. CASE UNCHANGED commandCache
      BY <1>4, <3>1
    <3>2. CASE /\ n \in TopNames
               /\ Remember(n, IF n \in DOMAIN commandCache THEN commandCache[n]
                              ELSE TopCommand(n))
      <4>1. n \in DOMAIN commandCache =>
              Genuine(commandCache[n]) /\ IsExposed(commandCache[n].id)
        BY <1>1 DEF CacheInv
      <4>2. Genuine(TopCommand(n)) /\ IsExposed(TopCommand(n).id)
        <5>1. AtTop(n) # {} /\ AtTop(n) \subseteq DOMAIN routed
          BY <3>2 DEF TopNames, AtTop
        <5>2. AtTop(n) \subseteq 1..Len(listing) /\ Len(listing) \in Nat
          BY <1>1, <5>1 DEF RoutedInv, ProperListing
        <5>3. PICK i \in AtTop(n) : LastAt(routed, AtTop(n)) = routed[i]
          BY <5>1, <5>2, LastAtFacts
        <5> QED
          BY <1>1, <5>1, <5>3 DEF TopCommand, RoutedInv
      <4> QED
        BY <1>1, <1>2, <3>2, <4>1, <4>2, RememberKeeps
    <3> QED
      BY <1>8, <3>1, <3>2 DEF GroupedGet
  <2> QED
    BY <1>2, <1>3, <2>1, <2>2 DEF IInv
<1> QED
  BY <1>6, <1>7, <1>8

(* The host's changes: a listing keeps each module once.                   *)
LEMMA HostKeeps ==
  ASSUME IInv, \/ \E d \in Descriptors : Register(d)
               \/ \E n \in DOMAIN registry : Unregister(n)
               \/ UNCHANGED vars
  PROVE  IInv'
<1>1. /\ ProperListing(registry) /\ ProperListing(known) /\ ProperListing(listing)
      /\ RoutedInv /\ CacheInv
  BY DEF IInv
<1>2. /\ UNCHANGED <<kind, mode, known, aliasMapBuilt, routed, groupMapBuilt, listing,
                     commandCache, exited>>
      /\ ever \subseteq ever' /\ ever' \subseteq Descriptors
      /\ changes' \in 0..MaxChanges
  <2>1. changes \in 0..MaxChanges /\ MaxChanges \in Nat /\ ever \subseteq Descriptors
    BY GroupsAssumption DEF IInv
  <2>2. ASSUME Change
        PROVE  /\ UNCHANGED <<kind, mode, known, aliasMapBuilt, routed, groupMapBuilt,
                              listing, commandCache, exited>>
               /\ changes' \in 0..MaxChanges
    <3>1. UNCHANGED <<kind, mode, latches, caches, exited>>
      BY <2>2 DEF Change
    <3>2. changes < MaxChanges /\ changes' = changes + 1
      BY <2>2 DEF Change
    <3>3. changes' \in 0..MaxChanges
      BY <2>1, <3>2
    <3> QED
      BY <3>1, <3>3 DEF latches, caches
  <2>3. ASSUME NEW d \in Descriptors, Register(d)
        PROVE  Change /\ ever \subseteq ever' /\ ever' \subseteq Descriptors
    BY <2>1, <2>3 DEF Register
  <2>4. ASSUME NEW n \in DOMAIN registry, Unregister(n)
        PROVE  Change /\ ever \subseteq ever' /\ ever' \subseteq Descriptors
    BY <2>1, <2>4 DEF Unregister
  <2>5. CASE UNCHANGED vars
    BY <2>1, <2>5 DEF vars, latches, caches
  <2> QED
    BY <2>2, <2>3, <2>4, <2>5
<1>4. ProperListing(known)' /\ ProperListing(listing)' /\ RoutedInv' /\ CacheInv'
  <2>1. ProperListing(known)' /\ ProperListing(listing)'
    BY <1>1, <1>2 DEF ProperListing
  <2>2. RoutedInv'
    BY <1>1, <1>2 DEF RoutedInv, Genuine, IsExposed, Kept
  <2>3. CacheInv'
    BY <1>1, <1>2 DEF CacheInv, Genuine, IsExposed
  <2> QED
    BY <2>1, <2>2, <2>3
<1>5. /\ registry \in Seq(Descriptors) /\ Len(registry) \in Nat
      /\ DOMAIN registry = 1..Len(registry)
      /\ \A i \in DOMAIN registry : registry[i] \in Descriptors /\ registry[i] \in ever
      /\ \A i, j \in DOMAIN registry : registry[i].id = registry[j].id => i = j
  BY <1>1 DEF ProperListing
<1>6. ASSUME NEW d \in Descriptors, Register(d) PROVE ProperListing(registry)'
  <2>1. ever' = ever \cup {d}
    BY <1>6 DEF Register
  <2>2. CASE d.id \in Ids(registry)
    <3>1. registry' = [i \in DOMAIN registry |->
                         IF registry[i].id = d.id THEN d ELSE registry[i]]
      BY <1>6, <2>2 DEF Register
    <3>2. /\ DOMAIN registry' = 1..Len(registry)
          /\ \A i \in DOMAIN registry' :
               /\ registry'[i] \in Descriptors /\ registry'[i] \in ever'
               /\ registry'[i].id = registry[i].id
      BY <1>5, <2>1, <3>1
    <3>3. registry' \in Seq(Descriptors)
      BY <1>5, <3>1
    <3> QED
      BY <1>5, <3>2, <3>3 DEF ProperListing
  <2>3. CASE d.id \notin Ids(registry)
    <3>1. registry' = Append(registry, d)
      BY <1>6, <2>3 DEF Register
    <3>2. \A i \in DOMAIN registry : registry[i].id # d.id
      BY <2>3 DEF Ids
    <3>3. /\ registry' \in Seq(Descriptors)
          /\ DOMAIN registry' = 1..(Len(registry) + 1)
          /\ registry'[Len(registry) + 1] = d
          /\ \A i \in 1..Len(registry) : registry'[i] = registry[i]
      BY <1>5, <3>1
    <3>4. \A i \in DOMAIN registry' : registry'[i] \in ever'
      BY <1>5, <2>1, <3>3
    <3>5. ASSUME NEW i \in DOMAIN registry', NEW j \in DOMAIN registry',
                 registry'[i].id = registry'[j].id
          PROVE  i = j
      <4>1. CASE i \in 1..Len(registry) /\ j \in 1..Len(registry)
        BY <1>5, <3>3, <3>5, <4>1
      <4>2. CASE i = Len(registry) + 1 /\ j \in 1..Len(registry)
        BY <1>5, <3>2, <3>3, <3>5, <4>2
      <4>3. CASE i \in 1..Len(registry) /\ j = Len(registry) + 1
        BY <1>5, <3>2, <3>3, <3>5, <4>3
      <4> QED
        BY <1>5, <3>3, <4>1, <4>2, <4>3
    <3> QED
      BY <3>3, <3>4, <3>5 DEF ProperListing
  <2> QED
    BY <2>2, <2>3
<1>7. ASSUME NEW n \in DOMAIN registry, Unregister(n) PROVE ProperListing(registry)'
  <2> DEFINE At(i) == IF i < n THEN i ELSE i + 1
  <2>1. registry' = [i \in 1..(Len(registry) - 1) |-> registry[At(i)]]
    BY <1>7 DEF Unregister
  <2>2. ever' = ever /\ Len(registry) - 1 \in Nat
    BY <1>5, <1>7 DEF Unregister
  <2>3. \A i \in 1..(Len(registry) - 1) : At(i) \in DOMAIN registry
    BY <1>5
  <2>4. \A i, j \in 1..(Len(registry) - 1) : At(i) = At(j) => i = j
    BY <1>5
  <2> HIDE DEF At
  <2>5. /\ DOMAIN registry' = 1..(Len(registry) - 1)
        /\ \A i \in DOMAIN registry' :
             registry'[i] \in Descriptors /\ registry'[i] \in ever'
        /\ \A i, j \in DOMAIN registry' : registry'[i].id = registry'[j].id => i = j
    BY <1>5, <2>1, <2>2, <2>3, <2>4
  <2>6. registry' \in Seq(Descriptors)
    BY <1>5, <2>1, <2>2, <2>3
  <2> QED
    BY <2>5, <2>6 DEF ProperListing
<1>8. ASSUME UNCHANGED vars PROVE ProperListing(registry)'
  BY <1>1, <1>8 DEF vars, ProperListing
<1>9. ProperListing(registry)'
  BY <1>6, <1>7, <1>8
<1> QED
  BY <1>2, <1>4, <1>9 DEF IInv

-----------------------------------------------------------------------------
LEMMA NextIInv == IInv /\ [Next]_vars => IInv'
<1> SUFFICES ASSUME IInv, [Next]_vars PROVE IInv'
  OBVIOUS
<1>1. CASE AskFlat
  BY <1>1, FlatKeeps DEF AskFlat
<1>2. CASE AskGrouped
  BY <1>2, GroupedKeeps DEF AskGrouped
<1>3. CASE Host \/ UNCHANGED vars
  BY <1>3, HostKeeps DEF Host
<1> QED
  BY <1>1, <1>2, <1>3 DEF Next

(* The invariant holds, however the registry changes between the calls.    *)
THEOREM Inductive == Spec => []IInv
BY InitIInv, NextIInv, PTL DEF Spec

(* Types are kept: what is latched, routed and cached are descriptors.     *)
THEOREM TypeCorrect == Spec => []TypeOK
<1>1. IInv => TypeOK
  <2> SUFFICES ASSUME IInv PROVE TypeOK
    OBVIOUS
  <2>1. DOMAIN listing \subseteq Nat
    BY DEF IInv, ProperListing
  <2>2. DOMAIN routed \subseteq Nat /\ \A i \in DOMAIN routed : routed[i] \in Descriptors
    BY <2>1 DEF IInv, RoutedInv, Genuine
  <2> QED
    BY <2>2 DEF IInv, ProperListing, CacheInv, Genuine, TypeOK
<1> QED
  BY <1>1, Inductive, PTL

(* What the flat listing shows can be got, and was registered.             *)
THEOREM ListedIsFound == Spec => []ListedCanBeGot
<1>1. IInv => ListedCanBeGot
  <2> SUFFICES ASSUME IInv
               PROVE  /\ \A name \in FlatNames(known) : FlatFinds(known, name)
                      /\ \A name \in DOMAIN commandCache : commandCache[name] \in ever
    BY DEF ListedCanBeGot
  <2>1. \A name \in DOMAIN commandCache : commandCache[name] \in ever
    BY DEF IInv, CacheInv, Genuine
  <2>2. ASSUME NEW name \in FlatNames(known) PROVE FlatId(known, name) \in Ids(known) \cup Ids(registry)
    <3>1. CASE Claiming(known, name) # {}
      <4>1. Claiming(known, name) \subseteq 1..Len(known) /\ Len(known) \in Nat
        BY DEF Claiming, IInv, ProperListing
      <4>2. PICK i \in Claiming(known, name) :
              LastAt(known, Claiming(known, name)) = known[i]
        BY <3>1, <4>1, LastAtFacts
      <4> QED
        BY <3>1, <4>2 DEF FlatId, Ids, Claiming
    <3>2. CASE Claiming(known, name) = {}
      BY <2>2, <3>2 DEF FlatNames, AliasLeads, FlatId
    <3> QED
      BY <3>1, <3>2
  <2> QED
    BY <2>1, <2>2 DEF FlatFinds
<1> QED
  BY <1>1, Inductive, PTL

(* The members of groups and the commands at the top level.                *)
LEMMA RoutedMembers ==
  ASSUME IInv
  PROVE  /\ \A name \in TopNames : \E i \in AtTop(name) :
              TopCommand(name) = routed[i] /\ \A j \in AtTop(name) : j <= i
         /\ \A m \in DOMAIN routed : ~TopLevel(routed[m]) =>
              LET at == InGroup(GroupName(routed[m]), CommandName(routed[m])) IN
              \E i \in at :
                /\ Member(GroupName(routed[m]), CommandName(routed[m])) = routed[i]
                /\ \A j \in at : j <= i
<1>1. DOMAIN routed \subseteq 1..Len(listing) /\ Len(listing) \in Nat
  BY DEF IInv, RoutedInv, ProperListing
<1>2. ASSUME NEW name \in TopNames
      PROVE  \E i \in AtTop(name) :
               TopCommand(name) = routed[i] /\ \A j \in AtTop(name) : j <= i
  <2>1. AtTop(name) # {} /\ AtTop(name) \subseteq 1..Len(listing)
    BY <1>1 DEF TopNames, AtTop
  <2> QED
    BY <1>1, <2>1, LastAtFacts DEF TopCommand
<1>3. ASSUME NEW m \in DOMAIN routed, ~TopLevel(routed[m])
      PROVE  LET at == InGroup(GroupName(routed[m]), CommandName(routed[m])) IN
             \E i \in at :
               /\ Member(GroupName(routed[m]), CommandName(routed[m])) = routed[i]
               /\ \A j \in at : j <= i
  <2> DEFINE at == InGroup(GroupName(routed[m]), CommandName(routed[m]))
  <2>1. at # {} /\ at \subseteq 1..Len(listing)
    BY <1>1, <1>3 DEF InGroup
  <2> QED
    BY <1>1, <2>1, LastAtFacts DEF Member
<1> QED
  BY <1>2, <1>3

(* What is reached passed the filter and the check of the reserved names.  *)
THEOREM OnlyExposedReached == Spec => []OnlyExposedIsReachable
<1>1. IInv => OnlyExposedIsReachable
  <2> SUFFICES ASSUME IInv, kind = "grouped"
               PROVE  /\ \A d \in Reachable : IsExposed(d.id) /\ d \in ever
                      /\ \A n \in DOMAIN commandCache :
                           IsExposed(commandCache[n].id) /\ commandCache[n] \in ever
                      /\ Groups \cap Reserved = {}
    BY DEF OnlyExposedIsReachable
  <2>1. \A d \in Reachable : \E i \in DOMAIN routed : d = routed[i]
    BY RoutedMembers DEF Reachable, AtTop, InGroup
  <2>2. \A i \in DOMAIN routed :
          IsExposed(routed[i].id) /\ routed[i] \in ever /\ ~MeetsReserved(routed[i])
    BY DEF IInv, RoutedInv, Genuine
  <2>3. Groups \cap Reserved = {}
    BY <2>2 DEF Groups, MeetsReserved
  <2>4. \A n \in DOMAIN commandCache :
          IsExposed(commandCache[n].id) /\ commandCache[n] \in ever
    BY DEF IInv, CacheInv, Genuine
  <2> QED
    BY <2>1, <2>2, <2>3, <2>4
<1> QED
  BY <1>1, Inductive, PTL

(* The one way to lose an exposed module is a collision.                   *)
THEOREM OnlyCollisionsLose == Spec => []LostOnlyByCollision
<1>1. IInv => LostOnlyByCollision
  <2> SUFFICES ASSUME IInv, kind = "grouped", groupMapBuilt, known = listing,
                      NEW i \in DOMAIN listing, IsExposed(listing[i].id)
               PROVE  LET d == listing[i] IN
                      \/ d \in Reachable /\ CommandName(d) # NoName
                      \/ \E j \in DOMAIN listing :
                           /\ j > i /\ IsExposed(listing[j].id)
                           /\ CommandName(listing[j]) = CommandName(d)
                           /\ TopLevel(d) \/ GroupName(listing[j]) = GroupName(d)
                      \/ TopLevel(d) /\ CommandName(d) \in Groups
    BY DEF LostOnlyByCollision
  <2> DEFINE d == listing[i]
  <2>1. \A j \in DOMAIN routed :
          /\ j \in DOMAIN listing /\ routed[j] = listing[j] /\ IsExposed(listing[j].id)
    <3> SUFFICES ASSUME NEW j \in DOMAIN routed
                 PROVE  /\ j \in DOMAIN listing /\ routed[j] = listing[j]
                        /\ IsExposed(listing[j].id)
      OBVIOUS
    <3>1. /\ j \in DOMAIN listing /\ IsExposed(listing[j].id)
          /\ listing[j].id \in Ids(listing)
          /\ routed[j] = LastAt(listing, WithId(listing, listing[j].id))
      BY DEF IInv, RoutedInv, Kept
    <3> QED
      BY <3>1, KnownOf DEF IInv
  <2>2. i \in DOMAIN routed
    BY DEF IInv, RoutedInv, Kept, Ids
  <2>3. routed[i] = d /\ d \in Descriptors
    BY <2>1, <2>2 DEF IInv, RoutedInv, Genuine
  <2>4. CommandName(d) # NoName
    BY <2>3, NamesNotEmpty
  <2>5. DOMAIN listing \subseteq Nat
    BY DEF IInv, ProperListing
  <2>6. CASE TopLevel(d) /\ CommandName(d) \notin Groups
    <3>1. CommandName(d) \in TopNames /\ i \in AtTop(CommandName(d))
      BY <2>2, <2>3, <2>6 DEF TopNames, AtTop
    <3>2. PICK m \in AtTop(CommandName(d)) :
            TopCommand(CommandName(d)) = routed[m] /\ i <= m
      BY <3>1, RoutedMembers
    <3>3. m = i => d \in Reachable
      BY <2>3, <2>6, <3>1, <3>2 DEF Reachable
    <3>4. m \in DOMAIN routed /\ CommandName(routed[m]) = CommandName(d)
      BY <3>2 DEF AtTop
    <3> QED
      BY <2>1, <2>2, <2>4, <2>5, <2>6, <3>2, <3>3, <3>4
  <2>7. CASE ~TopLevel(d)
    <3> DEFINE at == InGroup(GroupName(d), CommandName(d))
    <3>1. i \in at
      BY <2>2, <2>3, <2>7 DEF InGroup
    <3>2. PICK m \in at : Member(GroupName(d), CommandName(d)) = routed[m] /\ i <= m
      BY <2>2, <2>3, <2>7, <3>1, RoutedMembers
    <3>3. Member(GroupName(d), CommandName(d)) \in Reachable
      BY <2>2, <2>3, <2>7 DEF Reachable
    <3>4. /\ m \in DOMAIN routed /\ CommandName(routed[m]) = CommandName(d)
          /\ GroupName(routed[m]) = GroupName(d)
      BY <3>2 DEF InGroup
    <3> QED
      BY <2>1, <2>2, <2>3, <2>4, <2>5, <3>2, <3>3, <3>4
  <2>8. CASE TopLevel(d) /\ CommandName(d) \in Groups
    BY <2>8
  <2> QED
    BY <2>6, <2>7, <2>8
<1> QED
  BY <1>1, Inductive, PTL

(* The group map is a map.                                                 *)
RoutedIsMap == routed = [i \in DOMAIN routed |-> routed[i]]

LEMMA MapKept == RoutedIsMap /\ [Next]_vars => RoutedIsMap'
<1> SUFFICES ASSUME RoutedIsMap, [Next]_vars PROVE RoutedIsMap'
  OBVIOUS
<1>1. CASE UNCHANGED routed
  BY <1>1 DEF RoutedIsMap
<1>2. ASSUME NEW ok \in BOOLEAN, GroupedList(ok) PROVE RoutedIsMap'
  <2>1. UNCHANGED routed \/ routed' = Routable(KnownAfter(ok))
    BY <1>2 DEF GroupedList, BuildGroupMap
  <2> QED
    BY <1>1, <2>1 DEF RoutedIsMap, Routable
<1> QED
  BY <1>1, <1>2 DEF Next, AskFlat, FlatList, FlatGet, AskGrouped, GroupedThrows,
    GroupedGet, Host, Register, Unregister, Change, latches, vars

(* The cache of a grouped object is filled from its table only.            *)
CachedFromTable ==
  kind = "grouped" =>
    /\ ~groupMapBuilt => DOMAIN commandCache = {}
    /\ \A name \in DOMAIN commandCache :
         name \in TopNames \ Groups /\ commandCache[name] = TopCommand(name)

LEMMA TableKept == CachedFromTable /\ [Next]_vars => CachedFromTable'
<1> SUFFICES ASSUME CachedFromTable, [Next]_vars, kind' = "grouped"
             PROVE  /\ ~groupMapBuilt' => DOMAIN commandCache' = {}
                    /\ \A name \in DOMAIN commandCache' :
                         /\ name \in TopNames' \ Groups'
                         /\ commandCache'[name] = TopCommand(name)'
  BY DEF CachedFromTable
<1>1. kind = "grouped"
  BY DEF Next, AskFlat, FlatList, FlatGet, AskGrouped, GroupedList, GroupedThrows,
    GroupedGet, Host, Register, Unregister, Change, vars
<1>2. ASSUME UNCHANGED <<routed, groupMapBuilt, commandCache>> PROVE CachedFromTable'
  BY <1>1, <1>2 DEF CachedFromTable, TopNames, Groups, TopCommand, AtTop
<1>3. ASSUME ~groupMapBuilt, UNCHANGED commandCache PROVE DOMAIN commandCache' = {}
  BY <1>1, <1>3 DEF CachedFromTable
<1>4. ASSUME NEW ok \in BOOLEAN, GroupedList(ok) \/ GroupedThrows(ok)
      PROVE  CachedFromTable'
  <2>1. UNCHANGED commandCache
    BY <1>4 DEF GroupedList, GroupedThrows, caches
  <2>2. CASE ~groupMapBuilt
    BY <1>3, <2>1, <2>2 DEF CachedFromTable
  <2>3. CASE groupMapBuilt
    <3>1. UNCHANGED <<routed, groupMapBuilt>>
      BY <1>4, <2>3 DEF GroupedList, GroupedThrows, BuildGroupMap
    <3> QED
      BY <1>2, <2>1, <3>1
  <2> QED
    BY <2>2, <2>3
<1>5. ASSUME NEW n \in Names, GroupedGet(n) PROVE CachedFromTable'
  <2>1. groupMapBuilt /\ UNCHANGED <<routed, groupMapBuilt>>
    BY <1>5 DEF GroupedGet, latches
  <2>2. CASE UNCHANGED commandCache
    BY <1>2, <2>1, <2>2
  <2>3. CASE /\ n \in TopNames \ Groups
             /\ Remember(n, IF n \in DOMAIN commandCache THEN commandCache[n]
                            ELSE TopCommand(n))
    <3>1. \A name \in DOMAIN commandCache' :
            /\ name \in TopNames \ Groups
            /\ commandCache'[name] = TopCommand(name)
      BY <1>1, <2>3 DEF Remember, CachedFromTable
    <3>2. UNCHANGED <<TopNames, Groups>> /\ \A name : TopCommand(name)' = TopCommand(name)
      BY <2>1 DEF TopNames, Groups, TopCommand, AtTop
    <3> QED
      BY <2>1, <3>1, <3>2 DEF CachedFromTable
  <2> QED
    BY <1>5, <2>2, <2>3 DEF GroupedGet
<1>6. CASE Host \/ UNCHANGED vars
  <2>1. Change \/ UNCHANGED vars
    BY <1>6 DEF Host, Register, Unregister
  <2>2. UNCHANGED <<latches, caches>>
    BY <2>1 DEF Change, vars
  <2> QED
    BY <1>2, <2>2 DEF latches, caches, CachedFromTable
<1> QED
  BY <1>1, <1>4, <1>5, <1>6 DEF Next, AskFlat, FlatList, FlatGet, AskGrouped,
    CachedFromTable

(* The laziness does not show: one table answers every question, and it is *)
(* the current one as long as the registry is.                             *)
THEOREM LazinessTheorem == Spec => []OneTable
<1>1. Init => CachedFromTable /\ RoutedIsMap
  BY DEF Init, CachedFromTable, RoutedIsMap
<1>2. IInv /\ CachedFromTable /\ RoutedIsMap => OneTable
  <2> SUFFICES ASSUME IInv, RoutedIsMap, kind = "grouped", groupMapBuilt, known = registry,
                      listing = registry
               PROVE  routed = [i \in {j \in DOMAIN registry : IsExposed(registry[j].id)}
                                  |-> registry[i]]
    BY DEF CachedFromTable, OneTable
  <2>1. DOMAIN routed = {j \in DOMAIN registry : IsExposed(registry[j].id)}
    BY DEF IInv, RoutedInv, Kept, Ids
  <2>2. ASSUME NEW i \in DOMAIN routed PROVE routed[i] = registry[i]
    <3>1. /\ i \in DOMAIN registry /\ registry[i].id \in Ids(registry)
          /\ routed[i] = LastAt(registry, WithId(registry, registry[i].id))
      BY DEF IInv, RoutedInv, Kept, Ids
    <3> QED
      BY <3>1, KnownOf DEF IInv
  <2> QED
    BY <2>1, <2>2 DEF RoutedIsMap
<1> QED
  BY <1>1, <1>2, TableKept, MapKept, Inductive, PTL DEF Spec

-----------------------------------------------------------------------------
(* Arguments.                                                               *)

(* What is known at each stage. *)
Delivery ==
  /\ schema \in Schemas /\ json \in Inputs
  /\ stage \in {"parse", "act", "called"} =>
       WellFormed(resolved.props) /\ ~Clashes(resolved.props)
  /\ stage \in {"act", "called"} =>
       /\ argv \in CommandLines(resolved.props)
       /\ options \in Stored(resolved.props, argv)
  /\ stage = "called" =>
       /\ input = Merged(resolved.props, options, json)
       /\ Valid(resolved, input)

-----------------------------------------------------------------------------
LEMMA Literals ==
  /\ "no" \in Words /\ "-" \in Words /\ "_" \in Words /\ "" \in Words
  /\ "-" # "_" /\ "" # "_" /\ "no" # "_" /\ "" # "-"
BY ArgumentsAssumption

LEMMA ReplaceFacts ==
  ASSUME NEW name \in Seq(Words), NEW this, NEW that \in Words
  PROVE  /\ Replace(name, this, that) \in Seq(Words)
         /\ Len(Replace(name, this, that)) = Len(name)
         /\ \A i \in 1..Len(name) :
              Replace(name, this, that)[i] = IF name[i] = this THEN that ELSE name[i]
<1> DEFINE r == Replace(name, this, that)
<1>1. Len(name) \in Nat /\ DOMAIN name = 1..Len(name)
      /\ \A i \in 1..Len(name) : name[i] \in Words
  BY LenProperties, ElementOfSeq
<1>2. r = [i \in 1..Len(name) |-> IF name[i] = this THEN that ELSE name[i]]
  BY <1>1 DEF Replace
<1>3. r \in [1..Len(name) -> Words]
  BY <1>1, <1>2
<1>4. r \in Seq(Words)
  BY <1>1, <1>3, SeqDef
<1> HIDE DEF r
<1>5. Len(r) = Len(name)
  BY <1>1, <1>3, <1>4, LenProperties
<1> QED
  BY <1>2, <1>4, <1>5 DEF r

(* What is replaced is gone, unless it was already the replacement.        *)
LEMMA ReplacedIsGone ==
  ASSUME NEW name \in Seq(Words), NEW this, NEW that \in Words, NEW gone,
         that # gone, \A i \in 1..Len(name) : name[i] # gone \/ gone = this
  PROVE  \A i \in 1..Len(Replace(name, this, that)) : Replace(name, this, that)[i] # gone
BY ReplaceFacts

(* Behind a prefix of two the rest is what it was.                         *)
LEMMA PrefixFacts ==
  ASSUME NEW pre \in Seq(Words), Len(pre) = 2, NEW rest \in Seq(Words)
  PROVE  /\ pre \o rest \in Seq(Words) /\ Len(pre \o rest) = Len(rest) + 2
         /\ \A i \in 1..2 : (pre \o rest)[i] = pre[i]
         /\ \A i \in 1..Len(rest) : (pre \o rest)[i + 2] = rest[i]
<1> DEFINE all == pre \o rest
<1>1. /\ all \in Seq(Words) /\ Len(all) = Len(pre) + Len(rest)
      /\ \A i \in 1..(Len(pre) + Len(rest)) :
           all[i] = IF i <= Len(pre) THEN pre[i] ELSE rest[i - Len(pre)]
  BY ConcatProperties
<1>2. Len(rest) \in Nat
  BY LenProperties
<1> HIDE DEF all
<1>3. ASSUME NEW i \in 1..2 PROVE all[i] = pre[i]
  <2>1. i \in 1..(Len(pre) + Len(rest)) /\ i <= Len(pre)
    BY <1>2
  <2> QED
    BY <1>1, <2>1
<1>4. ASSUME NEW i \in 1..Len(rest) PROVE all[i + 2] = rest[i]
  <2>1. i + 2 \in 1..(Len(pre) + Len(rest)) /\ ~(i + 2 <= Len(pre))
        /\ (i + 2) - Len(pre) = i
    BY <1>2
  <2> QED
    BY <1>1, <2>1
<1>5. Len(all) = Len(rest) + 2
  BY <1>1, <1>2
<1> QED
  BY <1>1, <1>3, <1>4, <1>5 DEF all

LEMMA SuffixFacts ==
  ASSUME NEW flag \in Seq(Words), Len(flag) > 1
  PROVE  LET rest == SubSeq(flag, 3, Len(flag)) IN
         /\ rest \in Seq(Words) /\ Len(rest) = Len(flag) - 2
         /\ \A i \in 1..Len(rest) : rest[i] = flag[i + 2] /\ i + 2 \in 1..Len(flag)
<1> DEFINE rest == SubSeq(flag, 3, Len(flag))
<1>1. Len(flag) \in Nat /\ \A i \in 3..Len(flag) : flag[i] \in Words
  BY LenProperties, ElementOfSeq
<1>2. /\ rest \in Seq(Words)
      /\ Len(rest) = IF 3 <= Len(flag) THEN Len(flag) - 3 + 1 ELSE 0
      /\ \A i \in 1..(Len(flag) - 3 + 1) : rest[i] = flag[3 + i - 1]
  BY <1>1, SubSeqProperties
<1> HIDE DEF rest
<1>3. Len(rest) = Len(flag) - 2
  <2>1. \A k, l \in Nat : k > 1 /\ l = (IF 3 <= k THEN k - 3 + 1 ELSE 0) => l = k - 2
    OBVIOUS
  <2>2. Len(rest) \in Nat
    BY <1>2, LenProperties
  <2> QED
    BY <1>1, <1>2, <2>1, <2>2
<1>4. ASSUME NEW i \in 1..Len(rest) PROVE rest[i] = flag[i + 2] /\ i + 2 \in 1..Len(flag)
  <2>1. i \in 1..(Len(flag) - 3 + 1) /\ 3 + i - 1 = i + 2 /\ i + 2 \in 1..Len(flag)
    BY <1>1, <1>3
  <2> QED
    BY <1>2, <2>1
<1> QED
  BY <1>2, <1>3, <1>4 DEF rest

-----------------------------------------------------------------------------
(* Flags and attributes.                                                   *)

Plain(word) == word \in Seq(Words) /\ \A i \in 1..Len(word) : word[i] # "_"

LEMMA NameFacts ==
  ASSUME NEW name, Name(name)
  PROVE  /\ name \in Seq(Words) /\ Len(name) \in Nat /\ Len(name) > 0
         /\ DOMAIN name = 1..Len(name)
<1>1. name \in Seq(Words) /\ name # <<>>
  BY DEF Name
<1> QED
  BY <1>1, EmptySeq, LenProperties

LEMMA FlagFacts ==
  ASSUME NEW name, Name(name)
  PROVE  Plain(Flag(name)) /\ Len(Flag(name)) = Len(name)
<1> DEFINE low == "_"
           dash == "-"
<1>1. dash \in Words /\ dash # low
  BY Literals
<1>2. name \in Seq(Words)
  BY NameFacts
<1> HIDE DEF low, dash
<1>3. /\ Replace(name, low, dash) \in Seq(Words)
      /\ Len(Replace(name, low, dash)) = Len(name)
  BY <1>1, <1>2, ReplaceFacts
<1>4. \A i \in 1..Len(Replace(name, low, dash)) : Replace(name, low, dash)[i] # low
  BY <1>1, <1>2, ReplacedIsGone
<1> QED
  BY <1>3, <1>4 DEF Flag, Plain, low, dash

LEMMA NoFlagFacts ==
  ASSUME NEW name, Name(name)
  PROVE  /\ Plain(NoFlag(name)) /\ Negated(NoFlag(name)) /\ NoFlag(name) # Flag(name)
         /\ SubSeq(NoFlag(name), 3, Len(NoFlag(name))) = Flag(name)
<1> DEFINE word == "no"
           dash == "-"
           low == "_"
           pre == <<word, dash>>
           flag == Flag(name)
           no == pre \o flag
           rest == SubSeq(no, 3, Len(no))
<1>1. word \in Words /\ dash \in Words /\ word # low /\ dash # low
  BY Literals
<1>2. /\ flag \in Seq(Words) /\ \A i \in 1..Len(flag) : flag[i] # low
      /\ Len(flag) \in Nat /\ Len(flag) > 0
  BY FlagFacts, NameFacts DEF Plain
<1> HIDE DEF word, dash, low, flag
<1>3. pre \in Seq(Words) /\ Len(pre) = 2 /\ pre[1] = word /\ pre[2] = dash
  BY <1>1
<1> HIDE DEF pre
<1>4. /\ no \in Seq(Words) /\ Len(no) = Len(flag) + 2
      /\ \A i \in 1..2 : no[i] = pre[i]
      /\ \A i \in 1..Len(flag) : no[i + 2] = flag[i]
  BY <1>2, <1>3, PrefixFacts
<1> HIDE DEF no
<1>5. ASSUME NEW i \in 1..Len(no) PROVE no[i] # low
  <2>1. CASE i = 1 \/ i = 2
    BY <2>1, <1>1, <1>3, <1>4
  <2>2. CASE i > 2
    <3>1. i - 2 \in 1..Len(flag) /\ (i - 2) + 2 = i
      BY <2>2, <1>2, <1>4
    <3>2. no[i] = flag[i - 2]
      BY <3>1, <1>4
    <3> QED
      BY <3>1, <3>2, <1>2
  <2>3. i = 1 \/ i = 2 \/ i > 2
    BY <1>2, <1>4
  <2> QED
    BY <2>1, <2>2, <2>3
<1>6. Len(no) > 1 /\ no[1] = word /\ no[2] = dash
  BY <1>2, <1>3, <1>4
<1>7. no # flag
  BY <1>2, <1>4
<1>8. rest = flag
  <2>1. /\ rest \in Seq(Words) /\ Len(rest) = Len(no) - 2
        /\ \A i \in 1..Len(rest) : rest[i] = no[i + 2]
    BY <1>4, <1>6, SuffixFacts
  <2> HIDE DEF rest
  <2>2. Len(rest) = Len(flag)
    BY <2>1, <1>2, <1>4
  <2>3. \A i \in 1..Len(rest) : rest[i] = flag[i]
    BY <2>1, <2>2, <1>4
  <2> QED
    BY <2>1, <2>2, <2>3, <1>2, SeqEqual
<1>9. NoFlag(name) = no
  BY DEF NoFlag, no, pre, word, dash, flag
<1> QED
  BY <1>4, <1>5, <1>6, <1>7, <1>8, <1>9 DEF Negated, Plain, flag, word, dash, low

(* Camel case keeps the length, and brings no "_".                         *)
LEMMA CamelFacts ==
  ASSUME NEW base, Plain(base)
  PROVE  Plain(CamelCase(base))
<1> DEFINE low == "_"
           dash == "-"
           empty == ""
           camel == CamelCase(base)
           good == Words \ {low}
<1>1. empty \in good
  BY Literals
<1>2. \A w \in good : Capital(w) \in good
  BY ArgumentsAssumption
<1>3. /\ Len(base) \in Nat /\ DOMAIN base = 1..Len(base)
      /\ \A i \in 1..Len(base) : base[i] \in good
  BY LenProperties, ElementOfSeq DEF Plain
<1>4. camel = [i \in 1..Len(base) |->
                 IF base[i] = dash THEN empty
                 ELSE IF i > 1 /\ base[i - 1] = dash THEN Capital(base[i]) ELSE base[i]]
  BY <1>3 DEF CamelCase
<1> HIDE DEF good, camel, low, dash, empty
<1>5. camel \in [1..Len(base) -> good]
  BY <1>1, <1>2, <1>3, <1>4
<1>6. camel \in Seq(good)
  BY <1>3, <1>5, SeqDef
<1>7. Len(camel) = Len(base) /\ \A i \in 1..Len(camel) : camel[i] \in good
  BY <1>3, <1>5, <1>6, LenProperties
<1>8. camel \in [1..Len(camel) -> Words] /\ Len(camel) \in Nat
  BY <1>3, <1>5, <1>7 DEF good
<1>9. camel \in Seq(Words)
  BY <1>8, SeqDef
<1> QED
  BY <1>7, <1>9 DEF Plain, camel, good, low

(* The position before one that is not the first.                         *)
LEMMA OneBefore == \A n \in Nat : \A j \in 1..n : j > 1 => j - 1 \in 1..n
OBVIOUS

(* The key is the attribute of names that have one and have no "-".        *)
LEMMA KeyIsAttribute ==
  ASSUME NEW name, Name(name), ~Negated(Flag(name)),
         \A i \in DOMAIN name : name[i] # "-" /\ (name[i] = "_" => Joins(name, i))
  PROVE  CommanderKey(name) = Attribute(Flag(name))
<1> DEFINE low == "_"
           dash == "-"
           empty == ""
           flag == Flag(name)
           key == CommanderKey(name)
           attribute == Attribute(flag)
<1>1. /\ name \in Seq(Words) /\ Len(name) \in Nat /\ DOMAIN name = 1..Len(name)
      /\ \A i \in 1..Len(name) : name[i] # dash /\ (name[i] = low => Joins(name, i))
      /\ \A i : Joins(name, i) => name[i] = low
  BY NameFacts DEF Joins
<1>2. dash # low
  BY Literals
<1>3. flag = [i \in 1..Len(name) |-> IF name[i] = low THEN dash ELSE name[i]]
  BY <1>1 DEF Flag, Replace
<1>4. attribute = [i \in DOMAIN flag |->
                     IF flag[i] = dash THEN empty
                     ELSE IF i > 1 /\ flag[i - 1] = dash THEN Capital(flag[i]) ELSE flag[i]]
  BY DEF Attribute, Base, CamelCase
<1>5. key = [i \in 1..Len(name) |->
               IF Joins(name, i) THEN empty
               ELSE IF i > 1 /\ Joins(name, i - 1) THEN Capital(name[i]) ELSE name[i]]
  BY <1>1 DEF CommanderKey
<1> HIDE DEF low, dash, empty, flag, key, attribute
<1>6. \A i \in 1..Len(name) : flag[i] = dash <=> Joins(name, i)
  BY <1>1, <1>2, <1>3
<1>7. \A i \in 1..Len(name) : ~Joins(name, i) => flag[i] = name[i]
  BY <1>1, <1>3
<1>8. DOMAIN flag = 1..Len(name)
  BY <1>3
<1>9. ASSUME NEW i \in 1..Len(name) PROVE attribute[i] = key[i]
  <2>1. i > 1 => i - 1 \in 1..Len(name)
    BY <1>1, OneBefore, Zenon
  <2>2. i > 1 => (flag[i - 1] = dash <=> Joins(name, i - 1))
    BY <1>6, <2>1
  <2>3. attribute[i] = IF flag[i] = dash THEN empty
                       ELSE IF i > 1 /\ flag[i - 1] = dash THEN Capital(flag[i]) ELSE flag[i]
    BY <1>4, <1>8
  <2>4. key[i] = IF Joins(name, i) THEN empty
                 ELSE IF i > 1 /\ Joins(name, i - 1) THEN Capital(name[i]) ELSE name[i]
    BY <1>5
  <2> QED
    BY <1>6, <1>7, <2>2, <2>3, <2>4
<1>10. key = attribute
  BY <1>4, <1>5, <1>8, <1>9
<1> QED
  BY <1>10 DEF key, attribute, flag

(* Both flags of a pair have one attribute.                                *)
LEMMA NegationIsShared ==
  ASSUME NEW name, Name(name), ~Negated(Flag(name))
  PROVE  Attribute(NoFlag(name)) = Attribute(Flag(name))
BY NoFlagFacts DEF Attribute, Base

LEMMA AttributeFacts ==
  ASSUME NEW flag, Plain(flag)
  PROVE  Plain(Attribute(flag))
<1> DEFINE low == "_"
           base == Base(flag)
<1>1. Plain(base)
  <2>1. CASE Negated(flag)
    <3> DEFINE rest == SubSeq(flag, 3, Len(flag))
    <3>1. flag \in Seq(Words) /\ Len(flag) > 1 /\ \A i \in 1..Len(flag) : flag[i] # low
      BY <2>1 DEF Negated, Plain
    <3> HIDE DEF low
    <3>2. /\ rest \in Seq(Words)
          /\ \A i \in 1..Len(rest) : rest[i] = flag[i + 2] /\ i + 2 \in 1..Len(flag)
      BY <3>1, SuffixFacts
    <3> HIDE DEF rest
    <3>3. rest \in Seq(Words) /\ \A i \in 1..Len(rest) : rest[i] # low
      BY <3>1, <3>2
    <3>4. base = rest
      BY <2>1 DEF rest, Base
    <3> QED
      BY <3>3, <3>4 DEF Plain, low
  <2> QED
    BY <2>1 DEF Plain, Base
<1> QED
  BY <1>1, CamelFacts DEF Attribute

LEMMA AttributesArePlain ==
  ASSUME NEW props, WellFormed(props), NEW a \in Attributes(props)
  PROVE  Plain(a)
<1>1. CASE a \in BuiltinAttributes
  <2>1. PICK r \in ReservedNames : a = Attribute(Flag(r))
    BY <1>1 DEF BuiltinAttributes, BuiltinFlags
  <2>2. Name(r)
    BY ArgumentsAssumption
  <2> QED
    BY <2>1, <2>2, FlagFacts, AttributeFacts
<1>2. CASE a \in {Attribute(f) : f \in Registered(props)}
  <2>1. PICK n \in DOMAIN props : \E f \in FlagsOf(n, props[n]) : a = Attribute(f)
    BY <1>2 DEF Registered
  <2>2. Name(n)
    BY DEF WellFormed
  <2>3. a = Attribute(Flag(n)) \/ a = Attribute(NoFlag(n))
    BY <2>1 DEF FlagsOf
  <2> QED
    BY <2>2, <2>3, FlagFacts, NoFlagFacts, AttributeFacts
<1> QED
  BY <1>1, <1>2 DEF Attributes

-----------------------------------------------------------------------------
(* What a property gets.                                                   *)

(* OwnAttribute, of any properties.                                        *)
Own(props, n) ==
  /\ \A i \in DOMAIN n : n[i] # "-" /\ (n[i] = "_" => Joins(n, i))
  /\ ~Negated(Flag(n))
  /\ Attribute(Flag(n)) \notin BuiltinAttributes
  /\ \A m \in DOMAIN props \ {n} :
       \A f \in FlagsOf(m, props[m]) : Attribute(f) # Attribute(Flag(n))

(* What commander stores for a property of its own attribute.              *)
Given(node, texts, n) ==
  IF Flag(n) \in DOMAIN texts
  THEN IF IsBoolean(node) THEN Yes
       ELSE Value(texts[Flag(n)], IF ParsesAsNumber(node) THEN "int" ELSE "string")
  ELSE IF IsBoolean(node) /\ NoFlag(n) \in DOMAIN texts THEN No
  ELSE DefaultOf(node)

(* reconvertEnumValues, of one value.                                      *)
Reconverted(node, value) ==
  IF node.enum /\ ~IsBoolean(node) /\ value.text \in Enums
  THEN Value(value.text, "int") ELSE value

LEMMA OwnerIsUnique ==
  ASSUME NEW props, ~Clashes(props), NEW n \in DOMAIN props,
         NEW f \in FlagsOf(n, props[n])
  PROVE  OwnerOf(props, f) = n
<1>1. \A m \in DOMAIN props : f \in FlagsOf(m, props[m]) => m = n
  BY DEF Clashes
<1> QED
  BY <1>1 DEF OwnerOf

(* Only the flags of a property with an attribute of its own lead to it.   *)
LEMMA OwnFlags ==
  ASSUME NEW props, WellFormed(props), NEW n \in DOMAIN props, Own(props, n),
         NEW f \in Registered(props)
  PROVE  Attribute(f) = Attribute(Flag(n)) <=> f \in FlagsOf(n, props[n])
<1>1. PICK m \in DOMAIN props : f \in FlagsOf(m, props[m])
  BY DEF Registered
<1>2. Attribute(NoFlag(n)) = Attribute(Flag(n))
  BY NegationIsShared DEF WellFormed, Own
<1>3. f \in FlagsOf(n, props[n]) => Attribute(f) = Attribute(Flag(n))
  BY <1>2 DEF FlagsOf
<1>4. Attribute(f) = Attribute(Flag(n)) => m = n
  BY <1>1 DEF Own
<1> QED
  BY <1>1, <1>3, <1>4

LEMMA StoredForOwn ==
  ASSUME NEW props, WellFormed(props), ~Clashes(props),
         NEW texts \in CommandLines(props),
         NEW n \in DOMAIN props, Own(props, n),
         NEW v \in StoredAt(props, texts, Attribute(Flag(n)))
  PROVE  v = Given(props[n], texts, n)
<1> DEFINE a == Attribute(Flag(n))
           at == {f \in DOMAIN texts : Attribute(f) = a}
           node == props[n]
<1>1. /\ DOMAIN texts \subseteq Registered(props)
      /\ ~(FlagsOf(n, node) \subseteq DOMAIN texts) \/ ~IsBoolean(node)
  BY DEF CommandLines
<1>2. at = DOMAIN texts \cap FlagsOf(n, node)
  BY <1>1, OwnFlags
<1>3. Flag(n) \in FlagsOf(n, node) /\ Name(n) /\ ~Negated(Flag(n))
  BY DEF FlagsOf, WellFormed, Own
<1>4. CASE at = {}
  <2>1. v \in DefaultsAt(props, a)
    BY <1>4 DEF StoredAt
  <2>2. {m \in DOMAIN props : Attribute(Flag(m)) = a} = {n}
    <3>1. \A m \in DOMAIN props : Flag(m) \in FlagsOf(m, props[m])
      BY DEF FlagsOf
    <3>2. \A m \in DOMAIN props \ {n} : Attribute(Flag(m)) # a
      BY <3>1 DEF Own
    <3> HIDE DEF a
    <3>3. a = Attribute(Flag(n))
      BY DEF a
    <3> QED
      BY <3>2, <3>3
  <2>3. a \notin BuiltinAttributes
    BY DEF Own
  <2>4. v = DefaultOf(node)
    BY <2>1, <2>2, <2>3, <1>3 DEF DefaultsAt
  <2>5. Flag(n) \notin DOMAIN texts /\ (IsBoolean(node) => NoFlag(n) \notin DOMAIN texts)
    BY <1>2, <1>4 DEF FlagsOf
  <2> QED
    BY <2>4, <2>5 DEF Given
<1>5. CASE at # {}
  <2>1. PICK f \in at : v = Parsed(props, f, texts[f])
    BY <1>5 DEF StoredAt
  <2>2. f \in FlagsOf(n, node) /\ f \in DOMAIN texts /\ OwnerOf(props, f) = n
    BY <1>2, OwnerIsUnique
  <2>3. CASE IsBoolean(node)
    <3>1. v = IF Negated(f) THEN No ELSE Yes
      BY <2>1, <2>2, <2>3 DEF Parsed
    <3>2. FlagsOf(n, node) = {Flag(n), NoFlag(n)} /\ Negated(NoFlag(n))
      BY <2>3, <1>3, NoFlagFacts DEF FlagsOf
    <3>3. CASE f = Flag(n)
      BY <3>1, <3>3, <2>2, <2>3, <1>3 DEF Given
    <3>4. CASE f = NoFlag(n)
      BY <3>1, <3>2, <3>4, <2>2, <2>3, <1>1 DEF Given
    <3> QED
      BY <3>2, <3>3, <3>4, <2>2
  <2>4. CASE ~IsBoolean(node)
    <3>1. f = Flag(n)
      BY <2>2, <2>4 DEF FlagsOf
    <3>2. v = IF ParsesAsNumber(node) THEN Value(texts[f], "int") ELSE Value(texts[f], "string")
      BY <2>1, <2>2, <2>4 DEF Parsed
    <3> QED
      BY <3>1, <3>2, <2>2, <2>4 DEF Given
  <2> QED
    BY <2>3, <2>4
<1> QED
  BY <1>4, <1>5

(* The action finds what commander stored: by the key, for the name itself *)
(* is no attribute if it differs from it.                                  *)
LEMMA FoundByKey ==
  ASSUME NEW props, WellFormed(props), NEW texts, NEW holds \in Stored(props, texts),
         NEW n \in DOMAIN props, Own(props, n)
  PROVE  Kwargs(props, [a \in Present(holds) |-> holds[a]])[n] = holds[Attribute(Flag(n))]
<1> DEFINE key == Attribute(Flag(n))
           held == [a \in Present(holds) |-> holds[a]]
<1>1. Name(n) /\ CommanderKey(n) = key
  BY KeyIsAttribute DEF WellFormed, Own
<1>2. DOMAIN holds = Attributes(props)
  BY DEF Stored
<1>3. key \in Attributes(props)
  BY DEF Attributes, Registered, FlagsOf
<1>4. Kwargs(props, held)[n] = IF key \in DOMAIN held THEN held[key]
                               ELSE IF n \in DOMAIN held THEN held[n] ELSE NoValue
  BY <1>1 DEF Kwargs
<1>5. CASE holds[key] # NoValue
  BY <1>2, <1>3, <1>4, <1>5 DEF Present
<1>6. CASE holds[key] = NoValue
  <2>1. key \notin DOMAIN held
    BY <1>6 DEF Present
  <2>2. n \notin DOMAIN held
    <3> SUFFICES ASSUME n \in DOMAIN held PROVE FALSE
      OBVIOUS
    <3>1. Plain(n)
      BY <1>2, AttributesArePlain DEF Present
    <3>2. CommanderKey(n) = n
      <4>1. \A i : i \in 1..Len(n) => ~Joins(n, i)
        BY <3>1 DEF Plain, Joins
      <4>2. n \in Seq(Words) /\ Len(n) \in Nat /\ DOMAIN n = 1..Len(n)
        BY <1>1, NameFacts
      <4>3. \A i \in 1..Len(n) : ~(i > 1 /\ Joins(n, i - 1))
        BY <4>1, <4>2
      <4>4. CommanderKey(n) = [i \in 1..Len(n) |-> n[i]]
        BY <4>1, <4>2, <4>3 DEF CommanderKey
      <4> QED
        BY <4>2, <4>4
    <3> QED
      BY <1>1, <2>1, <3>2
  <2> QED
    BY <1>4, <1>6, <2>1, <2>2
<1> QED
  BY <1>5, <1>6

LEMMA MergedForOwn ==
  ASSUME NEW props, WellFormed(props), ~Clashes(props),
         NEW texts \in CommandLines(props), NEW holds \in Stored(props, texts),
         NEW object, NEW n \in DOMAIN props, Own(props, n)
  PROVE  LET given  == Given(props[n], texts, n)
             merged == Merged(props, holds, object)
         IN  /\ n \in DOMAIN merged <=> given # NoValue \/ n \in DOMAIN object
             /\ n \in DOMAIN merged => merged[n] =
                  Reconverted(props[n], IF given # NoValue THEN given ELSE object[n])
<1> DEFINE a == Attribute(Flag(n))
           kwargs == Kwargs(props, [b \in Present(holds) |-> holds[b]])
           input0 == CollectInput(kwargs, object)
           given == Given(props[n], texts, n)
           merged == Merged(props, holds, object)
<1>1. a \in Attributes(props)
  BY DEF Attributes, Registered, FlagsOf
<1>2. holds[a] \in StoredAt(props, texts, a)
  BY <1>1 DEF Stored
<1>3. kwargs[n] = given
  BY <1>2, StoredForOwn, FoundByKey
<1>4. DOMAIN kwargs = DOMAIN props
  BY DEF Kwargs
<1>5. merged = Reconvert(props, input0)
  BY DEF Merged
<1> HIDE DEF kwargs, given, merged
<1>6. n \in Present(kwargs) <=> given # NoValue
  BY <1>3, <1>4 DEF Present
<1>7. /\ n \in DOMAIN input0 <=> given # NoValue \/ n \in DOMAIN object
      /\ n \in DOMAIN input0 => input0[n] = IF given # NoValue THEN given ELSE object[n]
  BY <1>3, <1>6 DEF CollectInput
<1> HIDE DEF input0
<1>8. /\ DOMAIN merged = DOMAIN input0
      /\ n \in DOMAIN input0 => merged[n] = Reconverted(props[n], input0[n])
  BY <1>5 DEF Reconvert, Reconverted
<1> QED
  BY <1>7, <1>8 DEF given, merged

(* Values are none of the absent ones.                                     *)
LEMMA ValuesAreValues ==
  /\ Yes # NoValue /\ No # NoValue
  /\ \A text \in Words : Value(text, "int") # NoValue /\ Value(text, "string") # NoValue
<1>1. /\ "true" \in Words /\ "false" \in Words
      /\ "string" \in Words /\ "int" \in Words /\ "bool" \in Words
  BY ArgumentsAssumption
<1>2. ASSUME NEW text \in Words, NEW type \in Words PROVE Value(text, type) # NoValue
  <2>1. Value(text, type) \in Values
    BY DEF Value, Values
  <2> QED
    BY <2>1, ArgumentsAssumption
<1> QED
  BY <1>1, <1>2 DEF Yes, No

LEMMA TextsAreWords ==
  ASSUME NEW props, NEW texts \in CommandLines(props), NEW f \in DOMAIN texts
  PROVE  texts[f] \in Words
BY ArgumentsAssumption DEF CommandLines

(* What comes out of the merge, and is of the type that was wanted, is     *)
(* what was expected.                                                      *)
LEMMA ExpectedForOwn ==
  ASSUME NEW n \in DOMAIN resolved.props, WellFormed(resolved.props),
         argv \in CommandLines(resolved.props), json \in Inputs,
         NEW given, given = Given(resolved.props[n], argv, n),
         NEW final,
         final = Reconverted(resolved.props[n], IF given # NoValue THEN given ELSE json[n]),
         /\ given # NoValue \/ n \in DOMAIN json
         /\ resolved.props[n].type \in {"string", "int", "bool"}
         => final.type = resolved.props[n].type
  PROVE  IF Expected(n) = NoValue THEN given = NoValue /\ n \notin DOMAIN json
         ELSE (given # NoValue \/ n \in DOMAIN json) /\ final = Expected(n)
<1> DEFINE node == resolved.props[n]
<1>1. node.default \in Values \cup {NoValue} /\ node.enum \in BOOLEAN
  BY DEF WellFormed
<1>2. CASE IsBoolean(node)
  <2>1. /\ Flag(n) \in DOMAIN argv => given = Yes
        /\ Flag(n) \notin DOMAIN argv /\ NoFlag(n) \in DOMAIN argv => given = No
        /\ Flag(n) \notin DOMAIN argv /\ NoFlag(n) \notin DOMAIN argv =>
             given = IF node.default # NoValue THEN node.default ELSE No
    BY <1>2 DEF Given, DefaultOf
  <2>2. Expected(n) = given /\ given # NoValue
    BY <1>2, <2>1, ValuesAreValues DEF Expected
  <2>3. final = given
    BY <1>2, <2>2 DEF Reconverted
  <2> QED
    BY <2>2, <2>3
<1>3. CASE ~IsBoolean(node) /\ (Flag(n) \in DOMAIN argv \/ (node.default # NoValue /\ node.enum))
  <2> DEFINE text == IF Flag(n) \in DOMAIN argv THEN argv[Flag(n)] ELSE node.default.text
  <2>1. text \in Words
    BY <1>1, <1>3, TextsAreWords DEF Values
  <2>2. Expected(n) = Typed(node, text)
    BY <1>3 DEF Expected
  <2>3. given = Value(text, IF Flag(n) \in DOMAIN argv /\ ParsesAsNumber(node)
                            THEN "int" ELSE "string")
    BY <1>3 DEF Given, DefaultOf
  <2> HIDE DEF text
  <2>4. given # NoValue /\ given.text = text
    BY <2>1, <2>3, ValuesAreValues DEF Value
  <2>5. final = IF node.enum /\ text \in Enums THEN Value(text, "int") ELSE given
    BY <1>3, <2>4 DEF Reconverted
  <2>6. CASE node.type = "int"
    <3>1. final.type = "int"
      BY <2>4, <2>6
    <3>2. final = Value(text, "int")
      BY <2>3, <2>5, <3>1 DEF Value
    <3> QED
      BY <2>1, <2>2, <2>4, <2>6, <3>2, ValuesAreValues DEF Typed
  <2>7. CASE node.type # "int"
    <3>1. given = Value(text, "string")
      BY <2>3, <2>7 DEF ParsesAsNumber
    <3>2. Typed(node, text) = final
      BY <2>5, <2>7, <3>1 DEF Typed
    <3>3. final # NoValue
      BY <2>1, <2>5, <3>1, ValuesAreValues
    <3> QED
      BY <2>2, <2>4, <3>2, <3>3
  <2> QED
    BY <2>6, <2>7
<1>4. CASE ~IsBoolean(node) /\ Flag(n) \notin DOMAIN argv /\ node.default # NoValue /\ ~node.enum
  <2>1. given = node.default /\ Expected(n) = node.default
    BY <1>4 DEF Given, DefaultOf, Expected
  <2>2. final = given
    BY <1>4, <2>1 DEF Reconverted
  <2> QED
    BY <1>4, <2>1, <2>2
<1>5. CASE ~IsBoolean(node) /\ Flag(n) \notin DOMAIN argv /\ node.default = NoValue
  <2>1. given = NoValue
    BY <1>5 DEF Given, DefaultOf
  <2>2. CASE n \notin DOMAIN json
    <3>1. Expected(n) = NoValue
      BY <1>5, <2>2 DEF Expected
    <3> QED
      BY <2>1, <2>2, <3>1
  <2>3. CASE n \in DOMAIN json
    <3>1. json[n] \in Values /\ json[n].text \in Words /\ json[n] # NoValue
      BY <2>3, ArgumentsAssumption DEF Values
    <3>2. final = IF node.enum /\ json[n].text \in Enums THEN Value(json[n].text, "int")
                  ELSE json[n]
      BY <1>5, <2>1 DEF Reconverted
    <3>3. Expected(n) = IF node.enum /\ json[n].text \in Enums THEN Value(json[n].text, "int")
                        ELSE json[n]
      BY <1>5, <2>3 DEF Expected, Typed
    <3>4. Expected(n) # NoValue
      BY <3>1, <3>3, ValuesAreValues
    <3> QED
      BY <2>3, <3>2, <3>3, <3>4
  <2> QED
    BY <2>2, <2>3
<1> QED
  BY <1>2, <1>3, <1>4, <1>5

-----------------------------------------------------------------------------
(* The stages.                                                             *)

LEMMA DeliveryInit == ArgumentsInit => Delivery
BY DEF ArgumentsInit, Delivery

LEMMA DeliveryNext == Delivery /\ [ArgumentsNext]_argumentVars => Delivery'
<1> SUFFICES ASSUME Delivery, [ArgumentsNext]_argumentVars PROVE Delivery'
  OBVIOUS
<1>1. CASE Build
  <2>1. schema' = schema /\ json' = json
    BY <1>1 DEF Build
  <2>2. ASSUME NEW node, WellFormed(node.props), Offer(node) PROVE Delivery'
    <3>1. CASE stage' = "refused"
      BY <2>1, <3>1 DEF Delivery
    <3>2. CASE resolved' = node /\ ~Clashes(node.props) /\ stage' = "parse"
      BY <2>1, <2>2, <3>2 DEF Delivery
    <3> QED
      BY <2>2, <3>1, <3>2 DEF Offer, Refuse
  <2> DEFINE done == Resolve(schema.root, schema.defs)
  <2>3. CASE \E e \in done.errors \ {Unexpected} : Refuse(e)
    BY <2>1, <2>3 DEF Delivery, Refuse
  <2>4. CASE Offer(Unresolved)
    BY <2>2, <2>4 DEF Unresolved, WellFormed
  <2>5. CASE done.errors = {} /\ Offer(done.node)
    BY <2>2, <2>5, ArgumentsAssumption DEF Delivery
  <2>6. CASE Offer(schema.root)
    BY <2>2, <2>6, ArgumentsAssumption DEF Delivery
  <2> QED
    BY <1>1, <2>3, <2>4, <2>5, <2>6 DEF Build
<1>2. CASE Parse
  <2>1. stage = "parse" /\ UNCHANGED <<schema, json, resolved, input>>
    BY <1>2 DEF Parse
  <2>2. PICK texts \in CommandLines(resolved.props) :
          /\ argv' = texts
          /\ stage' = "refused"
             \/ (stage' = "act" /\ options' \in Stored(resolved.props, texts))
    BY <1>2 DEF Parse, Refuse
  <2> QED
    BY <2>1, <2>2 DEF Delivery
<1>3. CASE Act
  <2>1. /\ stage = "act" /\ UNCHANGED <<schema, argv, json, resolved, options>>
        /\ input' = Merged(resolved.props, options, json)
        /\ \/ stage' \in {"diverted", "refused"}
           \/ stage' = "called" /\ Valid(resolved, input')
    BY <1>3 DEF Act, Refuse
  <2> QED
    BY <2>1 DEF Delivery
<1>4. CASE UNCHANGED argumentVars
  BY <1>4 DEF Delivery, argumentVars
<1> QED
  BY <1>1, <1>2, <1>3, <1>4 DEF ArgumentsNext

LEMMA DeliveryMeansOwn == Delivery => EachToItsOwn
<1> SUFFICES ASSUME Delivery, stage = "called" PROVE EachToItsOwn
  BY DEF EachToItsOwn
<1> DEFINE props == resolved.props
<1>1. /\ WellFormed(props) /\ ~Clashes(props) /\ json \in Inputs
      /\ argv \in CommandLines(props) /\ options \in Stored(props, argv)
      /\ input = Merged(props, options, json) /\ Valid(resolved, input)
  BY DEF Delivery
<1>2. ASSUME NEW n \in DOMAIN props, OwnAttribute(n)
      PROVE  IF Expected(n) = NoValue THEN n \notin DOMAIN input
             ELSE n \in DOMAIN input /\ input[n] = Expected(n)
  <2> DEFINE given == Given(props[n], argv, n)
             final == Reconverted(props[n], IF given # NoValue THEN given ELSE json[n])
  <2>1. Own(props, n)
    BY <1>2 DEF OwnAttribute, Own
  <2>2. /\ n \in DOMAIN input <=> given # NoValue \/ n \in DOMAIN json
        /\ n \in DOMAIN input => input[n] = final
    BY <1>1, <2>1, MergedForOwn
  <2>3. n \in DOMAIN input /\ props[n].type \in {"string", "int", "bool"} =>
          input[n].type = props[n].type
    BY <1>1 DEF Valid
  <2> HIDE DEF given, final
  <2>4. given = Given(props[n], argv, n)
        /\ final = Reconverted(props[n], IF given # NoValue THEN given ELSE json[n])
    BY DEF given, final
  <2>5. IF Expected(n) = NoValue THEN given = NoValue /\ n \notin DOMAIN json
        ELSE (given # NoValue \/ n \in DOMAIN json) /\ final = Expected(n)
    BY <1>1, <2>2, <2>3, <2>4, ExpectedForOwn
  <2> QED
    BY <2>2, <2>5
<1>3. ASSUME NEW n \in DOMAIN json \ DOMAIN props
      PROVE  n \in DOMAIN input /\ input[n] = json[n]
  BY <1>1, <1>3 DEF Merged, Reconvert, CollectInput, Present, Kwargs
<1>4. Listed(resolved.required) \subseteq DOMAIN input
  BY <1>1 DEF Valid
<1> QED
  BY <1>2, <1>3, <1>4 DEF EachToItsOwn

(* Each property with an attribute of its own, and a name it is looked for *)
(* by, gets what is meant for it.                                          *)
THEOREM DeliveryTheorem == ArgumentsSpec => []EachToItsOwn
<1>1. Delivery => EachToItsOwn
  BY DeliveryMeansOwn
<1> QED
  BY DeliveryInit, DeliveryNext, <1>1, PTL DEF ArgumentsSpec
=============================================================================
