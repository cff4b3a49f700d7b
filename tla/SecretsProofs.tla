---------------------------- MODULE SecretsProofs -----------------------------
(***************************************************************************)
(* Proofs about Secrets for all processes, environments, keys and legacy   *)
(* strings: what is retrieved is what was stored. The invariant says what  *)
(* a configuration string stands for: there is one reference, the keyring  *)
(* holds the key of a store that nothing supersedes or nothing; a          *)
(* ciphertext carries its key, and its maker's environment opens it.       *)
(***************************************************************************)
EXTENDS Secrets, TLAPS

(* Where strings are, a keyring string is the one reference.               *)
Formed(s) == s.form = "keyring" => s = Reference
Circulating ==
  /\ Formed(file)
  /\ \A p \in Processes :
       /\ Formed(cache[p]) /\ Formed(held[p]) /\ Formed(made[p])
       /\ pc[p] = "retrieving" => held[p].form \in {"keyring", "v2", "v1"}
       /\ pc[p] = "reading" => held[p].form = "keyring"

(* The stores in the keyring: one that is under way is nobody else's and   *)
(* has not returned, and waits behind stores that have.                    *)
Ordered ==
  /\ superseded \subseteq finished /\ finished \subseteq DOMAIN begun
  /\ \A p \in Processes :
       todo[p].step # "none" =>
         /\ todo[p].store \in DOMAIN begun /\ todo[p].store \notin finished
         /\ todo[p].after \subseteq finished
         /\ \A q \in Processes :
              todo[q].step # "none" /\ todo[q].store = todo[p].store => q = p

(* Who wrote last is not superseded, nor will be by a store that has       *)
(* written and is about to return.                                         *)
Latest ==
  /\ writer \notin superseded
  /\ \A p \in Processes : todo[p].step = "written" => writer \notin todo[p].after
  /\ keyring # None => writer \in DOMAIN begun /\ begun[writer] = keyring

(* The environment a ciphertext was made in opens it.                      *)
Openable ==
  \A s \in DOMAIN makers :
    s.form \in {"v1", "v2"} /\ makers[s].key = s.value /\ Opens(s, makers[s].by)

IInv == TypeOK /\ Circulating /\ Ordered /\ Latest /\ Openable

(* RetrievedIsStored of one process.                                       *)
Given(s) == IF s.form = "keyring" THEN Current ELSE {makers[s].key}
Honest(p) ==
  pc[p] # "idle" /\ pc'[p] = "idle" /\ answer'[p] # NoAnswer =>
    /\ held[p].form = "keyring" \/ held[p] \in DOMAIN makers =>
         /\ answer'[p].kind = "sent" => answer'[p].value \in Given(held[p])
         /\ answer'[p].kind = "malformed" => Given(held[p]) \cap Broken # {}
    /\ answer'[p].kind = "unreadable" => ~Unchanged(held[p], p)

-----------------------------------------------------------------------------
(* Who shares with the maker what Unchanged asks for opens what the maker  *)
(* opens.                                                                  *)
LEMMA SameOpens ==
  ASSUME NEW e, NEW f, NEW s, Opens(s, e), Passphrase(e) = Passphrase(f),
         \/ s.form = "v2" /\ Passphrase(f) # None
         \/ e.host = f.host /\ UserName(e) = UserName(f)
  PROVE  Opens(s, f)
<1>1. Passphrase(f) # None => Material(e) = Material(f)
  BY DEF Material
<1>2. CASE s.form = "v2" /\ Passphrase(f) # None
  BY <1>1, <1>2 DEF Opens
<1>3. CASE e.host = f.host /\ UserName(e) = UserName(f)
  <2>1. WeakMaterial(e) = WeakMaterial(f)
    BY <1>3 DEF WeakMaterial
  <2>2. Material(e) = Material(f)
    BY <2>1 DEF Material
  <2> QED
    BY <2>1, <2>2 DEF Opens
<1> QED
  BY <1>2, <1>3

(* A ciphertext is opened where it is made.                                *)
LEMMA OpensOwn ==
  ASSUME NEW e, NEW k
  PROVE  Opens(Sealed("v2", k, Material(e), Rounds), e)
BY DEF Opens, Sealed

(* What the strings are.                                                   *)
LEMMA StringKinds ==
  /\ \A k \in Keys \cup {None, Blank} : Plain(k) \in Strings /\ Formed(Plain(k))
                                       /\ Plain(k) \notin {NoCopy, Missing}
                                       /\ Plain(k).value = k /\ Plain(k).form = "plain"
  /\ Reference \in Strings /\ Reference.form = "keyring"
  /\ \A f \in {"v1", "v2"}, k \in Keys, e \in Envs, r \in {100000, Rounds} :
     \A m \in {Material(e), WeakMaterial(e)} :
       /\ Sealed(f, k, m, r) \in Strings /\ Sealed(f, k, m, r).form = f
       /\ Sealed(f, k, m, r).value = k
  /\ \A s \in Strings : s # NoCopy /\ s # Missing
  /\ Missing.form = "missing" /\ NoCopy.form = "unread"
  /\ Formed(Missing) /\ Formed(NoCopy) /\ Missing # NoCopy
<1>1. \A e \in Envs : \A m \in {Material(e), WeakMaterial(e)} :
        m \in UNION {{Material(f), WeakMaterial(f)} : f \in Envs}
  OBVIOUS
<1>2. \A f \in {"v1", "v2"}, k \in Keys, e \in Envs, r \in {100000, Rounds} :
      \A m \in {Material(e), WeakMaterial(e)} : Sealed(f, k, m, r) \in Strings
  BY <1>1 DEF Sealed, Strings
<1> QED
  BY <1>2 DEF Plain, Strings, Reference, NoCopy, Missing, Sealed, Formed

(* What a legacy string is.                                                *)
LEMMA LegacyKinds ==
  ASSUME NEW l \in Legacy
  PROVE  /\ l.string \in Strings /\ l.string.form = "v1"
         /\ Opens(l.string, l.maker)
<1>1. PICK k \in Keys, m \in {Material(l.maker), WeakMaterial(l.maker)},
           n \in {Rounds, 100000} : l.string = Sealed("v1", k, m, n)
  BY LegacyAssumption
<1>2. l.maker \in Envs
  BY LegacyAssumption
<1>3. l.string \in Strings /\ l.string.form = "v1"
  BY <1>1, <1>2, StringKinds
<1>4. Opens(l.string, l.maker)
  BY <1>1 DEF Opens, Sealed
<1> QED
  BY <1>3, <1>4

-----------------------------------------------------------------------------
LEMMA InitIInv == Init => IInv
<1> SUFFICES ASSUME Init PROVE IInv
  OBVIOUS
<1>1. file \in Strings \cup {Missing} /\ Formed(file)
  <2>1. CASE file = Missing
    BY <2>1, StringKinds
  <2>2. CASE file \in {Plain(k) : k \in Keys}
    BY <2>2, StringKinds
  <2>3. CASE file \in {l.string : l \in Legacy}
    BY <2>3, LegacyKinds DEF Formed
  <2> QED
    BY <2>1, <2>2, <2>3 DEF Init
<1>2. TypeOK
  <2>1. stores \in 0..MaxStores /\ changes \in 0..MaxChanges
    BY EnvsAssumption DEF Init
  <2>2. /\ answer \in [Processes ->
             [kind : {"none", "sent", "required", "malformed", "unreadable"},
              value : Keys \cup {None}]]
        /\ todo \in [Processes -> [step : {"none", "writing", "written"}, store : Nat,
                                   after : SUBSET Nat]]
    BY DEF Init, NoAnswer, NoStore
  <2>3. /\ cache \in [Processes -> Strings \cup {NoCopy, Missing}]
        /\ held \in [Processes -> Strings \cup {Missing}]
        /\ made \in [Processes -> Strings \cup {Missing}]
    BY DEF Init
  <2>4. begun \in Seq(Keys) /\ writer \in Nat /\ finished \subseteq Nat /\ superseded \subseteq Nat
    BY DEF Init
  <2>5. /\ env \in [Processes -> Envs] /\ loaded \in [Processes -> BOOLEAN]
        /\ pc \in [Processes -> {"idle", "retrieving", "reading"}]
        /\ keyring \in Keys \cup {None} /\ installed \in BOOLEAN /\ locked \in BOOLEAN
    BY DEF Init
  <2> QED
    BY <1>1, <2>1, <2>2, <2>3, <2>4, <2>5 DEF TypeOK
<1>3. Circulating
  BY <1>1, StringKinds DEF Init, Circulating
<1>4. Ordered /\ Latest
  BY DEF Init, Ordered, Latest, NoStore
<1>5. Openable
  <2> SUFFICES ASSUME NEW s \in DOMAIN makers
               PROVE  /\ s.form \in {"v1", "v2"} /\ makers[s].key = s.value
                      /\ Opens(s, makers[s].by)
    BY DEF Openable
  <2>1. PICK l \in Legacy : l.string = s
    BY DEF Init
  <2> DEFINE m == CHOOSE j \in Legacy : j.string = s
  <2>2. m \in Legacy /\ m.string = s
    BY <2>1
  <2>3. makers[s].key = s.value /\ makers[s].by = m.maker
    BY DEF Init
  <2> HIDE DEF m
  <2> QED
    BY <2>2, <2>3, LegacyKinds
<1> QED
  BY <1>2, <1>3, <1>4, <1>5 DEF IInv

(* store up to the continuation of getKeytar.                              *)
LEMMA StoreKeeps ==
  ASSUME IInv, NEW p \in Processes, NEW key \in Keys, Store(p, key)
  PROVE  IInv'
<1>1. TypeOK /\ Circulating /\ Ordered /\ Latest /\ Openable
  BY DEF IInv
<1>2. env[p] \in Envs /\ Loads(p) \in BOOLEAN
  BY <1>1 DEF TypeOK, Loads
<1>3. /\ stores' \in 0..MaxStores
      /\ loaded' \in [Processes -> BOOLEAN]
      /\ UNCHANGED <<env, cache, pc, held, answer, file, keyring, installed, locked,
                     changes, finished, superseded, writer>>
      /\ todo[p] = NoStore
  BY <1>1, <1>2, EnvsAssumption DEF Store, ImportKeytar, TypeOK, keyringVars
<1>4. ASSUME StoreInKeyring(p, key) PROVE IInv'
  <2> DEFINE new == [step |-> "writing", store |-> Len(begun) + 1, after |-> finished]
  <2>1. /\ begun' = Append(begun, key) /\ todo' = [todo EXCEPT ![p] = new]
        /\ UNCHANGED <<made, makers>>
    BY <1>4 DEF StoreInKeyring
  <2>2. /\ new.step = "writing" /\ new.store = Len(begun) + 1 /\ new.after = finished
        /\ new \in [step : {"none", "writing", "written"}, store : Nat, after : SUBSET Nat]
    BY <1>1 DEF TypeOK
  <2>3. /\ begun' \in Seq(Keys) /\ DOMAIN begun \subseteq DOMAIN begun'
        /\ \A n \in DOMAIN begun : begun'[n] = begun[n]
        /\ Len(begun) + 1 \in DOMAIN begun' /\ Len(begun) + 1 \notin DOMAIN begun
    BY <1>1, <2>1 DEF TypeOK
  <2> HIDE DEF new
  <2>4. /\ \A q \in Processes : q # p => todo'[q] = todo[q]
        /\ todo'[p] = new
        /\ todo' \in [Processes -> [step : {"none", "writing", "written"}, store : Nat,
                                    after : SUBSET Nat]]
    BY <1>1, <2>1, <2>2 DEF TypeOK
  <2>5. TypeOK'
    BY <1>1, <1>3, <2>1, <2>3, <2>4 DEF TypeOK
  <2>6. Circulating'
    BY <1>1, <1>3, <2>1 DEF Circulating
  <2>7. Ordered'
    <3>1. superseded' \subseteq finished' /\ finished' \subseteq DOMAIN begun'
      BY <1>1, <1>3, <2>3 DEF Ordered
    <3>2. /\ new.store \in DOMAIN begun' /\ new.store \notin DOMAIN begun
          /\ new.store \notin finished /\ new.after = finished
      BY <1>1, <2>2, <2>3 DEF Ordered
    <3>3. \A q \in Processes : todo[q].step # "none" =>
            /\ todo[q].store \in DOMAIN begun /\ todo[q].store \in DOMAIN begun'
            /\ todo[q].store \notin finished /\ todo[q].after \subseteq finished
      BY <1>1, <2>3 DEF Ordered
    <3> QED
      BY <1>1, <1>3, <2>4, <3>1, <3>2, <3>3 DEF Ordered
  <2>8. Latest'
    BY <1>1, <1>3, <2>2, <2>3, <2>4 DEF Latest
  <2> QED
    BY <1>1, <2>1, <2>5, <2>6, <2>7, <2>8 DEF IInv, Openable
<1>5. ASSUME StoreEncrypted(p, key) PROVE IInv'
  <2> DEFINE string == Sealed("v2", key, Material(env[p]), Rounds)
  <2>1. /\ made' = [made EXCEPT ![p] = string]
        /\ makers' = [s \in DOMAIN makers \cup {string} |->
                        IF s = string THEN [key |-> key, by |-> env[p]] ELSE makers[s]]
        /\ UNCHANGED <<todo, begun>>
    BY <1>5 DEF StoreEncrypted
  <2>2. string \in Strings /\ string.form = "v2" /\ string.value = key
    BY <1>2, StringKinds
  <2>3. Opens(string, env[p])
    BY OpensOwn
  <2>4. Formed(string)
    BY <2>2, StringKinds DEF Formed
  <2> HIDE DEF string
  <2>5. made' \in [Processes -> Strings \cup {Missing}] /\ \A q \in Processes : Formed(made'[q])
    BY <1>1, <2>1, <2>2, <2>4 DEF TypeOK, Circulating
  <2>6. TypeOK'
    BY <1>1, <1>3, <2>1, <2>5 DEF TypeOK
  <2>7. Circulating'
    BY <1>1, <1>3, <2>5 DEF Circulating
  <2>8. Ordered' /\ Latest'
    BY <1>1, <1>3, <2>1 DEF Ordered, Latest
  <2>9. Openable'
    <3>1. \A s \in DOMAIN makers' :
            IF s = string THEN makers'[s].key = key /\ makers'[s].by = env[p]
                          ELSE s \in DOMAIN makers /\ makers'[s] = makers[s]
      BY <2>1
    <3> QED
      BY <1>1, <2>2, <2>3, <3>1 DEF Openable
  <2> QED
    BY <2>6, <2>7, <2>8, <2>9 DEF IInv
<1> QED
  BY <1>4, <1>5 DEF Store

(* setPassword: the writer has not returned, so nothing supersedes it.     *)
LEMMA WriteKeeps ==
  ASSUME IInv, NEW p \in Processes, WriteKeyring(p)
  PROVE  IInv'
<1>1. TypeOK /\ Circulating /\ Ordered /\ Latest /\ Openable
  BY DEF IInv
<1>2. /\ todo[p].step = "writing"
      /\ UNCHANGED <<env, loaded, cache, pc, held, made, answer, file, installed, locked,
                     stores, changes, begun, finished, superseded, makers>>
  BY DEF WriteKeyring, counters
<1>3. Circulating' /\ Openable'
  BY <1>1, <1>2 DEF Circulating, Openable
<1>4. ASSUME todo' = [todo EXCEPT ![p] = NoStore], UNCHANGED <<keyring, writer>>
      PROVE  IInv'
  <2>1. /\ \A q \in Processes : q # p => todo'[q] = todo[q]
        /\ todo'[p].step = "none"
        /\ todo' \in [Processes -> [step : {"none", "writing", "written"}, store : Nat,
                                    after : SUBSET Nat]]
    BY <1>1, <1>4 DEF TypeOK, NoStore
  <2>2. TypeOK'
    BY <1>1, <1>2, <1>4, <2>1 DEF TypeOK
  <2>3. Ordered' /\ Latest'
    BY <1>1, <1>2, <1>4, <2>1 DEF Ordered, Latest
  <2> QED
    BY <1>3, <2>2, <2>3 DEF IInv
<1>5. ASSUME todo' = [todo EXCEPT ![p].step = "written"],
             keyring' = begun[todo[p].store], writer' = todo[p].store
      PROVE  IInv'
  <2>1. /\ \A q \in Processes : q # p => todo'[q] = todo[q]
        /\ todo'[p].step = "written" /\ todo'[p].store = todo[p].store
        /\ todo'[p].after = todo[p].after
        /\ todo' \in [Processes -> [step : {"none", "writing", "written"}, store : Nat,
                                    after : SUBSET Nat]]
    <3> DEFINE new == [todo[p] EXCEPT !.step = "written"]
    <3>1. todo[p] \in [step : {"none", "writing", "written"}, store : Nat, after : SUBSET Nat]
      BY <1>1 DEF TypeOK
    <3>2. /\ new \in [step : {"none", "writing", "written"}, store : Nat, after : SUBSET Nat]
          /\ new.step = "written" /\ new.store = todo[p].store /\ new.after = todo[p].after
      BY <3>1
    <3>3. todo' = [todo EXCEPT ![p] = new]
      BY <1>5
    <3> HIDE DEF new
    <3> QED
      BY <1>1, <3>2, <3>3 DEF TypeOK
  <2>2. todo[p].store \in DOMAIN begun /\ todo[p].store \notin finished
    BY <1>1, <1>2 DEF Ordered
  <2>3. keyring' \in Keys /\ writer' \in Nat
    BY <1>1, <1>5, <2>2 DEF TypeOK
  <2>4. TypeOK'
    BY <1>1, <1>2, <2>1, <2>3 DEF TypeOK
  <2>5. Ordered'
    BY <1>1, <1>2, <2>1 DEF Ordered
  <2>6. \A q \in Processes : todo[q].step # "none" => writer' \notin todo[q].after
    BY <1>1, <1>5, <2>2 DEF Ordered
  <2>7. writer' \notin superseded
    BY <1>1, <1>5, <2>2 DEF Ordered
  <2>8. Latest'
    BY <1>1, <1>2, <1>5, <2>1, <2>2, <2>6, <2>7 DEF Latest
  <2> QED
    BY <1>3, <2>4, <2>5, <2>8 DEF IInv
<1> QED
  BY <1>4, <1>5 DEF WriteKeyring

(* The reference is returned: what was before is superseded, and the       *)
(* writer is not among it.                                                 *)
LEMMA ReturnKeeps ==
  ASSUME IInv, NEW p \in Processes, StoreReturns(p)
  PROVE  IInv'
<1>1. TypeOK /\ Circulating /\ Ordered /\ Latest /\ Openable
  BY DEF IInv
<1>2. /\ todo[p].step = "written" /\ todo' = [todo EXCEPT ![p] = NoStore]
      /\ made' = [made EXCEPT ![p] = Reference]
      /\ finished' = finished \cup {todo[p].store}
      /\ superseded' = superseded \cup todo[p].after
      /\ UNCHANGED <<env, loaded, cache, pc, held, answer, file, keyring, installed,
                     locked, stores, changes, begun, writer, makers>>
  BY DEF StoreReturns, keyringVars, counters
<1>3. /\ \A q \in Processes : q # p => todo'[q] = todo[q]
      /\ todo'[p].step = "none"
      /\ todo' \in [Processes -> [step : {"none", "writing", "written"}, store : Nat,
                                  after : SUBSET Nat]]
  BY <1>1, <1>2 DEF TypeOK, NoStore
<1>4. made' \in [Processes -> Strings \cup {Missing}] /\ \A q \in Processes : Formed(made'[q])
  BY <1>1, <1>2, StringKinds DEF TypeOK, Circulating, Formed
<1>5. todo[p].store \in Nat /\ todo[p].after \subseteq Nat
  BY <1>1 DEF TypeOK
<1>6. TypeOK'
  BY <1>1, <1>2, <1>3, <1>4, <1>5 DEF TypeOK
<1>7. Circulating'
  BY <1>1, <1>2, <1>4 DEF Circulating
<1>8. Ordered'
  BY <1>1, <1>2, <1>3 DEF Ordered
<1>9. Latest'
  BY <1>1, <1>2, <1>3 DEF Latest
<1> QED
  BY <1>1, <1>2, <1>6, <1>7, <1>8, <1>9 DEF IInv, Openable

(* How a request ends.                                                     *)
LEMMA EndFacts ==
  ASSUME TypeOK, NEW p \in Processes,
         NEW kind \in {"none", "sent", "required", "malformed", "unreadable"},
         NEW key \in Keys \cup {None}, Ends(p, kind, key)
  PROVE  /\ pc' = [pc EXCEPT ![p] = "idle"]
         /\ answer' \in [Processes -> [kind : {"none", "sent", "required", "malformed", "unreadable"},
                                       value : Keys \cup {None}]]
         /\ held' = [held EXCEPT ![p] = Missing]
         /\ answer'[p].kind = kind /\ answer'[p].value = key
<1> DEFINE new == [kind |-> kind, value |-> key]
<1>1. /\ new \in [kind : {"none", "sent", "required", "malformed", "unreadable"},
                  value : Keys \cup {None}]
      /\ new.kind = kind /\ new.value = key
  OBVIOUS
<1>2. answer' = [answer EXCEPT ![p] = new]
  BY DEF Ends
<1> HIDE DEF new
<1>3. answer'[p] = new
  BY <1>2 DEF TypeOK
<1> QED
  BY <1>1, <1>2, <1>3 DEF Ends, TypeOK

LEMMA EndsFacts ==
  ASSUME TypeOK, NEW p \in Processes, NEW key \in Keys \cup {None, Blank}, UseKey(p, key)
  PROVE  /\ pc' = [pc EXCEPT ![p] = "idle"]
         /\ answer' \in [Processes -> [kind : {"none", "sent", "required", "malformed", "unreadable"},
                                       value : Keys \cup {None}]]
         /\ held' = [held EXCEPT ![p] = Missing]
         /\ answer'[p].kind # "unreadable"
         /\ answer'[p].kind = "sent" => answer'[p].value = key
         /\ answer'[p].kind = "malformed" => key \in Broken
<1>1. CASE key \in {None, Blank}
  <2>1. Ends(p, "required", None)
    BY <1>1 DEF UseKey
  <2> QED
    BY <2>1, EndFacts
<1>2. CASE key \notin {None, Blank} /\ key \in Broken
  <2>1. Ends(p, "malformed", None)
    BY <1>2 DEF UseKey
  <2> QED
    BY <1>2, <2>1, EndFacts
<1>3. CASE key \notin {None, Blank} /\ key \notin Broken
  <2>1. Ends(p, "sent", key) /\ key \in Keys
    BY <1>3 DEF UseKey
  <2> QED
    BY <2>1, EndFacts
<1> QED
  BY <1>1, <1>2, <1>3

LEMMA UnreadableFacts ==
  ASSUME TypeOK, NEW p \in Processes, Ends(p, "unreadable", None)
  PROVE  /\ pc' = [pc EXCEPT ![p] = "idle"]
         /\ answer' \in [Processes -> [kind : {"none", "sent", "required", "malformed", "unreadable"},
                                       value : Keys \cup {None}]]
         /\ held' = [held EXCEPT ![p] = Missing]
         /\ answer'[p].kind = "unreadable"
BY EndFacts

(* What is resolved.                                                       *)
LEMMA ResolveFacts ==
  ASSUME IInv, NEW p \in Processes
  PROVE  /\ FileCopy(p) \in Strings \cup {Missing} /\ Formed(FileCopy(p))
         /\ Resolve(p) \in Strings \cup {Missing} /\ Formed(Resolve(p))
         /\ Resolve(p).value \in Keys \cup {None, Blank}
<1>1. TypeOK /\ Circulating
  BY DEF IInv
<1>2. FileCopy(p) \in Strings \cup {Missing} /\ Formed(FileCopy(p))
  BY <1>1 DEF TypeOK, Circulating, FileCopy
<1>3. /\ env[p].flag \in Keys \cup {Blank, None}
      /\ env[p].api \in Keys \cup {Blank, None}
  BY <1>1, EnvsAssumption DEF TypeOK
<1>4. Resolve(p) \in Strings \cup {Missing} /\ Formed(Resolve(p))
  <2>1. CASE env[p].flag # None
    BY <1>3, <2>1, StringKinds DEF Resolve
  <2>2. CASE env[p].flag = None /\ env[p].api \notin {None, Blank}
    BY <1>3, <2>2, StringKinds DEF Resolve
  <2>3. CASE env[p].flag = None /\ env[p].api \in {None, Blank}
    BY <1>2, <2>3 DEF Resolve
  <2> QED
    BY <2>1, <2>2, <2>3
<1>5. \A s \in Strings \cup {Missing} : s.value \in Keys \cup {None, Blank}
  BY DEF Strings, Missing
<1> QED
  BY <1>2, <1>4, <1>5

(* A request that ends touches nothing else of the invariant.              *)
LEMMA EndingKeeps ==
  ASSUME TypeOK, Circulating, NEW p \in Processes,
         pc' = [pc EXCEPT ![p] = "idle"], held' = [held EXCEPT ![p] = Missing],
         answer' \in [Processes -> [kind : {"none", "sent", "required", "malformed", "unreadable"},
                                    value : Keys \cup {None}]],
         loaded' \in [Processes -> BOOLEAN],
         cache' \in [Processes -> Strings \cup {NoCopy, Missing}],
         \A q \in Processes : Formed(cache'[q]),
         UNCHANGED <<env, todo, made, file, keyring, installed, locked, stores, changes,
                     begun, finished, superseded, writer>>
  PROVE  TypeOK' /\ Circulating'
<1>1. /\ pc' \in [Processes -> {"idle", "retrieving", "reading"}]
      /\ held' \in [Processes -> Strings \cup {Missing}]
      /\ pc'[p] = "idle" /\ held'[p] = Missing
      /\ \A q \in Processes : q # p => pc'[q] = pc[q] /\ held'[q] = held[q]
  BY DEF TypeOK
<1>2. TypeOK'
  BY <1>1 DEF TypeOK
<1>3. Circulating'
  BY <1>1, StringKinds DEF Circulating
<1> QED
  BY <1>2, <1>3

(* A request up to the retrieval.                                          *)
LEMMA AuthenticateKeeps ==
  ASSUME IInv, NEW p \in Processes, Authenticate(p)
  PROVE  IInv'
<1>1. TypeOK /\ Circulating /\ Ordered /\ Latest /\ Openable
  BY DEF IInv
<1>2. /\ cache' \in [Processes -> Strings \cup {NoCopy, Missing}]
      /\ \A q \in Processes : Formed(cache'[q])
  BY <1>1, ResolveFacts DEF Authenticate, TypeOK, Circulating
<1>3. UNCHANGED <<env, loaded, todo, made, file, keyring, installed, locked, stores,
                  changes, begun, finished, superseded, writer, makers>>
  BY DEF Authenticate, keyringVars, counters, history
<1>4. Ordered' /\ Latest' /\ Openable'
  BY <1>1, <1>3 DEF Ordered, Latest, Openable
<1>5. pc[p] = "idle"
  BY DEF Authenticate
<1>6. CASE Resolve(p).form \in {"keyring", "v2", "v1"}
  <2>1. /\ pc' = [pc EXCEPT ![p] = "retrieving"]
        /\ held' = [held EXCEPT ![p] = Resolve(p)]
        /\ answer' = [answer EXCEPT ![p] = NoAnswer]
    BY <1>6 DEF Authenticate
  <2>2. /\ held' \in [Processes -> Strings \cup {Missing}]
        /\ pc' \in [Processes -> {"idle", "retrieving", "reading"}]
        /\ answer' \in [Processes -> [kind : {"none", "sent", "required", "malformed", "unreadable"},
                                      value : Keys \cup {None}]]
    BY <1>1, <2>1, ResolveFacts DEF TypeOK, NoAnswer
  <2>3. \A q \in Processes :
          /\ Formed(held'[q])
          /\ pc'[q] = "retrieving" => held'[q].form \in {"keyring", "v2", "v1"}
          /\ pc'[q] = "reading" => held'[q].form = "keyring"
    BY <1>1, <1>6, <2>1, ResolveFacts DEF TypeOK, Circulating
  <2> QED
    BY <1>1, <1>2, <1>3, <1>4, <2>2, <2>3 DEF IInv, TypeOK, Circulating
<1>7. CASE Resolve(p).form \notin {"keyring", "v2", "v1"}
  <2>1. UseKey(p, Resolve(p).value)
    BY <1>7 DEF Authenticate
  <2>2. /\ pc' = [pc EXCEPT ![p] = "idle"]
        /\ answer' \in [Processes -> [kind : {"none", "sent", "required", "malformed", "unreadable"},
                                      value : Keys \cup {None}]]
        /\ held' = [held EXCEPT ![p] = Missing]
    BY <1>1, <2>1, ResolveFacts, EndsFacts
  <2>3. loaded' \in [Processes -> BOOLEAN]
    BY <1>1, <1>3 DEF TypeOK
  <2>4. TypeOK' /\ Circulating'
    BY <1>1, <1>2, <1>3, <2>2, <2>3, EndingKeeps
  <2> QED
    BY <1>4, <2>4 DEF IInv
<1> QED
  BY <1>6, <1>7

(* What retrieve and getPassword leave alone.                              *)
LEMMA RetrievalFrame ==
  ASSUME IInv, NEW p \in Processes, Retrieve(p) \/ ReadKeyring(p)
  PROVE  /\ UNCHANGED <<env, cache, todo, made, file, keyring, installed, locked, stores,
                        changes, begun, finished, superseded, writer, makers>>
         /\ loaded' \in [Processes -> BOOLEAN]
         /\ held[p].form \in {"keyring", "v2", "v1"} /\ held[p] \in Strings
         /\ held[p].value \in Keys \cup {None, Blank}
<1>1. TypeOK /\ Circulating
  BY DEF IInv
<1>2. Loads(p) \in BOOLEAN
  BY <1>1 DEF Loads, TypeOK
<1>3. held[p].form \in {"keyring", "v2", "v1"} /\ held[p] \in Strings
  BY <1>1, StringKinds DEF Retrieve, ReadKeyring, Circulating, TypeOK
<1>4. held[p].value \in Keys \cup {None, Blank}
  BY <1>3 DEF Strings
<1>5. CASE Retrieve(p)
  BY <1>1, <1>2, <1>3, <1>4, <1>5
  DEF Retrieve, keyringVars, counters, history, ImportKeytar, TypeOK
<1>6. CASE ReadKeyring(p)
  BY <1>1, <1>3, <1>4, <1>6 DEF ReadKeyring, keyringVars, counters, history, TypeOK
<1> QED
  BY <1>5, <1>6

(* retrieve keeps the invariant, and its answer is honest.                 *)
LEMMA RetrieveKeeps ==
  ASSUME IInv, NEW p \in Processes, Retrieve(p)
  PROVE  IInv' /\ Honest(p)
<1>1. TypeOK /\ Circulating /\ Ordered /\ Latest /\ Openable
  BY DEF IInv
<1> DEFINE s == held[p]
<1>2. /\ UNCHANGED <<env, cache, todo, made, file, keyring, installed, locked, stores,
                     changes, begun, finished, superseded, writer, makers>>
      /\ loaded' \in [Processes -> BOOLEAN]
      /\ s.form \in {"keyring", "v2", "v1"} /\ s \in Strings
      /\ s.value \in Keys \cup {None, Blank}
  BY RetrievalFrame
<1>3. Ordered' /\ Latest' /\ Openable'
  BY <1>1, <1>2 DEF Ordered, Latest, Openable
<1>4. ASSUME NEW key \in Keys \cup {None, Blank},
             UseKey(p, key) \/ Ends(p, "unreadable", None)
      PROVE  IInv'
  <2>1. /\ pc' = [pc EXCEPT ![p] = "idle"]
        /\ answer' \in [Processes -> [kind : {"none", "sent", "required", "malformed", "unreadable"},
                                      value : Keys \cup {None}]]
        /\ held' = [held EXCEPT ![p] = Missing]
    BY <1>1, <1>4, EndsFacts, UnreadableFacts
  <2>2. /\ cache' \in [Processes -> Strings \cup {NoCopy, Missing}]
        /\ \A q \in Processes : Formed(cache'[q])
    BY <1>1, <1>2 DEF TypeOK, Circulating
  <2>3. TypeOK' /\ Circulating'
    BY <1>1, <1>2, <2>1, <2>2, EndingKeeps
  <2> QED
    BY <1>3, <2>3 DEF IInv
<1>5. CASE s.form = "keyring" /\ Loads(p)
  <2>1. pc' = [pc EXCEPT ![p] = "reading"] /\ UNCHANGED <<held, answer>>
    BY <1>5 DEF Retrieve
  <2>2. pc' \in [Processes -> {"idle", "retrieving", "reading"}] /\ pc'[p] # "idle"
    BY <1>1, <2>1 DEF TypeOK
  <2>3. TypeOK' /\ Circulating'
    BY <1>1, <1>2, <1>5, <2>1, <2>2 DEF TypeOK, Circulating
  <2> QED
    BY <1>3, <2>2, <2>3 DEF IInv, Honest
<1>6. CASE s.form = "keyring" /\ ~Loads(p)
  <2>1. Ends(p, "unreadable", None)
    BY <1>6 DEF Retrieve
  <2>2. ~Unchanged(s, p)
    BY <1>6 DEF Unchanged, Loads
  <2>3. answer'[p].kind = "unreadable"
    BY <1>1, <2>1, UnreadableFacts
  <2> QED
    BY <1>2, <1>4, <2>1, <2>2, <2>3 DEF Honest
<1>7. CASE s.form # "keyring" /\ Opens(s, env[p])
  <2>1. UseKey(p, s.value)
    BY <1>7 DEF Retrieve
  <2>2. s \in DOMAIN makers => makers[s].key = s.value
    BY <1>1 DEF Openable
  <2>3. /\ answer'[p].kind # "unreadable"
        /\ answer'[p].kind = "sent" => answer'[p].value = s.value
        /\ answer'[p].kind = "malformed" => s.value \in Broken
    BY <1>1, <1>2, <2>1, EndsFacts
  <2> QED
    BY <1>2, <1>4, <1>7, <2>1, <2>2, <2>3 DEF Honest, Given
<1>8. CASE s.form # "keyring" /\ ~Opens(s, env[p])
  <2>1. Ends(p, "unreadable", None)
    BY <1>8 DEF Retrieve
  <2>2. ~Unchanged(s, p)
    BY <1>1, <1>8, SameOpens DEF Unchanged, Openable
  <2>3. answer'[p].kind = "unreadable"
    BY <1>1, <2>1, UnreadableFacts
  <2> QED
    BY <1>2, <1>4, <2>1, <2>2, <2>3 DEF Honest
<1> QED
  BY <1>5, <1>6, <1>7, <1>8

(* What getPassword gives is of a store that nothing supersedes.           *)
LEMMA ReadKeeps ==
  ASSUME IInv, NEW p \in Processes, ReadKeyring(p)
  PROVE  IInv' /\ Honest(p)
<1>1. TypeOK /\ Circulating /\ Ordered /\ Latest /\ Openable
  BY DEF IInv
<1>2. /\ UNCHANGED <<env, cache, todo, made, file, keyring, installed, locked, stores,
                     changes, begun, finished, superseded, writer, makers>>
      /\ loaded' \in [Processes -> BOOLEAN]
  BY RetrievalFrame
<1>3. Ordered' /\ Latest' /\ Openable'
  BY <1>1, <1>2 DEF Ordered, Latest, Openable
<1>4. held[p].form = "keyring" /\ keyring \in Keys \cup {None}
  BY <1>1 DEF ReadKeyring, Circulating, TypeOK
<1>5. ASSUME NEW key \in Keys \cup {None, Blank},
             UseKey(p, key) \/ Ends(p, "unreadable", None)
      PROVE  IInv'
  <2>1. /\ pc' = [pc EXCEPT ![p] = "idle"]
        /\ answer' \in [Processes -> [kind : {"none", "sent", "required", "malformed", "unreadable"},
                                      value : Keys \cup {None}]]
        /\ held' = [held EXCEPT ![p] = Missing]
    BY <1>1, <1>5, EndsFacts, UnreadableFacts
  <2>2. /\ cache' \in [Processes -> Strings \cup {NoCopy, Missing}]
        /\ \A q \in Processes : Formed(cache'[q])
    BY <1>1, <1>2 DEF TypeOK, Circulating
  <2>3. TypeOK' /\ Circulating'
    BY <1>1, <1>2, <2>1, <2>2, EndingKeeps
  <2> QED
    BY <1>3, <2>3 DEF IInv
<1>6. CASE ~locked /\ keyring # None
  <2>1. UseKey(p, keyring)
    BY <1>6 DEF ReadKeyring
  <2>2. keyring \in Current
    BY <1>1, <1>6 DEF Latest, Current
  <2>3. /\ answer'[p].kind # "unreadable"
        /\ answer'[p].kind = "sent" => answer'[p].value = keyring
        /\ answer'[p].kind = "malformed" => keyring \in Broken
    BY <1>1, <1>4, <2>1, EndsFacts
  <2> QED
    BY <1>4, <1>5, <2>1, <2>2, <2>3 DEF Honest, Given
<1>7. CASE ~(~locked /\ keyring # None)
  <2>1. Ends(p, "unreadable", None)
    BY <1>7 DEF ReadKeyring
  <2>2. ~Unchanged(held[p], p)
    BY <1>4, <1>7 DEF Unchanged
  <2>3. answer'[p].kind = "unreadable"
    BY <1>1, <2>1, UnreadableFacts
  <2> QED
    BY <1>5, <2>1, <2>2, <2>3 DEF Honest
<1> QED
  BY <1>6, <1>7

(* Saving, a new process, another name of the host, and the user's changes *)
(* of the keyring.                                                         *)
LEMMA OthersKeep ==
  ASSUME IInv,
         \/ \E p \in Processes : Save(p) \/ \E e \in Envs : Restart(p, e) \/ RenameHost(p, e)
         \/ ChangeKeyring
         \/ UNCHANGED vars
  PROVE  IInv'
<1>1. TypeOK /\ Circulating /\ Ordered /\ Latest /\ Openable
  BY DEF IInv
<1>2. ASSUME NEW p \in Processes, Save(p) PROVE IInv'
  <2>1. /\ file' = made[p] /\ made[p] # Missing /\ made' = [made EXCEPT ![p] = Missing]
        /\ UNCHANGED <<env, loaded, cache, pc, held, todo, answer, keyring, installed,
                       locked, stores, changes, begun, finished, superseded, writer, makers>>
    BY <1>2 DEF Save, keyringVars, counters, history
  <2>2. TypeOK'
    BY <1>1, <2>1 DEF TypeOK
  <2>3. Circulating'
    BY <1>1, <2>1, StringKinds DEF TypeOK, Circulating
  <2> QED
    BY <1>1, <2>1, <2>2, <2>3 DEF IInv, Ordered, Latest, Openable
<1>3. ASSUME NEW p \in Processes, NEW e \in Envs, Restart(p, e) PROVE IInv'
  <2>1. changes' \in 0..MaxChanges
    BY <1>1, <1>3, EnvsAssumption DEF Restart, Change, TypeOK
  <2>2. /\ answer' \in [Processes -> [kind : {"none", "sent", "required", "malformed", "unreadable"},
                                      value : Keys \cup {None}]]
        /\ todo' \in [Processes -> [step : {"none", "writing", "written"}, store : Nat,
                                    after : SUBSET Nat]]
    BY <1>1, <1>3 DEF Restart, TypeOK, NoAnswer, NoStore
  <2>3. UNCHANGED <<file, keyring, installed, locked, stores, begun, finished, superseded,
                    writer, makers>>
    BY <1>3 DEF Restart, keyringVars, history
  <2>4. TypeOK'
    BY <1>1, <1>3, <2>1, <2>2, <2>3 DEF Restart, TypeOK
  <2>5. Circulating'
    BY <1>1, <1>3, StringKinds DEF Restart, TypeOK, Circulating
  <2>6. /\ \A q \in Processes : q # p => todo'[q] = todo[q]
        /\ todo'[p].step = "none"
    BY <1>1, <1>3 DEF Restart, TypeOK, NoStore
  <2> QED
    BY <1>1, <2>3, <2>4, <2>5, <2>6 DEF IInv, Ordered, Latest, Openable
<1>4. ASSUME NEW p \in Processes, NEW e \in Envs, RenameHost(p, e) PROVE IInv'
  <2>1. changes' \in 0..MaxChanges
    BY <1>1, <1>4, EnvsAssumption DEF RenameHost, Change, TypeOK
  <2>2. /\ env' = [env EXCEPT ![p] = e]
        /\ UNCHANGED <<loaded, cache, pc, held, todo, made, answer, file, keyring,
                       installed, locked, stores, begun, finished, superseded, writer, makers>>
    BY <1>4 DEF RenameHost, keyringVars, history
  <2>3. TypeOK'
    BY <1>1, <2>1, <2>2 DEF TypeOK
  <2> QED
    BY <1>1, <2>2, <2>3 DEF IInv, Circulating, Ordered, Latest, Openable
<1>5. CASE ChangeKeyring
  <2>1. /\ UNCHANGED <<env, loaded, cache, pc, held, todo, made, answer, file, stores,
                       begun, finished, superseded, writer, makers>>
    BY <1>5 DEF ChangeKeyring, history
  <2>2. changes' \in 0..MaxChanges
    BY <1>1, <1>5, EnvsAssumption DEF ChangeKeyring, Change, TypeOK
  <2>3. keyring' \in {keyring, None} /\ installed' \in BOOLEAN /\ locked' \in BOOLEAN
    <3>1. installed \in BOOLEAN /\ locked \in BOOLEAN
      BY <1>1 DEF TypeOK
    <3> QED
      BY <1>5, <3>1, Zenon DEF ChangeKeyring
  <2>4. TypeOK'
    BY <1>1, <2>1, <2>2, <2>3 DEF TypeOK
  <2> QED
    BY <1>1, <2>1, <2>3, <2>4 DEF IInv, Circulating, Ordered, Latest, Openable
<1>6. CASE UNCHANGED vars
  BY <1>1, <1>6
  DEF vars, keyringVars, counters, history, IInv, TypeOK, Circulating, Ordered, Latest,
      Openable
<1> QED
  BY <1>2, <1>3, <1>4, <1>5, <1>6

-----------------------------------------------------------------------------
LEMMA NextIInv == IInv /\ [Next]_vars => IInv'
BY StoreKeeps, WriteKeeps, ReturnKeeps, AuthenticateKeeps, RetrieveKeeps, ReadKeeps,
   OthersKeep
DEF Next

(* The invariant holds of every run.                                       *)
THEOREM Inductive == Spec => []IInv
BY InitIInv, NextIInv, PTL DEF Spec

(* Types are kept: in particular no empty key is ever sent.                *)
THEOREM TypeCorrect == Spec => []TypeOK
<1>1. IInv => TypeOK
  BY DEF IInv
<1> QED
  BY <1>1, Inductive, PTL

(* What comes out is what went in, for every number of processes, however  *)
(* their stores and requests interleave, with every restart, renaming of   *)
(* the host and change of the keyring.                                     *)
THEOREM RetrievalIsHonest == Spec => RetrievedIsStored
<1> DEFINE AllHonest == \A p \in Processes : Honest(p)
<1>1. IInv /\ [Next]_vars => AllHonest
  <2> SUFFICES ASSUME IInv, [Next]_vars, NEW p \in Processes,
                      pc[p] # "idle", pc'[p] = "idle", answer'[p] # NoAnswer
               PROVE  Honest(p)
    BY DEF Honest
  <2>1. TypeOK
    BY DEF IInv
  <2>2. ASSUME NEW q \in Processes,
               \/ \E k \in Keys : Store(q, k)
               \/ WriteKeyring(q) \/ StoreReturns(q) \/ Save(q)
        PROVE  FALSE
    BY <2>2 DEF Store, WriteKeyring, StoreReturns, Save
  <2>3. ASSUME NEW q \in Processes, Authenticate(q) PROVE FALSE
    BY <2>1, <2>3 DEF Authenticate, UseKey, Ends, TypeOK
  <2>4. ASSUME NEW q \in Processes, Retrieve(q) \/ ReadKeyring(q) PROVE Honest(p)
    <3>1. CASE q = p
      BY <2>4, <3>1, RetrieveKeeps, ReadKeeps
    <3>2. CASE q # p
      BY <2>1, <2>4, <3>2 DEF Retrieve, ReadKeyring, UseKey, Ends, TypeOK
    <3> QED
      BY <3>1, <3>2
  <2>5. ASSUME NEW q \in Processes, NEW e \in Envs, Restart(q, e) PROVE FALSE
    BY <2>1, <2>5 DEF Restart, TypeOK
  <2>6. ASSUME NEW q \in Processes, NEW e \in Envs, RenameHost(q, e) PROVE FALSE
    BY <2>6 DEF RenameHost
  <2>7. CASE ChangeKeyring
    BY <2>7 DEF ChangeKeyring
  <2>8. CASE UNCHANGED vars
    BY <2>8 DEF vars
  <2> QED
    BY <2>2, <2>3, <2>4, <2>5, <2>6, <2>7, <2>8 DEF Next
<1>2. AllHonest <=>
        \A p \in Processes :
          pc[p] # "idle" /\ pc'[p] = "idle" /\ answer'[p] # NoAnswer =>
            LET s == held[p]
                given == IF s.form = "keyring" THEN Current ELSE {makers[s].key}
            IN
            /\ s.form = "keyring" \/ s \in DOMAIN makers =>
                 /\ answer'[p].kind = "sent" => answer'[p].value \in given
                 /\ answer'[p].kind = "malformed" => given \cap Broken # {}
            /\ answer'[p].kind = "unreadable" => ~Unchanged(s, p)
  BY DEF Honest, Given
<1> QED
  BY <1>1, <1>2, Inductive, PTL DEF Spec, RetrievedIsStored
=============================================================================
