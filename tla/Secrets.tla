------------------------------- MODULE Secrets -------------------------------
(***************************************************************************)
(* The API key on its way through src/config.ts, src/security/auth.ts and  *)
(* src/security/config-encryptor.ts: processes store it, in the keyring or *)
(* encrypted, the host saves the string they get in the configuration      *)
(* file, and processes, perhaps later ones with another environment,       *)
(* resolve it again for a request. Two processes may store at once: what   *)
(* the keyring holds is decided when it is written, not when store is      *)
(* called or returns.                                                      *)
(*                                                                         *)
(* A configuration string has a form: "plain" for the key itself,          *)
(* "keyring" for a reference, "v2" and "v1" for a ciphertext, which is the *)
(* value and the material and rounds its key was derived from. AES-GCM     *)
(* opens under that key and under no other.                                *)
(***************************************************************************)
EXTENDS Naturals, Sequences

CONSTANTS
  Processes,
  Keys,        \* API keys
  Broken,      \* those with a CR or LF inside
  Blank,       \* the empty string
  None,        \* not set
  Envs,        \* hosts, environments and flags a process may start with
  Legacy,      \* v1 strings that earlier versions left behind
  MaxStores,   \* bound: calls of store
  MaxChanges   \* bound: changes of keyring and host by others, and restarts

ASSUME EnvsAssumption ==
  /\ Broken \subseteq Keys /\ Blank # None /\ {Blank, None} \cap Keys = {}
  /\ \A e \in Envs :
       /\ e.flag \in Keys \cup {Blank, None} /\ e.api \in Keys \cup {Blank, None}
       /\ DOMAIN e.names = 1..3
  /\ MaxStores \in Nat /\ MaxChanges \in Nat

VARIABLES
  env,       \* process -> its host and environment
  loaded,    \* process -> keytar is imported (keytarModule)
  cache,     \* process -> the resolver's copy of the file, or what is no copy
  pc,        \* process -> "idle", "retrieving", or "reading" from the keyring
  held,      \* process -> the string being retrieved
  todo,      \* process -> the call of store that awaits the keyring
  made,      \* process -> what store returned and the host has not saved
  answer,    \* process -> how its last request for the key ended
  file,      \* the entry auth.api_key of the file, or why there is none
  keyring,   \* the entry of the keyring, or None
  installed, locked,  \* the keyring's state
  stores, changes,    \* counters
  begun,       \* history: the keys given to stores in the keyring, as they began
  finished,    \* history: those of them that have returned
  superseded,  \* history: those that had when another began which has returned
  writer,      \* history: the one that wrote the keyring last
  makers       \* history: ciphertext -> its key and the environment it was made in

keyringVars == <<keyring, installed, locked>>
counters == <<stores, changes>>
history == <<begun, finished, superseded, writer, makers>>
vars == <<env, loaded, cache, pc, held, todo, made, answer, file, keyringVars,
          counters, history>>

Plain(key) == [form |-> "plain", value |-> key, material |-> None, rounds |-> 0]
Reference == [form |-> "keyring", value |-> None, material |-> None, rounds |-> 0]
NoCopy == [form |-> "unread", value |-> None, material |-> None, rounds |-> 0]
Missing == [form |-> "missing", value |-> None, material |-> None, rounds |-> 0]
NoAnswer == [kind |-> "none", value |-> None]
NoStore == [step |-> "none", store |-> 0, after |-> {}]

Init ==
  /\ env \in [Processes -> Envs]
  /\ loaded = [p \in Processes |-> FALSE]
  /\ cache = [p \in Processes |-> NoCopy]
  /\ pc = [p \in Processes |-> "idle"]
  /\ held = [p \in Processes |-> Missing]
  /\ todo = [p \in Processes |-> NoStore]
  /\ made = [p \in Processes |-> Missing]
  /\ answer = [p \in Processes |-> NoAnswer]
  /\ file \in {Missing} \cup {Plain(k) : k \in Keys} \cup {l.string : l \in Legacy}
  /\ keyring = None /\ installed \in BOOLEAN /\ locked = FALSE
  /\ stores = 0 /\ changes = 0
  /\ begun = <<>> /\ finished = {} /\ superseded = {} /\ writer = 0
  /\ makers = [s \in {l.string : l \in Legacy} |->
                 [key |-> s.value, by |-> (CHOOSE l \in Legacy : l.string = s).maker]]

-----------------------------------------------------------------------------
(* ConfigEncryptor.                                                        *)

(* USER, LOGNAME, USERNAME: the first that is set, be it to nothing.       *)
UserName(e) ==
  IF \A i \in 1..3 : e.names[i] = None THEN "unknown"
  ELSE e.names[CHOOSE i \in 1..3 : e.names[i] # None /\ \A j \in 1..(i - 1) : e.names[j] = None]

Passphrase(e) == IF e.pass = Blank THEN None ELSE e.pass
WeakMaterial(e) == <<e.host, UserName(e)>>

(* deriveKey: the passphrase, or else what is no secret.                   *)
Material(e) ==
  IF Passphrase(e) # None THEN <<"passphrase", Passphrase(e)>> ELSE WeakMaterial(e)

Rounds == 600000
Sealed(form, key, material, rounds) ==
  [form |-> form, value |-> key, material |-> material, rounds |-> rounds]

(* What earlier versions left: their ciphertexts used other materials and  *)
(* numbers of rounds.                                                      *)
ASSUME LegacyAssumption ==
  \A l \in Legacy : /\ l.maker \in Envs
                    /\ \E k \in Keys, m \in {Material(l.maker), WeakMaterial(l.maker)},
                          n \in {Rounds, 100000} : l.string = Sealed("v1", k, m, n)

(* aesDecrypt and aesDecryptV1, which tries what earlier versions used.    *)
Opens(s, e) ==
  \/ s.form = "v2" /\ s.material = Material(e)
  \/ /\ s.form = "v1" /\ s.material \in {Material(e), WeakMaterial(e)}
     /\ s.rounds \in {Rounds, 100000}

(* getKeytar: an import that has succeeded stays.                          *)
Loads(p) == loaded[p] \/ installed
ImportKeytar(p) == loaded' = [loaded EXCEPT ![p] = Loads(p)]

(* store without a keyring: encrypted and returned without another await.  *)
StoreEncrypted(p, key) ==
  LET string == Sealed("v2", key, Material(env[p]), Rounds) IN
  /\ made' = [made EXCEPT ![p] = string]
  /\ makers' = [s \in DOMAIN makers \cup {string} |->
                  IF s = string THEN [key |-> key, by |-> env[p]] ELSE makers[s]]
  /\ UNCHANGED <<todo, begun>>

(* store with one: setPassword is awaited.                                 *)
StoreInKeyring(p, key) ==
  /\ begun' = Append(begun, key)
  /\ todo' = [todo EXCEPT ![p] = [step |-> "writing", store |-> Len(begun) + 1,
                                  after |-> finished]]
  /\ UNCHANGED <<made, makers>>

(* store up to the continuation of getKeytar.                              *)
Store(p, key) ==
  /\ todo[p] = NoStore
  /\ stores < MaxStores /\ stores' = stores + 1
  /\ ImportKeytar(p)
  /\ IF Loads(p) THEN StoreInKeyring(p, key) ELSE StoreEncrypted(p, key)
  /\ UNCHANGED <<env, cache, pc, held, answer, file, keyringVars, changes,
                 finished, superseded, writer>>

(* The keyring takes the key; one that refuses makes store throw.          *)
WriteKeyring(p) ==
  /\ todo[p].step = "writing"
  /\ IF locked
     THEN todo' = [todo EXCEPT ![p] = NoStore] /\ UNCHANGED <<keyring, writer>>
     ELSE /\ todo' = [todo EXCEPT ![p].step = "written"]
          /\ keyring' = begun[todo[p].store] /\ writer' = todo[p].store
  /\ UNCHANGED <<env, loaded, cache, pc, held, made, answer, file, installed,
                 locked, counters, begun, finished, superseded, makers>>

(* Variant with a bug: setPassword is not awaited, and the end of the      *)
(* process overtakes it.                                                   *)
StoreReturnsUnawaited(p) ==
  /\ todo[p] # NoStore
  /\ todo' = [todo EXCEPT ![p] = NoStore]
  /\ made' = [made EXCEPT ![p] = Reference]
  /\ finished' = finished \cup {todo[p].store}
  /\ superseded' = superseded \cup todo[p].after
  /\ UNCHANGED <<env, loaded, cache, pc, held, answer, file, keyringVars,
                 counters, begun, writer, makers>>

(* store goes on behind the await and returns the reference. What had      *)
(* returned before it began is superseded.                                 *)
StoreReturns(p) ==
  /\ todo[p].step = "written"
  /\ todo' = [todo EXCEPT ![p] = NoStore]
  /\ made' = [made EXCEPT ![p] = Reference]
  /\ finished' = finished \cup {todo[p].store}
  /\ superseded' = superseded \cup todo[p].after
  /\ UNCHANGED <<env, loaded, cache, pc, held, answer, file, keyringVars,
                 counters, begun, writer, makers>>

(* The host puts the string that store returned in the file.               *)
Save(p) ==
  /\ made[p] # Missing
  /\ file' = made[p] /\ made' = [made EXCEPT ![p] = Missing]
  /\ UNCHANGED <<env, loaded, cache, pc, held, todo, answer, keyringVars,
                 counters, history>>

-----------------------------------------------------------------------------
(* AuthProvider over ConfigResolver.                                       *)

FileCopy(p) == IF cache[p] = NoCopy THEN file ELSE cache[p]

(* resolve("auth.api_key", "--api-key", "APCORE_AUTH_API_KEY"): a flag is  *)
(* taken even if empty, a variable only if not; the file is read once.     *)
Resolve(p) ==
  IF env[p].flag # None THEN Plain(env[p].flag)
  ELSE IF env[p].api \notin {None, Blank} THEN Plain(env[p].api)
  ELSE FileCopy(p)
ReadsFile(p) == env[p].flag = None /\ env[p].api \in {None, Blank}

(* The request ends; a key that is sent is in its Authorization header.    *)
Ends(p, kind, key) ==
  /\ answer' = [answer EXCEPT ![p] = [kind |-> kind, value |-> key]]
  /\ held' = [held EXCEPT ![p] = Missing]
  /\ pc' = [pc EXCEPT ![p] = "idle"]

(* The rest of authenticateRequest, the key being there or not.            *)
UseKey(p, key) ==
  IF key \in {None, Blank} THEN Ends(p, "required", None)
  ELSE IF key \in Broken THEN Ends(p, "malformed", None)
  ELSE Ends(p, "sent", key)

(* authenticateRequest and getApiKey up to the retrieval.                  *)
Authenticate(p) ==
  /\ pc[p] = "idle"
  /\ cache' = IF ReadsFile(p) THEN [cache EXCEPT ![p] = FileCopy(p)] ELSE cache
  /\ IF Resolve(p).form \in {"keyring", "v2", "v1"}
     THEN /\ pc' = [pc EXCEPT ![p] = "retrieving"]
          /\ held' = [held EXCEPT ![p] = Resolve(p)]
          /\ answer' = [answer EXCEPT ![p] = NoAnswer]
     ELSE UseKey(p, Resolve(p).value)
  /\ UNCHANGED <<env, loaded, todo, made, file, keyringVars, counters, history>>

(* retrieve, by the form of the string, up to getPassword. Its error is an *)
(* AuthenticationError of getApiKey.                                       *)
Retrieve(p) ==
  /\ pc[p] = "retrieving"
  /\ IF held[p].form = "keyring"
     THEN /\ ImportKeytar(p)
          /\ IF Loads(p)
             THEN pc' = [pc EXCEPT ![p] = "reading"] /\ UNCHANGED <<held, answer>>
             ELSE Ends(p, "unreadable", None)
     ELSE /\ UNCHANGED loaded
          /\ IF Opens(held[p], env[p])
             THEN UseKey(p, held[p].value) ELSE Ends(p, "unreadable", None)
  /\ UNCHANGED <<env, cache, todo, made, file, keyringVars, counters, history>>

(* getPassword.                                                            *)
ReadKeyring(p) ==
  /\ pc[p] = "reading"
  /\ IF ~locked /\ keyring # None
     THEN UseKey(p, keyring) ELSE Ends(p, "unreadable", None)
  /\ UNCHANGED <<env, loaded, cache, todo, made, file, keyringVars, counters, history>>

-----------------------------------------------------------------------------
(* What happens around the processes.                                      *)

Change == changes < MaxChanges /\ changes' = changes + 1

(* A process ends, by a crash perhaps, in the middle of store or with what *)
(* it had not saved, and one with another environment starts.              *)
Restart(p, e) ==
  /\ Change
  /\ env' = [env EXCEPT ![p] = e]
  /\ loaded' = [loaded EXCEPT ![p] = FALSE]
  /\ cache' = [cache EXCEPT ![p] = NoCopy]
  /\ pc' = [pc EXCEPT ![p] = "idle"]
  /\ held' = [held EXCEPT ![p] = Missing]
  /\ todo' = [todo EXCEPT ![p] = NoStore]
  /\ made' = [made EXCEPT ![p] = Missing]
  /\ answer' = [answer EXCEPT ![p] = NoAnswer]
  /\ UNCHANGED <<file, keyringVars, stores, history>>

(* The host of a process that runs gets another name.                      *)
RenameHost(p, e) ==
  /\ Change
  /\ e # env[p] /\ e = [env[p] EXCEPT !.host = e.host]
  /\ env' = [env EXCEPT ![p] = e]
  /\ UNCHANGED <<loaded, cache, pc, held, todo, made, answer, file, keyringVars,
                 stores, history>>

(* The user removes the entry, locks the keyring, or installs it.          *)
ChangeKeyring ==
  /\ Change
  /\ \/ keyring # None /\ keyring' = None /\ UNCHANGED <<installed, locked>>
     \/ locked' = ~locked /\ UNCHANGED <<keyring, installed>>
     \/ installed' = ~installed /\ UNCHANGED <<keyring, locked>>
  /\ UNCHANGED <<env, loaded, cache, pc, held, todo, made, answer, file, stores,
                 history>>

Next ==
  \/ \E p \in Processes :
       \/ \E k \in Keys : Store(p, k)
       \/ WriteKeyring(p) \/ StoreReturns(p) \/ Save(p)
       \/ Authenticate(p) \/ Retrieve(p) \/ ReadKeyring(p)
       \/ \E e \in Envs : Restart(p, e) \/ RenameHost(p, e)
  \/ ChangeKeyring

Spec == Init /\ [][Next]_vars

-----------------------------------------------------------------------------
Strings == [form : {"plain", "keyring", "v2", "v1"}, value : Keys \cup {None, Blank},
            material : {None} \cup UNION {{Material(e), WeakMaterial(e)} : e \in Envs},
            rounds : {0, 100000, Rounds}]

TypeOK ==
  /\ env \in [Processes -> Envs]
  /\ loaded \in [Processes -> BOOLEAN]
  /\ cache \in [Processes -> Strings \cup {NoCopy, Missing}]
  /\ pc \in [Processes -> {"idle", "retrieving", "reading"}]
  /\ held \in [Processes -> Strings \cup {Missing}]
  /\ todo \in [Processes -> [step : {"none", "writing", "written"}, store : Nat,
                             after : SUBSET Nat]]
  /\ made \in [Processes -> Strings \cup {Missing}]
  /\ answer \in [Processes -> [kind : {"none", "sent", "required", "malformed", "unreadable"},
                               value : Keys \cup {None}]]
  /\ file \in Strings \cup {Missing}
  /\ keyring \in Keys \cup {None} /\ installed \in BOOLEAN /\ locked \in BOOLEAN
  /\ stores \in 0..MaxStores /\ changes \in 0..MaxChanges
  /\ begun \in Seq(Keys) /\ writer \in Nat
  /\ finished \subseteq Nat /\ superseded \subseteq Nat

(* The keyring is as a reference needs it; or the passphrase is the one of *)
(* the maker of the ciphertext and, where it was not used or there was     *)
(* none, so are user and host.                                             *)
Unchanged(s, p) ==
  IF s.form = "keyring" THEN installed /\ ~locked /\ keyring # None
  ELSE /\ s \in DOMAIN makers
       /\ Passphrase(makers[s].by) = Passphrase(env[p])
       /\ \/ s.form = "v2" /\ Passphrase(env[p]) # None
          \/ makers[s].by.host = env[p].host /\ UserName(makers[s].by) = UserName(env[p])

(* What may come out of the keyring: keys of stores none of which had      *)
(* returned before another began that has returned as well.                *)
Current == {begun[n] : n \in DOMAIN begun \ superseded}

(* What comes out is what went in, whichever process asks, after whatever  *)
(* restarts and renamings. A ciphertext gives the key it was made for. The *)
(* reference gives the key of a store that no later one has replaced; of   *)
(* stores that overlap, or were cut off behind the write, it may be any,   *)
(* also for the caller whose own store returned last. A string cannot be   *)
(* read only by a process with another passphrase or, without one, of      *)
(* another user or host, or while the keyring is locked, gone or emptied.  *)
RetrievedIsStored ==
  [][\A p \in Processes :
       pc[p] # "idle" /\ pc'[p] = "idle" /\ answer'[p] # NoAnswer =>
         LET s == held[p]
             given == IF s.form = "keyring" THEN Current ELSE {makers[s].key}
         IN
         /\ s.form = "keyring" \/ s \in DOMAIN makers =>
              /\ answer'[p].kind = "sent" => answer'[p].value \in given
              /\ answer'[p].kind = "malformed" => given \cap Broken # {}
         /\ answer'[p].kind = "unreadable" => ~Unchanged(s, p)]_vars
=============================================================================
