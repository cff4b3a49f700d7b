------------------------------ MODULE MCSecrets ------------------------------
(* TLC instance of Secrets: environments with a passphrase, a blank one,   *)
(* none and two user names, two of which differ in the host alone, one     *)
(* with the key in a variable and one with an empty flag; one legacy       *)
(* string.                                                                 *)
EXTENDS Secrets, TLC

Environment(pass, names) ==
  [host |-> "a", pass |-> pass, names |-> names, flag |-> None, api |-> None]

MCEnvs == {
  Environment("secret", <<None, "ann", "bob">>),
  Environment(None, <<None, "ann", "bob">>),
  [Environment(None, <<None, "ann", "bob">>) EXCEPT !.host = "b"],
  [Environment(Blank, <<"ann", None, None>>) EXCEPT !.flag = Blank, !.api = "k1"],
  [Environment(None, <<None, None, None>>) EXCEPT !.api = "k1"] }

(* Made by a version that did not use the passphrase yet.                  *)
MCLegacy ==
  {[string |-> Sealed("v1", "k1", WeakMaterial(e), 100000), maker |-> e] :
     e \in {d \in MCEnvs : d.pass = "secret"}}

AnyProcess == Permutations(Processes)
=============================================================================
