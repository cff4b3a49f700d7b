----------------------------- MODULE MCStartup ------------------------------
(* TLC instance of Startup: three executors, one for each thing setAcl can *)
(* do, one of them without the system modules. The options vary one        *)
(* concern at a time around a host with registry and executor: the rules   *)
(* and their tiers, the clients, the visibility, the extra commands.       *)
EXTENDS Startup

MCSetAcl == [e \in {"able", "old", "refusing"} |->
  CASE e = "able" -> "works" [] e = "old" -> "absent" [] OTHER -> "throws"]
MCAsks == {"able", "old"}
MCHasSystem == {"able", "refusing"}

Plain ==
  [client |-> "both", executor |-> "able", acl |-> "unset", configured |-> {},
   group |-> "config", shape |-> "absent", mode |-> "auto", listed |-> {},
   sealed |-> FALSE, name |-> "apcli",
   instance |-> [name |-> "apcli", injected |-> TRUE, tier1 |-> TRUE],
   env |-> "unset", expose |-> "ok", extras |-> <<>>]

RuleOptions ==
  {[Plain EXCEPT !.acl = a, !.configured = c] :
     a \in {"empty", "path"}, c \in SUBSET {"env", "yaml"}}
  \cup {[Plain EXCEPT !.acl = a, !.executor = e] :
     a \in {"unset", "path", "object"}, e \in {"able", "old", "refusing"}}

ClientOptions ==
  {[Plain EXCEPT !.client = c] : c \in {"executor", "app", "appAndRegistry"}}
  \cup {[Plain EXCEPT !.client = c, !.configured = t] :
          c \in {"none", "registry"}, t \in {{}, {"given"}}}

GroupOptions ==
  {[Plain EXCEPT !.group = g, !.shape = s, !.env = v] :
     g \in {"config", "yaml"}, s \in {"true", "absent", "wrong"},
     v \in {"unset", "none"}}
  \cup {[Plain EXCEPT !.group = "yaml", !.shape = "object", !.mode = m,
                      !.listed = {"health", "list"}, !.sealed = s, !.env = v] :
     m \in {"auto", "include", "exclude"}, s \in BOOLEAN, v \in {"unset", "all"}}
  \cup {[Plain EXCEPT !.group = "instance", !.shape = "true", !.name = n,
                      !.instance.tier1 = t, !.instance.name = "tools"] :
     n \in {"apcli", "tools"}, t \in BOOLEAN}
  \cup {[Plain EXCEPT !.shape = "false", !.env = "all"],
        [Plain EXCEPT !.shape = "object", !.mode = "bad"],
        [Plain EXCEPT !.shape = "object", !.mode = "include", !.env = "all",
                      !.listed = {"health", "list"}],
        [Plain EXCEPT !.group = "instance", !.name = "tools"],
        [Plain EXCEPT !.name = "Bad name"], [Plain EXCEPT !.expose = "bad"]}
  \cup {[Plain EXCEPT !.extras = x] :
     x \in {<<"extra">>, <<"apcli">>, <<"extra", "extra">>}}

MCOptions == RuleOptions \cup ClientOptions \cup GroupOptions

(* The default root may be anything at first; the others become so when    *)
(* another process replaces them.                                          *)
MCDisks == {[p \in Places |-> IF p = "default" THEN k ELSE "file"] : k \in Kinds}
=============================================================================
