-------------------------- MODULE MCCommandGroups ---------------------------
(* TLC instance of CommandGroups: modules that share an alias, an alias    *)
(* that is another module's id, one id with two displays, a group named    *)
(* like a top-level command, an unsafe group, and the reserved name as a   *)
(* prefix; the filter is for or against one prefix.                        *)
EXTENDS CommandGroups

Module(id, alias, grouping, group) ==
  [id |-> id, alias |-> alias, grouping |-> grouping, group |-> group]

MCDescriptors == {
  Module(<<"ma", "add">>, NoName, "auto", <<"ma">>),
  Module(<<"ma", "add">>, <<"ping">>, "top", <<"ma">>),
  Module(<<"ma", "sub">>, <<"ping">>, "auto", <<"ma">>),
  Module(<<"ping">>, NoName, "auto", <<"ma">>),
  Module(<<"ma">>, <<"ma", "x", "y">>, "auto", <<"ma">>),
  Module(<<"ma">>, NoName, "auto", <<"ma">>),
  Module(<<"in", "it">>, <<"apcli">>, "named", <<"A b">>),
  Module(<<"in", "it">>, <<"ma">>, "named", <<"ma">>),
  Module(<<"apcli", "x">>, NoName, "auto", <<"ma">>) }

MCNames ==
  {d.id : d \in MCDescriptors} \cup ({d.alias : d \in MCDescriptors} \ {NoName})
  \cup {<<"A b">>}

MCPatterns == {<<"ma", "**">>, <<"*">>}
MCReserved == {<<"apcli">>}
=============================================================================
