----------------------------- MODULE SchemaNodes -----------------------------
(***************************************************************************)
(* The nodes of a JSON schema as src/ref-resolver.ts, src/schema-parser.ts *)
(* and src/main.ts read them. A node is a record:                          *)
(*   ref       the definition it refers to, NoRef, or BadRef for what is   *)
(*             no string                                                   *)
(*   type, default, enum   of the value, "none" and NoValue if missing     *)
(*   props     property name -> node                                       *)
(*   required  the set of names, or NoList if there is no list             *)
(*   keyword, branches   "allOf", "anyOf" or "oneOf" and its nodes, or     *)
(*             "none"                                                      *)
(* The definitions of a schema are a function from their names to nodes.   *)
(***************************************************************************)
CONSTANTS NoRef, BadRef, NoValue, NoList

(* An error of resolveRefs that is none of its own.                        *)
Unexpected == 0

(* Object.assign: what comes later replaces.                               *)
Assign(props, more) ==
  [n \in DOMAIN props \cup DOMAIN more |->
     IF n \in DOMAIN more THEN more[n] ELSE props[n]]

Listed(required) == IF required = NoList THEN {} ELSE required
=============================================================================
