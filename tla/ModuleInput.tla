----------------------------- MODULE ModuleInput -----------------------------
(***************************************************************************)
(* buildModuleCommand of src/main.ts over resolveRefs of                   *)
(* src/ref-resolver.ts: Arguments with RefResolver's ResolveRefs for its   *)
(* parameter Resolve. Here it can be said what the resolved schema, which  *)
(* Arguments starts from, has to do with the one that was written.         *)
(***************************************************************************)
EXTENDS Arguments, RefResolver

(* A reference in a property beside a keyword is left as it is.            *)
Inlined(name) ==
  schema.root.keyword = "none" \/ Declared(schema.root, schema.defs)[name].ref = NoRef
  \/ name \notin DOMAIN schema.root.props

(* What must be there: what the schema requires beside its branches, and   *)
(* what each of them, or for allOf any of them, requires.                  *)
Demanded ==
  LET root == schema.root
      demands(i) == Listed(Meant(root.branches[i], schema.defs).required)
  IN  Listed(root.required) \cup
      {n \in UNION {demands(i) : i \in DOMAIN root.branches} :
         root.keyword = "allOf" \/ \A i \in DOMAIN root.branches : n \in demands(i)}

(* Only these are resolved: with properties beside whatever the root       *)
(* refers to or is composed of, and with strings for references.           *)
Resolved ==
  schema.own /\ Unexpected \notin ResolveRefs(schema.root, schema.defs).errors

(* Of a schema that has properties of its own, what is given options, and  *)
(* validated, is what it declares, through references and branches: there  *)
(* are its properties and no other, each with the type, the default and    *)
(* the values that were meant for it, and what it demands is required.     *)
(* Left out are references beside a keyword. And a refusal of the schema   *)
(* has a reason in it: a definition on a cycle, a reserved name, or two    *)
(* properties for one option. (A schema whose root is only a reference, or *)
(* only branches, is given no options and is not validated.)               *)
ResolvedAsDeclared ==
  LET declared == Declared(schema.root, schema.defs) IN
  Resolved =>
  /\ stage \in {"parse", "act", "called"} =>
       /\ DOMAIN resolved.props = DOMAIN declared
       /\ \A n \in DOMAIN declared :
            LET node == resolved.props[n]
                meant == Meant(declared[n], schema.defs)
            IN  Inlined(n) => /\ node.type = meant.type
                              /\ node.default = meant.default
                              /\ node.enum = meant.enum
       /\ Demanded \subseteq Listed(resolved.required)
  /\ stage = "refused" /\ code = Circular =>
       \/ \E d \in DOMAIN schema.defs :
            Circular \in ResolveNode(schema.defs[d], schema.defs, {}).errors
       \/ \E m, n \in DOMAIN declared :
            m \in ReservedNames \/ (m # n /\ Attribute(Flag(m)) = Attribute(Flag(n)))
=============================================================================
