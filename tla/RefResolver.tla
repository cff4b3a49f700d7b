----------------------------- MODULE RefResolver -----------------------------
(***************************************************************************)
(* resolveRefs of src/ref-resolver.ts. The code resolves the definitions   *)
(* in place, which a later reference to the same one cannot tell from      *)
(* resolving it anew, but for the references it no longer counts. The      *)
(* maximal number of these, 32, is left out: exceeding it has the exit     *)
(* code of a cycle. Arrays other than branches are not walked and have no  *)
(* place in a node.                                                        *)
(***************************************************************************)
EXTENDS SchemaNodes, Naturals, Sequences, SequencesExt

Circular == 48
Unresolvable == 45

(* Variant with a bug: the properties beside the keyword are dropped.      *)
MergeAllBranches(node, resolved) ==
  [node EXCEPT
     !.keyword = "none", !.branches = <<>>,
     !.props = FoldLeft(LAMBDA ps, b : Assign(ps, b.props), <<>>, resolved),
     !.required = FoldLeft(LAMBDA rs, b : rs \cup Listed(b.required),
                           Listed(node.required), resolved)]

(* allOf: own properties and those of the branches, all that is required.  *)
MergeAll(node, resolved) ==
  [node EXCEPT
     !.keyword = "none", !.branches = <<>>,
     !.props = FoldLeft(LAMBDA ps, b : Assign(ps, b.props), node.props, resolved),
     !.required = FoldLeft(LAMBDA rs, b : rs \cup Listed(b.required),
                           Listed(node.required), resolved)]

(* anyOf and oneOf: required is what every branch with a list requires.    *)
MergeAny(node, resolved) ==
  LET lists == {resolved[i].required : i \in DOMAIN resolved} \ {NoList} IN
  [node EXCEPT
     !.keyword = "none", !.branches = <<>>,
     !.props = FoldLeft(LAMBDA ps, b : Assign(ps, b.props), node.props, resolved),
     !.required = Listed(node.required) \cup
       IF lists = {} THEN {} ELSE {n \in UNION lists : \A l \in lists : n \in l}]

Merge(node, resolved) ==
  IF node.keyword = "allOf" THEN MergeAll(node, resolved) ELSE MergeAny(node, resolved)

(* resolveNode: the node that results, and the errors met. The code throws *)
(* the first; its order is that of the keys, which is left open here.      *)
RECURSIVE ResolveNode(_, _, _)
ResolveNode(node, defs, visited) ==
  IF node.ref # NoRef
  THEN IF node.ref \in visited THEN [node |-> node, errors |-> {Circular}]
       ELSE IF node.ref = BadRef THEN [node |-> node, errors |-> {Unexpected}]
       ELSE IF node.ref \notin DOMAIN defs THEN [node |-> node, errors |-> {Unresolvable}]
       ELSE ResolveNode(defs[node.ref], defs, visited \cup {node.ref})
  ELSE IF node.keyword # "none"
  THEN LET done == [i \in DOMAIN node.branches |->
                      ResolveNode(node.branches[i], defs, visited)]
       IN  [node   |-> Merge(node, [i \in DOMAIN done |-> done[i].node]),
            errors |-> UNION {done[i].errors : i \in DOMAIN done}]
  ELSE LET done == [n \in DOMAIN node.props |-> ResolveNode(node.props[n], defs, visited)]
       IN  [node   |-> [node EXCEPT !.props = [n \in DOMAIN done |-> done[n].node]],
            errors |-> UNION {done[n].errors : n \in DOMAIN done}]

(* resolveRefs: of a root without a reference or a keyword the definitions *)
(* are walked as well, used or not.                                        *)
ResolveRefs(schema, defs) ==
  LET root == ResolveNode(schema, defs, {}) IN
  [root EXCEPT !.errors = @ \cup
     IF schema.ref # NoRef \/ schema.keyword # "none" THEN {}
     ELSE UNION {ResolveNode(defs[d], defs, {}).errors : d \in DOMAIN defs}]
-----------------------------------------------------------------------------
(* What a schema says, without resolving it.                               *)

RECURSIVE Meant(_, _)
Meant(node, defs) == IF node.ref = NoRef THEN node ELSE Meant(defs[node.ref], defs)

(* The properties of a schema and of its branches, a later branch having   *)
(* the last word.                                                          *)
RECURSIVE Declared(_, _)
Declared(node, defs) ==
  LET own == Meant(node, defs) IN
  FoldLeft(LAMBDA ps, b : Assign(ps, Declared(b, defs)), own.props, own.branches)
=============================================================================
