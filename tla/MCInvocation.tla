---------------------------- MODULE MCInvocation ----------------------------
(* TLC instance of Invocation: one strategy with and one without the gates, *)
(* one identity, and rules that tell the identity from an anonymous caller  *)
(* in both directions or ask a human, for everyone or for the identity only.*)
EXTENDS Invocation

MCRule(known, anonymous) ==
  [c \in Callers |-> IF c = Nobody THEN anonymous ELSE known]

MCRules ==
  { MCRule("allow", "deny"), MCRule("deny", "allow"),
    MCRule("ask", "ask"), MCRule("ask", "allow") }
=============================================================================
