----------------------------- MODULE MCSandbox ------------------------------
(* TLC instance of Sandbox: a budget of 2 bytes per stream against a child *)
(* that may write 3, so that both sides of the limit occur, and a timeout  *)
(* of 1 second, so that it races every other event.                        *)
EXTENDS ChildInCommand
=============================================================================
