-------------------------- MODULE MCApprovalPrompt --------------------------
(* TLC instance of ApprovalPrompt: the clamp is scaled from 3600 to 3 and  *)
(* the default from 60 to 2; the options take a value below, inside and    *)
(* above the clamp, none, and one that does not parse.                     *)
EXTENDS PromptInCommand

MCFlagTimeouts == {0, 1, 5, Absent, NaN}
MCEnvTimeouts == {0, 1, 3, Absent}
=============================================================================
