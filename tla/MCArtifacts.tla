----------------------------- MODULE MCArtifacts -----------------------------
(* TLC instance of Artifacts: two runs over one directory. The scaffolds   *)
(* share sources and names with each other and with what generate writes;  *)
(* the batches hold two modules that compete for a name and one whose own  *)
(* name is the counted name of another. The runs are interchangeable.      *)
EXTENDS Artifacts, TLC

Line == [tool |-> "init", style |-> "binding", dir |-> "bindings",
         id |-> <<"a", "f">>, batch |-> <<>>, force |-> FALSE, dryRun |-> FALSE,
         flaws |-> {}]

Scaffolds ==
  {[Line EXCEPT !.force = f] : f \in BOOLEAN}
  \cup {[Line EXCEPT !.id = <<"a", "g">>],
        [Line EXCEPT !.style = "decorator", !.dir = "extensions"],
        [Line EXCEPT !.style = "other", !.dir = "up"]}
  \cup {[Line EXCEPT !.style = "convention", !.dir = "commands", !.id = i] :
          i \in {<<"a", "b", "f">>, <<"a">>}}

Generate == [Line EXCEPT !.tool = "generate", !.batch = << <<"p">>, <<"p">> >>]

Generates ==
  {[Generate EXCEPT !.force = f] : f \in BOOLEAN}
  \cup {[Generate EXCEPT !.batch = b] :
          b \in {<<>>, << <<"p">>, <<"p", "1">>, <<"p">> >>,
                 << <<"a", "f">> >>}}
  \cup {[Generate EXCEPT !.dryRun = TRUE], [Generate EXCEPT !.tool = "scan"]}
  \cup {[Generate EXCEPT !.flaws = f] :
          f \in {{"header", "source"}, {"version", "scanner"}, {"scanner"}}}

MCCommands == Scaffolds \cup Generates
MCDigits == <<"1", "2">>
AnyRun == Permutations(Runs)
=============================================================================
