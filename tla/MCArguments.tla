----------------------------- MODULE MCArguments -----------------------------
(* TLC instance of ModuleInput: schemas with references, shared, circular, *)
(* missing and no strings, with branches of each keyword, with and without *)
(* properties beside them, and with names that come near each other or a   *)
(* built-in option, or in which nothing or a capital follows a "_".        *)
EXTENDS ModuleInput

Node(type) ==
  [ref |-> NoRef, type |-> type, default |-> NoValue, enum |-> FALSE,
   props |-> <<>>, required |-> NoList, keyword |-> "none", branches |-> <<>>]
To(def) == [Node("none") EXCEPT !.ref = def]
Object(props) == [Node("object") EXCEPT !.props = props]
Choice == [Node("int") EXCEPT !.enum = TRUE]
Set(type, value) == [Node(type) EXCEPT !.default = value]

Property(name, node) == [n \in {name} |-> node]
Two(m, a, n, b) == Assign(Property(m, a), Property(n, b))

A == <<"a">>
AB == <<"a", "_", "b">>
Schema(root, defs) == [root |-> root, defs |-> defs, own |-> TRUE]
NoneOwn(root, defs) == [root |-> root, defs |-> defs, own |-> FALSE]
Defs == [d \in {"num", "loop"} |->
           IF d = "num" THEN Node("int") ELSE Object(Property(A, To("loop")))]
Num == [d \in {"num", "also"} |-> IF d = "num" THEN Node("int") ELSE To("num")]
Need(props, names) == [Object(props) EXCEPT !.required = names]

Names == {AB, <<"a", "", "B">>, <<"a", "-", "b">>, <<"a", "_", "B">>, <<"a", "_", "1">>,
          <<"a", "_">>, <<"a", "_", "_", "b">>, <<"no", "_", "a">>, <<"no", "_">>,
          <<"dry", "_", "run">>, <<"dry", "", "Run">>, <<"dry", "-", "run">>}
One == Value("1", "int")
Kinds == {Node("string"), Choice, Node("bool"), Set("bool", Yes), Set("int", One),
          [Choice EXCEPT !.default = One], [Choice EXCEPT !.type = "none"]}

MCSchemas ==
  {Schema(Object(Two(A, a, n, b)), <<>>) :
     a \in {Node("bool"), Node("int")}, b \in {Node("bool"), Node("string")}, n \in Names}
  \cup {Schema(Need(Two(A, a, AB, To("also")), r), Num) :
     a \in Kinds, r \in {NoList, {A}, {AB}}}
  \cup {Schema(Object(Two(A, To("num"), AB, Node("none"))), d) :
     d \in {Defs, Num, <<>>}}
  \cup {Schema(Need(Two(A, a, AB, To(r)), {A}), Num) :
     a \in {Choice, To("num")}, r \in {BadRef, "none"}}
  \cup {NoneOwn(root, [d \in {"pair"} |-> Need(Two(A, Node("int"), AB, Choice), {A})]) :
     root \in {To("pair"), [Need(<<>>, {A}) EXCEPT !.keyword = "allOf",
                              !.branches = <<To("pair")>>]}}
  \cup {Schema([To("pair") EXCEPT !.props = Property(<<"c">>, Node("bool"))],
               [d \in {"pair"} |-> Need(Two(A, Node("int"), AB, Choice), {A})])}
  \cup {Schema([Need(Property(A, a), {A}) EXCEPT !.keyword = k,
                  !.branches = <<Object(Property(AB, To("num"))),
                                 Need(Property(AB, Node("string")), {AB})>>], Num) :
     a \in {Node("string"), To("num")}, k \in {"allOf", "anyOf"}}
  \cup {Schema([Object(Property(A, To("num"))) EXCEPT !.keyword = k,
                  !.branches = <<Need(Property(AB, Node("bool")), {AB}), To("pair")>>],
               [d \in {"num", "pair"} |->
                  IF d = "num" THEN Node("int")
                  ELSE Need(Two(A, To("num"), AB, Choice), {A, AB})]) :
           k \in {"allOf", "anyOf", "oneOf"}}
  \cup {Schema(Object(Two(A, Object(Property(AB, To("num"))), AB, To("num"))), Num)}
  \cup {Schema([Object(Property(A, Node("bool"))) EXCEPT !.keyword = "oneOf",
                  !.branches = <<Need(Property(AB, To("num")), {AB}), To("loop")>>], Defs)}

MCWords ==
  {"no", "-", "_", "", "true", "false", "string", "int", "bool", "none", "object",
   "a", "b", "c", "x", "dry", "run", "1", "2", "No", "A", "B", "C", "X", "Dry", "Run"}
MCSmall == {"no", "a", "b", "c", "x", "dry", "run", "1", "2"}
MCCapital(w) ==
  LET of == [no |-> "No", a |-> "A", b |-> "B", c |-> "C", x |-> "X", dry |-> "Dry",
             run |-> "Run"]
  IN  IF w \in DOMAIN of THEN of[w] ELSE w
MCReservedNames == {<<"dry", "_", "run">>}
MCInputs == {<<>>, Property(A, Yes), Property(AB, Value("2", "int")),
             Two(A, Value("x", "string"), <<"c">>, Yes)}
=============================================================================
