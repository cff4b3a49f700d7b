------------------------------ MODULE Arguments ------------------------------
(***************************************************************************)
(* From an input schema and a command line to the input of the module:     *)
(* buildModuleCommand of src/main.ts with schemaToCliOptions of            *)
(* src/schema-parser.ts, the way commander stores what it parses,          *)
(* collectInput, reconvertEnumValues and validateInputSchema.              *)
(*                                                                         *)
(* A name is the sequence of its words and of what joins them: "_", "-",   *)
(* or "" where a capital or a digit follows at once: a_B is <<a, _, B>>,   *)
(* and aB is <<a, "", B>>. Left out are names with other characters than   *)
(* letters, digits and these two, and with one of the two in front, be it  *)
(* behind "no_". A value is its text and its type.                         *)
(***************************************************************************)
EXTENDS SchemaNodes, Naturals, Sequences

CONSTANTS
  Resolve(_, _),  \* resolveRefs: of a schema and its definitions the node
                  \* and the exit codes of its errors (RefResolver)
  Schemas,        \* input schemas, each with its definitions and whether it
                  \* has properties of its own, if only an empty object
  ReservedNames,  \* RESERVED_NAMES
  Words,          \* strings: of names the pieces, of values text and type
  Small,          \* the words that begin with a small letter or a digit
  Capital(_),     \* a word with its first letter a capital
  Texts,          \* what a user writes after a flag
  Numerals,       \* the texts that parse as numbers
  Enums,          \* the texts an enumeration of integers lists
  Inputs          \* JSON objects for --input, the empty one standing for none

(* Names are sequences of words, values have a text and a type.            *)
Name(name) ==
  /\ name \in Seq(Words) /\ name # <<>> /\ name[1] \notin {"_", "-"}
  /\ ~(Len(name) > 2 /\ name[1] = "no" /\ {name[2], name[3]} \subseteq {"_", "-"})
Values == [text : Words, type : Words]

(* The properties of a resolved schema: each a name with what its options  *)
(* are made from.                                                          *)
WellFormed(props) ==
  \A n \in DOMAIN props :
    /\ Name(n) /\ props[n].type \in Words /\ props[n].enum \in BOOLEAN
    /\ props[n].default \in Values \cup {NoValue}

ASSUME ArgumentsAssumption ==
  /\ {"no", "-", "_", "", "true", "false", "string", "int", "bool"} \subseteq Words
  /\ \A w \in Words \ {"_"} : Capital(w) \in Words \ {"_"}
  /\ NoValue \notin Values
  /\ Texts \subseteq Words /\ Enums \subseteq Words
  /\ \A r \in ReservedNames : Name(r)
  /\ \A object \in Inputs :
       \A n \in DOMAIN object : Name(n) /\ object[n] \in Values
  /\ \A s \in Schemas :
       /\ WellFormed(s.root.props)
       /\ Resolve(s.root, s.defs).errors = {} =>
            WellFormed(Resolve(s.root, s.defs).node.props)

VARIABLES
  schema,   \* the schema and its definitions
  argv,     \* flag -> text, for the flags given
  json,     \* name -> value, from --input
  stage,    \* how far the command has got
  code,     \* exit code of a refusal
  resolved, \* the resolved schema
  options,  \* what commander holds: attribute -> value
  input     \* the merged input

argumentVars == <<schema, argv, json, stage, code, resolved, options, input>>

Value(text, type) == [text |-> text, type |-> type]
Yes == Value("true", "bool")
No == Value("false", "bool")

-----------------------------------------------------------------------------
(* Names.                                                                  *)

Replace(name, this, that) ==
  [i \in DOMAIN name |-> IF name[i] = this THEN that ELSE name[i]]

Flag(name) == Replace(name, "_", "-")
NoFlag(name) == <<"no", "-">> \o Flag(name)
Negated(flag) == Len(flag) > 1 /\ flag[1] = "no" /\ flag[2] = "-"

(* commander's attribute of a flag: a leading "no-" dropped, in camel case *)
(* at every "-". There is none, and commander throws, if nothing follows.  *)
Base(flag) == IF Negated(flag) THEN SubSeq(flag, 3, Len(flag)) ELSE flag

CamelCase(base) ==
  [i \in DOMAIN base |->
     IF base[i] = "-" THEN ""
     ELSE IF i > 1 /\ base[i - 1] = "-" THEN Capital(base[i]) ELSE base[i]]

Attribute(flag) == CamelCase(Base(flag))

HasAttribute(flag) ==
  LET base == Base(flag) IN
  \A i \in DOMAIN base : base[i] = "-" => i < Len(base) /\ base[i + 1] # "-"

(* Variant with a bug: the attribute is looked for by the property's name. *)
CommanderKeyPlain(name) == name

(* commanderKey, by which the action looks for the value of a property:    *)
(* camel case at each "_" before a small letter or a digit only.           *)
Joins(name, i) == name[i] = "_" /\ i < Len(name) /\ name[i + 1] \in Small
CommanderKey(name) ==
  [i \in DOMAIN name |->
     IF Joins(name, i) THEN ""
     ELSE IF i > 1 /\ Joins(name, i - 1) THEN Capital(name[i]) ELSE name[i]]

BuiltinFlags == {Flag(n) : n \in ReservedNames}
BuiltinAttributes == {Attribute(f) : f \in BuiltinFlags}

-----------------------------------------------------------------------------
(* Options.                                                                *)

IsBoolean(node) == node.type = "bool"
FlagsOf(name, node) ==
  IF IsBoolean(node) THEN {Flag(name), NoFlag(name)} ELSE {Flag(name)}

(* schemaToCliOptions: a reserved name, or a flag of two properties.       *)
Clashes(props) ==
  \/ DOMAIN props \cap ReservedNames # {}
  \/ \E m, n \in DOMAIN props :
       m # n /\ FlagsOf(m, props[m]) \cap FlagsOf(n, props[n]) # {}

(* commander throws when a flag is registered twice, or has no attribute.  *)
Registered(props) == UNION {FlagsOf(n, props[n]) : n \in DOMAIN props}
RegisteredTwice(props) == Registered(props) \cap BuiltinFlags # {}
Registers(props) ==
  ~RegisteredTwice(props) /\ \A f \in Registered(props) : HasAttribute(f)

(* The default an option is registered with; that of an enumeration is     *)
(* turned into text.                                                       *)
DefaultOf(node) ==
  IF node.default = NoValue THEN (IF IsBoolean(node) THEN No ELSE NoValue)
  ELSE IF node.enum /\ ~IsBoolean(node) THEN Value(node.default.text, "string")
  ELSE node.default

(* What an attribute may hold before parsing. A negated flag that takes a  *)
(* value, and finds no positive one, sets true; the order of registration  *)
(* decides between the defaults of one attribute and is left open.         *)
DefaultsAt(props, attribute) ==
  LET owners == {n \in DOMAIN props : Attribute(Flag(n)) = attribute}
      set(n) == IF Negated(Flag(n)) /\ ~IsBoolean(props[n]) /\ props[n].default = NoValue
                THEN Yes ELSE DefaultOf(props[n])
      values == {set(n) : n \in owners} \ {NoValue}
  IN  IF attribute \in BuiltinAttributes THEN values \cup {No}
      ELSE IF values = {} THEN {NoValue} ELSE values

(* The value commander stores for a flag and its text; parseArg throws for *)
(* what is no number.                                                      *)
OwnerOf(props, flag) == CHOOSE n \in DOMAIN props : flag \in FlagsOf(n, props[n])
ParsesAsNumber(node) == node.type = "int" /\ ~node.enum
Parsed(props, flag, text) ==
  LET n == OwnerOf(props, flag) IN
  IF IsBoolean(props[n]) THEN (IF Negated(flag) THEN No ELSE Yes)
  ELSE IF ParsesAsNumber(props[n]) THEN Value(text, "int") ELSE Value(text, "string")
Parses(props, flag, text) ==
  ParsesAsNumber(props[OwnerOf(props, flag)]) => text \in Numerals

(* What commander may hold after the flags of texts, one option after the  *)
(* other having the last word on an attribute they share.                  *)
Attributes(props) == {Attribute(f) : f \in Registered(props)} \cup BuiltinAttributes

StoredAt(props, texts, attribute) ==
  LET at == {f \in DOMAIN texts : Attribute(f) = attribute} IN
  IF at = {} THEN DefaultsAt(props, attribute)
  ELSE {Parsed(props, f, texts[f]) : f \in at}

Stored(props, texts) ==
  LET attributes == Attributes(props) IN
  {held \in [attributes -> UNION {StoredAt(props, texts, a) : a \in attributes}] :
     \A a \in attributes : held[a] \in StoredAt(props, texts, a)}

(* A command line names one of a pair of boolean flags at most here.       *)
CommandLines(props) ==
  UNION {[flags -> Texts] :
    flags \in {fs \in SUBSET Registered(props) :
                 \A n \in DOMAIN props : ~(FlagsOf(n, props[n]) \subseteq fs)
                                          \/ ~IsBoolean(props[n])}}

-----------------------------------------------------------------------------
(* Input.                                                                  *)

Present(f) == {n \in DOMAIN f : f[n] # NoValue}

(* schemaKwargs: each property under its key, or under its own name.       *)
Kwargs(props, held) ==
  [n \in DOMAIN props |->
     IF CommanderKey(n) \in DOMAIN held THEN held[CommanderKey(n)]
     ELSE IF n \in DOMAIN held THEN held[n] ELSE NoValue]

(* collectInput: { ...parsed, ...cliKwargsNonNull }.                       *)
CollectInput(kwargs, object) ==
  [n \in Present(kwargs) \cup DOMAIN object |->
     IF n \in Present(kwargs) THEN kwargs[n] ELSE object[n]]

(* reconvertEnumValues.                                                    *)
Reconvert(props, merged) ==
  [n \in DOMAIN merged |->
     IF n \in DOMAIN props /\ props[n].enum /\ ~IsBoolean(props[n])
        /\ merged[n].text \in Enums
     THEN Value(merged[n].text, "int") ELSE merged[n]]

(* validateInputSchema.                                                    *)
Valid(node, merged) ==
  /\ Listed(node.required) \subseteq DOMAIN merged
  /\ \A n \in DOMAIN node.props \cap DOMAIN merged :
       node.props[n].type \in {"string", "int", "bool"} =>
         merged[n].type = node.props[n].type

(* The input of the action, from what commander holds and the JSON object. *)
Merged(props, holds, object) ==
  LET held == [a \in Present(holds) |-> holds[a]] IN
  Reconvert(props, CollectInput(Kwargs(props, held), object))

-----------------------------------------------------------------------------
Refuse(exit) == stage' = "refused" /\ code' = exit

ArgumentsInit ==
  /\ schema \in Schemas
  /\ argv = <<>> /\ json \in Inputs
  /\ stage = "build" /\ code = 0
  /\ resolved = schema.root /\ options = <<>> /\ input = <<>>

(* What a schema is for which nothing is resolved: it has no options, and  *)
(* nothing is validated.                                                   *)
Unresolved == [props |-> <<>>, required |-> NoList]

(* The options are made and registered.                                    *)
Offer(node) ==
  /\ resolved' = node
  /\ \/ Clashes(node.props) /\ Refuse(48)
     \/ ~Clashes(node.props) /\ ~Registers(node.props) /\ Refuse(1)
     \/ /\ ~Clashes(node.props) /\ Registers(node.props)
        /\ stage' = "parse" /\ UNCHANGED code

(* buildModuleCommand up to its action. Only a schema with properties of   *)
(* its own is resolved; the raw one serves after an error that is not one  *)
(* of resolveRefs' own.                                                    *)
Build ==
  /\ stage = "build"
  /\ LET done == Resolve(schema.root, schema.defs) IN
     \/ ~schema.own /\ Offer(Unresolved)
     \/ schema.own /\ done.errors = {} /\ Offer(done.node)
     \/ schema.own /\ Unexpected \in done.errors /\ Offer(schema.root)
     \/ /\ schema.own
        /\ \E e \in done.errors \ {Unexpected} : Refuse(e)
        /\ UNCHANGED resolved
  /\ UNCHANGED <<schema, argv, json, options, input>>

(* commander parses the flags.                                             *)
Parse ==
  /\ stage = "parse"
  /\ \E texts \in CommandLines(resolved.props) :
       /\ argv' = texts
       /\ \/ /\ \E f \in DOMAIN texts : ~Parses(resolved.props, f, texts[f])
             /\ Refuse(1) /\ UNCHANGED options
          \/ /\ \A f \in DOMAIN texts : Parses(resolved.props, f, texts[f])
             /\ options' \in Stored(resolved.props, texts)
             /\ stage' = "act" /\ UNCHANGED code
  /\ UNCHANGED <<schema, json, resolved, input>>

(* The action: collect, reconvert and validate, unless a built-in flag     *)
(* takes the command elsewhere.                                            *)
Act ==
  /\ stage = "act"
  /\ input' = Merged(resolved.props, options, json)
  /\ IF \E a \in BuiltinAttributes : options[a] # No
     THEN stage' = "diverted" /\ UNCHANGED code
     ELSE IF Valid(resolved, input') THEN stage' = "called" /\ UNCHANGED code
     ELSE Refuse(45)
  /\ UNCHANGED <<schema, argv, json, resolved, options>>

ArgumentsNext == Build \/ Parse \/ Act

ArgumentsSpec == ArgumentsInit /\ [][ArgumentsNext]_argumentVars

-----------------------------------------------------------------------------
(* A name whose attribute is its own and is looked for: no "-" is in it,   *)
(* behind each "_" there is a small letter or a digit, it does not begin   *)
(* with "no_", and no flag of another property, nor a built-in, has it.    *)
OwnAttribute(name) ==
  /\ \A i \in DOMAIN name : name[i] # "-" /\ (name[i] = "_" => Joins(name, i))
  /\ ~Negated(Flag(name))
  /\ Attribute(Flag(name)) \notin BuiltinAttributes
  /\ \A n \in DOMAIN resolved.props \ {name} :
       \A f \in FlagsOf(n, resolved.props[n]) : Attribute(f) # Attribute(Flag(name))

(* A text read as a value of a property: a number where the schema wants   *)
(* or lists one.                                                           *)
Typed(node, text) ==
  Value(text, IF node.type = "int" \/ (node.enum /\ text \in Enums)
              THEN "int" ELSE "string")

(* What a property should be, from the command line, by default, or from   *)
(* the JSON object; NoValue if it should be missing.                       *)
Expected(name) ==
  LET node == resolved.props[name] IN
  IF IsBoolean(node)
  THEN IF Flag(name) \in DOMAIN argv THEN Yes
       ELSE IF NoFlag(name) \in DOMAIN argv THEN No
       ELSE IF node.default # NoValue THEN node.default ELSE No
  ELSE IF Flag(name) \in DOMAIN argv THEN Typed(node, argv[Flag(name)])
  ELSE IF node.default # NoValue
       THEN IF node.enum THEN Typed(node, node.default.text) ELSE node.default
  ELSE IF name \notin DOMAIN json THEN NoValue
  ELSE IF node.enum /\ json[name].text \in Enums THEN Typed(node, json[name].text)
  ELSE json[name]

(* When the module is called, through flags, commander's attributes and    *)
(* the merge each property has come out with the value meant for it and of *)
(* the type meant for it, everything required is there, and the rest of    *)
(* the JSON object has not been touched. Left out are names that share an  *)
(* attribute, and those whose value is stored where nothing looks for it,  *)
(* like a-b, no_a or user_ID.                                              *)
EachToItsOwn ==
  stage = "called" =>
    /\ \A n \in DOMAIN resolved.props :
         OwnAttribute(n) =>
           IF Expected(n) = NoValue THEN n \notin DOMAIN input
           ELSE n \in DOMAIN input /\ input[n] = Expected(n)
    /\ \A n \in DOMAIN json \ DOMAIN resolved.props :
         n \in DOMAIN input /\ input[n] = json[n]
    /\ Listed(resolved.required) \subseteq DOMAIN input

-----------------------------------------------------------------------------
(* What the README says and the code does not do.                          *)

(* README: "`--input -` reads JSON from STDIN, CLI flags override for      *)
(* duplicate keys": what no flag was given for stays as the JSON has it.   *)
InputOutranksDefaults ==
  stage = "called" =>
    \A n \in DOMAIN json \cap DOMAIN resolved.props :
      OwnAttribute(n) /\ DOMAIN argv \cap {Flag(n), NoFlag(n)} = {} =>
        input[n] = json[n]
=============================================================================
