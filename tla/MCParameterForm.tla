-------------------------- MODULE MCParameterForm --------------------------
(* Model-checking instance of ParameterForm: a script with a dictionary,   *)
(* one that uses its name for another type and has a second parameter, and *)
(* a transaction with an authorizer.                                       *)
EXTENDS ValueBuilders

Code(declarations) == [valid |-> TRUE, program |-> declarations]

Programs ==
    [a |-> Code(<<FunctionDeclaration("main", <<
                Parameter("x", DictionaryType(Nominal("Int"), Nominal("Bool")))>>)>>),
     b |-> Code(<<FunctionDeclaration("main", <<
                Parameter("x", OptionalType(ConstantSizedType(Nominal("StoragePath"), 2))),
                Parameter("y", Nominal("Address"))>>)>>),
     c |-> Code(<<TransactionDeclaration(<<>>, 1)>>)]

MCParserAnswer(source) == ParseInteraction(Programs[source])

(* What the effects and the user make of a field for which nothing has     *)
(* been entered, or an account.                                            *)
ParameterTypes ==
    UNION {{Interactions[s].parameters[i].type : i \in DOMAIN Interactions[s].parameters} : s \in Sources}

Derived(values) ==
    UNION {{Effects(type, v), InPlace(type, v)} \cup
           UNION {{x.arg, x.mutated} : x \in UserEdits(type, v)} : type \in ParameterTypes, v \in values}

RECURSIVE Closure(_, _)
Closure(values, new) ==
    IF new = {} THEN values ELSE Closure(values \cup new, Derived(new) \ (values \cup new))

MCFieldValues == Closure({}, {Undefined} \cup {Text(a) : a \in Accounts})

ASSUME EncodingAssumption == RestEncodes

ASSUME AddAssumption == UniqueNames /\ AddsSettle
=============================================================================
