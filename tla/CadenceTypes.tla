---------------------------- MODULE CadenceTypes ----------------------------
(***************************************************************************)
(* What Flowser knows of Cadence: the interaction that the Go binary finds *)
(* in a program (internal/misc), the FCL types of its parameters, and what  *)
(* FCL encodes with them.                                                  *)
(*                                                                         *)
(* A program is the sequence of its declarations, a type the node of the   *)
(* parser it is written as.  A type is printed by String(), which is       *)
(* injective: the node stands for its own text.                            *)
(***************************************************************************)
EXTENDS FclValues, SequencesExt

(* The nodes of the Cadence parser *)
Nominal(name) == [node |-> "NominalType", name |-> name]
OptionalType(t) == [node |-> "OptionalType", type |-> t]
VariableSizedType(t) == [node |-> "VariableSizedType", type |-> t]
ConstantSizedType(t, size) == [node |-> "ConstantSizedType", type |-> t, size |-> size]
DictionaryType(k, v) == [node |-> "DictionaryType", keyType |-> k, valueType |-> v]

Parameter(identifier, type) == [identifier |-> identifier, type |-> type]

(* A declaration; prepare is the number of parameters of the prepare       *)
(* block, -1 without one.                                                  *)
TransactionDeclaration(parameters, prepare) ==
    [element |-> "Transaction", identifier |-> "", parameters |-> parameters, prepare |-> prepare]
FunctionDeclaration(identifier, parameters) ==
    [element |-> "Function", identifier |-> identifier, parameters |-> parameters, prepare |-> -1]

---------------------------------------------------------------------------
(* internal/misc/interaction.go *)

AddressNames == {"Address"}
BooleanNames == {"Bool"}
TextualNames == {"String", "Character", "Bytes"}
PathNames == {"Path", "CapabilityPath", "StoragePath", "PublicPath", "PrivatePath"}
FixedPointNames == {"Fix64", "UFix64"}
IntegerNames ==
    {"Number", "SignedNumber", "Integer", "SignedInteger", "FixedPoint", "SignedFixedPoint",
     "Int", "Int8", "Int16", "Int32", "Int64", "Int128", "Int256",
     "UInt", "UInt8", "UInt16", "UInt32", "UInt64", "UInt128", "UInt256"}

(* Other nodes than nominal types (references, functions, ...) end up      *)
(* here as well, and are unknown.                                          *)
DefaultCadenceTypeKind(t) ==
    LET name == IF t.node = "NominalType" THEN t.name ELSE ""
    IN  CASE name \in AddressNames -> "ADDRESS"
          [] name \in BooleanNames -> "BOOLEAN"
          [] name \in TextualNames -> "TEXTUAL"
          [] name \in PathNames -> "PATH"
          [] name \in IntegerNames -> "INTEGER_NUMBER"
          [] name \in FixedPointNames -> "FIXED_POINT_NUMBER"
          [] OTHER -> "UNKNOWN"

(* An optional type is a flag of the type it wraps, so that T?? is T?      *)
(* and the text of an optional type is that of the wrapped one.            *)
RECURSIVE CadenceType(_)
CadenceType(t) ==
    LET Base(kind) == [kind |-> kind, rawType |-> t, optional |-> FALSE]
        Sized(size) == [kind |-> "ARRAY", rawType |-> t, optional |-> FALSE,
                        element |-> CadenceType(t.type), size |-> size]
    IN  CASE t.node = "OptionalType" -> [CadenceType(t.type) EXCEPT !.optional = TRUE]
          [] t.node = "VariableSizedType" -> Sized(-1)
          [] t.node = "ConstantSizedType" -> Sized(t.size)
          [] t.node = "DictionaryType" ->
                [kind |-> "DICTIONARY", rawType |-> t, optional |-> FALSE,
                 key |-> CadenceType(t.keyType), value |-> CadenceType(t.valueType)]
          [] OTHER -> Base(DefaultCadenceTypeKind(t))

InteractionParameterList(parameters) ==
    [i \in DOMAIN parameters |->
        Parameter(parameters[i].identifier, CadenceType(parameters[i].type))]

(* The last declaration of its kind counts. *)
IsTransaction(d) == d.element = "Transaction"
IsMainFunction(d) == d.element = "Function" /\ d.identifier = "main"

TransactionDetails(d) == [authorizerCount |-> IF d.prepare = -1 THEN 0 ELSE d.prepare]

UnknownInteraction == [kind |-> "UNKNOWN", parameters |-> <<>>]

Interaction(program) ==
    LET transactions == SelectSeq(program, IsTransaction)
        mains == SelectSeq(program, IsMainFunction)
    IN  IF transactions # <<>>
        THEN [kind |-> "TRANSACTION",
              parameters |-> InteractionParameterList(Last(transactions).parameters),
              transaction |-> TransactionDetails(Last(transactions))]
        ELSE IF mains # <<>>
        THEN [kind |-> "SCRIPT", parameters |-> InteractionParameterList(Last(mains).parameters)]
        ELSE UnknownInteraction

(* The answer to a request to parse.                                       *)
ParseInteraction(code) == IF code.valid THEN Interaction(code.program) ELSE NoInteraction

---------------------------------------------------------------------------
(* packages/core/src/fcl-value.ts *)

(* The names among those above that FCL has no type of.                    *)
NotInFcl ==
    {"Number", "SignedNumber", "Integer", "SignedInteger", "FixedPoint", "SignedFixedPoint", "Bytes"}

(* getFclType: the type that FCL encodes an argument with; it throws on    *)
(* a type that is unknown, whatever contains it.                           *)
RECURSIVE IsFclType(_)
IsFclType(type) ==
    CASE type.kind = "ARRAY" -> IsFclType(type.element)
      [] type.kind = "DICTIONARY" -> IsFclType(type.key) /\ IsFclType(type.value)
      [] type.kind \in {"INTEGER_NUMBER", "TEXTUAL"} -> type.rawType.name \notin NotInFcl
      [] OTHER -> type.kind # "UNKNOWN"

(* Does FCL encode the value with the type?  undefined is nil for the      *)
(* optional types only.                                                    *)
RECURSIVE Encodes(_, _)
Encodes(type, v) ==
    IF v = Undefined THEN type.optional
    ELSE CASE type.kind = "FIXED_POINT_NUMBER" -> IsFclFixedPointNumberValue(v)
           [] type.kind = "INTEGER_NUMBER" -> IsFclIntegerNumberValue(v)
           [] type.kind = "TEXTUAL" -> IsFclTextualValue(v)
           [] type.kind = "ADDRESS" -> IsFclTextualValue(v)
           [] type.kind = "BOOLEAN" -> IsFclBoolValue(v)
           [] type.kind = "PATH" -> IsFclPathValue(v)
           [] type.kind = "ARRAY" ->
                /\ IsFclArrayValue(v)
                /\ \A i \in DOMAIN v.e : Encodes(type.element, v.e[i])
           [] type.kind = "DICTIONARY" ->
                /\ IsFclDictionaryValue(v)
                /\ \A i \in DOMAIN v.e : /\ Encodes(type.key, v.e[i].key)
                                         /\ Encodes(type.value, v.e[i].value)
           [] OTHER -> FALSE
=============================================================================
