----------------------------- MODULE FclValues -----------------------------
(***************************************************************************)
(* The values of the form and the tests that tell them apart               *)
(* (packages/core/src/fcl-value.ts), and an interaction without any.       *)
(***************************************************************************)
EXTENDS Integers, Sequences

(* What is shown of a code that has not been parsed or cannot be.  The     *)
(* parameters, which Go encodes as null if there are none, are an empty    *)
(* list for the client.                                                    *)
NoInteraction == [kind |-> "NONE", parameters |-> <<>>]

(* Values of the form, which are JavaScript values. *)
Undefined == [t |-> "undefined"]
Text(s) == [t |-> "string", s |-> s]
Bool(b) == [t |-> "boolean", b |-> b]
Path(domain, identifier) == [t |-> "path", domain |-> domain, identifier |-> identifier]
Array(elements) == [t |-> "array", e |-> elements]
Entry(key, value) == [t |-> "entry", key |-> key, value |-> value]

(* The texts that matter: what the builders start with and one more of     *)
(* every shape.  Number() reads "0x.." and what has decimals as a number.  *)
Decimals == {"0.0", "1.5"}
Integers0x == {"0x1", "0x2"}
IntegerTexts == {"0", "7"} \cup Integers0x

IsFclArrayValue(v) == v.t = "array"
IsFclDictionaryValue(v) == v.t = "array" /\ \A i \in DOMAIN v.e : v.e[i].t = "entry"
IsFclPathValue(v) == v.t = "path"
IsFclBoolValue(v) == v.t = "boolean"
IsFclTextualValue(v) == v.t = "string"
IsFclFixedPointNumberValue(v) == v.t = "string" /\ v.s \in Decimals
IsFclIntegerNumberValue(v) == v.t = "string" /\ v.s \in IntegerTexts
IsFclAddressValue(v) == v.t = "string" /\ v.s \in Integers0x

(* F(x), for which TLC evaluates x once.                                   *)
Evaluated(x, F(_)) == CHOOSE y \in {F(z) : z \in {x}} : TRUE
==============================================================================
