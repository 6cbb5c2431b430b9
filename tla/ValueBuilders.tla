---------------------------- MODULE ValueBuilders ----------------------------
(***************************************************************************)
(* The fields of a parameter: one React component per Cadence type, that   *)
(* shows a value, gives it a first value in an effect, and hands what the  *)
(* user does to the setValue of its parent.  Arrays and dictionaries       *)
(* contain the fields of their elements, whose setValue writes into the    *)
(* array object in place before it passes it on.                           *)
(***************************************************************************)
EXTENDS CadenceTypes, ParameterForm

CONSTANT
    MaxSize         \* bound on the elements the user adds

(* An event of the user hands arg to setValue, after mutated has become of *)
(* the object that was rendered.                                           *)
Edit(op, arg, mutated) == [op |-> op, arg |-> arg, mutated |-> mutated]

(* Without a wallet, an address is a text. *)
IsText(type) == type.kind = "TEXTUAL" \/ (type.kind = "ADDRESS" /\ ~WalletService)

---------------------------------------------------------------------------
(* PathBuilder *)

PredefinedDomain(type) ==
    CASE type.rawType.name = "StoragePath" -> "storage"
      [] type.rawType.name = "PublicPath" -> "public"
      [] type.rawType.name = "PrivatePath" -> "private"
      [] OTHER -> ""

AvailableDomains(type) ==
    CASE PredefinedDomain(type) # "" -> {PredefinedDomain(type)}
      [] type.rawType.name = "Path" -> {"public", "private", "storage"}
      [] OTHER -> {"public", "private"}

InitialPath(type) ==
    Path(IF PredefinedDomain(type) = "" THEN "public" ELSE PredefinedDomain(type), "")

PathEdits(type, v) ==
    {Edit("set", [v EXCEPT !.identifier = x], v) : x \in {"id"}} \cup
    {Edit("set", [v EXCEPT !.domain = d], v) : d \in
        IF PredefinedDomain(type) = "" THEN AvailableDomains(type) ELSE {}}

---------------------------------------------------------------------------
(* DictionaryBuilder *)

IndexOfKey(entries, key) ==
    LET found == {i \in DOMAIN entries : entries[i].key = key}
    IN  IF found = {} THEN 0 ELSE CHOOSE i \in found : \A j \in found : i <= j

(* updateEntry: the first entry of the key, if there is one.               *)
UpdateEntryKey(entries, key, newKey) ==
    LET i == IndexOfKey(entries, key)
    IN  IF i = 0 THEN entries ELSE [entries EXCEPT ![i].key = newKey]

(* A value whose key was changed in the same round of effects is found by  *)
(* the new key.                                                            *)
UpdateEntryValue(entries, key, newKey, value) ==
    LET i == IF IndexOfKey(entries, key) # 0 THEN IndexOfKey(entries, key)
             ELSE IndexOfKey(entries, newKey)
    IN  IF i = 0 THEN entries ELSE [entries EXCEPT ![i].value = value]

Duplicates(entries) ==
    {i \in DOMAIN entries : \E j \in DOMAIN entries : i < j /\ entries[i].key = entries[j].key}

(* The effect that looks for duplicated keys reverses the entries in place *)
(* and removes the first of the key, which was the last one.               *)
WithoutDuplicate(entries) ==
    IF Duplicates(entries) = {} THEN entries
    ELSE LET first == CHOOSE i \in Duplicates(entries) : \A j \in Duplicates(entries) : i <= j
             reversed == Reverse(entries)
         IN  RemoveAt(reversed, IndexOfKey(reversed, entries[first].key))

DefaultEntry == Entry(Undefined, Undefined)

---------------------------------------------------------------------------
(* The first values *)

IsInitialized(type, v) ==
    CASE IsText(type) -> IsFclTextualValue(v)
      [] type.kind = "INTEGER_NUMBER" -> IsFclIntegerNumberValue(v)
      [] type.kind = "FIXED_POINT_NUMBER" -> IsFclFixedPointNumberValue(v)
      [] type.kind = "BOOLEAN" -> IsFclBoolValue(v)
      [] type.kind = "PATH" -> IsFclPathValue(v)
      [] type.kind = "ARRAY" -> IsFclArrayValue(v) /\ type.size \in {-1, Len(v.e)}
      [] type.kind = "DICTIONARY" -> IsFclDictionaryValue(v)
      [] OTHER -> TRUE

FclArrayOfSize(size) == Array([i \in 1..size |-> Undefined])

InitialValue(type) ==
    CASE IsText(type) -> Text("")
      [] type.kind = "INTEGER_NUMBER" -> Text("0")
      [] type.kind = "FIXED_POINT_NUMBER" -> Text("0.0")
      [] type.kind = "BOOLEAN" -> Bool(FALSE)
      [] type.kind = "PATH" -> InitialPath(type)
      [] type.kind = "ARRAY" -> FclArrayOfSize(IF type.size = -1 THEN 1 ELSE type.size)
      [] OTHER -> Array(<<DefaultEntry>>)

(* What one round of effects makes of a value: those of the elements       *)
(* first, then the one of the field itself.                                *)
RECURSIVE Effects(_, _), EntryEffects(_, _, _, _)
Effects(type, v) ==
    CASE ~IsInitialized(type, v) -> InitialValue(type)
      [] type.kind = "ARRAY" ->
            Array([i \in DOMAIN v.e |-> Effects(type.element, v.e[i])])
      [] type.kind = "DICTIONARY" ->
            Array(Evaluated(EntryEffects(type, v.e, v.e, 1), WithoutDuplicate))
      [] OTHER -> v

(* The fields of the key and the value of every rendered entry in turn,    *)
(* each known by the key it was rendered with.                             *)
EntryEffects(type, rendered, entries, i) ==
    LET old == rendered[i]
        Key(new) == IF new.key = old.key THEN entries ELSE UpdateEntryKey(entries, old.key, new.key)
        Value(new, renamed) ==
            IF new.value = old.value THEN renamed
            ELSE UpdateEntryValue(renamed, old.key, new.key, new.value)
        KeyAndValue(new) == Evaluated(Key(new), LAMBDA renamed : Value(new, renamed))
        Rest(updated) == EntryEffects(type, rendered, updated, i + 1)
    IN  IF i > Len(rendered) THEN entries
        ELSE Evaluated(Evaluated(Entry(Effects(type.key, old.key), Effects(type.value, old.value)),
                                 KeyAndValue), Rest)

(* What the same round makes of the object that was rendered.              *)
InPlace(type, v) ==
    CASE ~IsInitialized(type, v) -> v
      [] type.kind = "ARRAY" -> Effects(type, v)
      [] type.kind = "DICTIONARY" ->
            LET Reversed(entries) == IF Duplicates(entries) = {} THEN entries ELSE Reverse(entries)
            IN  Array(Evaluated(EntryEffects(type, v.e, v.e, 1), Reversed))
      [] OTHER -> v

---------------------------------------------------------------------------
(* What the user can do *)

TextEdits(v, texts) == {Edit("set", Text(s), v) : s \in texts}

(* AddressBuilder: toggleOrSelect *)
SelectAccount(type, v) ==
    {Edit("set", IF type.optional /\ v = Text(a) THEN Text("") ELSE Text(a), v) : a \in Accounts}

(* The buttons of arrays and dictionaries: Add and Remove (the last one).  *)
SizeEdits(v, new) ==
    (IF Len(v.e) < MaxSize THEN {Edit("add", Array(Append(v.e, new)), v)} ELSE {}) \cup
    {Edit("remove", Array(SubSeq(v.e, 1, Len(v.e) - 1)), v)}

InPlaceEdit(op, v) == Edit(op, v, v)

TextualEdits(v) == TextEdits(v, {"0x2"})

IntegerNumberEdits(v) == TextEdits(v, {"", "7"})

FixedPointNumberEdits(v) == TextEdits(v, {"7", "1.5"})

BoolEdits(v) == {Edit("set", Bool(b), v) : b \in BOOLEAN}

RECURSIVE UserEdits(_, _), ArrayEdits(_, _), DictionaryEdits(_, _)

ArrayEdits(type, v) ==
    UNION {{InPlaceEdit("set", [v EXCEPT !.e[i] = x.arg]) :
                x \in UserEdits(type.element, v.e[i])} : i \in DOMAIN v.e}
    \cup (IF type.size = -1 THEN SizeEdits(v, Undefined) ELSE {})

DictionaryEdits(type, v) ==
    UNION {LET key == v.e[i].key IN
           {InPlaceEdit("key", Array(UpdateEntryKey(v.e, key, x.arg))) :
                x \in UserEdits(type.key, key)} \cup
           {InPlaceEdit("set", Array(UpdateEntryValue(v.e, key, key, x.arg))) :
                x \in UserEdits(type.value, v.e[i].value)} : i \in DOMAIN v.e}
    \cup SizeEdits(v, DefaultEntry)

UserEdits(type, v) ==
    CASE type.kind = "ADDRESS" /\ WalletService -> SelectAccount(type, v)
      [] ~IsInitialized(type, v) -> {}
      [] IsText(type) -> TextualEdits(v)
      [] type.kind = "INTEGER_NUMBER" -> IntegerNumberEdits(v)
      [] type.kind = "FIXED_POINT_NUMBER" -> FixedPointNumberEdits(v)
      [] type.kind = "BOOLEAN" -> BoolEdits(v)
      [] type.kind = "PATH" -> PathEdits(type, v)
      [] type.kind = "ARRAY" -> ArrayEdits(type, v)
      [] type.kind = "DICTIONARY" -> DictionaryEdits(type, v)
      [] OTHER -> {}
==============================================================================
