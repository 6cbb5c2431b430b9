---------------------------- MODULE ParameterForm ----------------------------
(***************************************************************************)
(* One open interaction: its code, the request that parses the code, the   *)
(* form of its parameters and signers, and what Execute sends.             *)
(*                                                                         *)
(* The form is made of React components.  A change of the definition, an   *)
(* answer of the parser or of the accounts is rendered at once; the        *)
(* effects of that render (pending) run in a later task, in which every    *)
(* effect that sets something spreads the definition that was rendered:    *)
(* the last of them wins, and also over what the user did in between.      *)
(***************************************************************************)
EXTENDS FclValues, FiniteSets, FiniteSetsExt

CONSTANTS
    Sources,        \* the codes that the user writes
    Identifiers,    \* of the parameters
    WalletService,  \* the application has a wallet of its own (not the web one)
    Accounts,       \* the accounts to select from, as the texts of addresses
    FieldValues,    \* the values of fields, that have been set or not
    MaxLoads,       \* bound on the changes of the accounts
    Nothing

(* The parser, the fields of the form (one React component per type of     *)
(* Cadence), and what FCL takes: CadenceTypes and ValueBuilders.           *)
CONSTANTS
    ParserAnswer(_),    \* (source)
    FieldEffects(_, _), \* (type, value): the value after one round of effects
    FieldInPlace(_, _), \* what the same round makes of the object itself
    FieldEdits(_, _),   \* the events of the user: [op, arg, mutated]
    HasFclType(_),      \* (type)
    IsEncoded(_, _)     \* (type, value): does FCL encode the value with the type?

Interactions == [source \in Sources |-> ParserAnswer(source)]

(* An answer of the parser: parameters, and the authorizers of a           *)
(* transaction.                                                            *)
IsInteraction(interaction) ==
    LET ps == interaction.parameters
    IN  /\ Len(ps) \in Nat
        /\ DOMAIN ps = 1..Len(ps)
        /\ \A i \in DOMAIN ps : ps[i].identifier \in Identifiers
        /\ interaction.kind = "TRANSACTION" => interaction.transaction.authorizerCount \in Nat

ASSUME FormAssumption ==
    /\ Nothing \notin Sources
    /\ \A source \in Sources : IsInteraction(Interactions[source])
    /\ WalletService \in BOOLEAN
    /\ Accounts # {} /\ \A a \in Accounts : IsFclAddressValue(Text(a))
    /\ MaxLoads \in Nat

(* Whatever the effects and the user do to a value of a field, its own one *)
(* or one that was entered for another parameter of this name, makes       *)
(* another one of a field.                                                 *)
ASSUME FieldsAssumption ==
    /\ Undefined \in FieldValues
    /\ \A a \in Accounts : Text(a) \in FieldValues
    /\ \A source \in Sources : \A i \in DOMAIN Interactions[source].parameters :
          LET type == Interactions[source].parameters[i].type
          IN  \A v \in FieldValues :
                /\ FieldEffects(type, v) \in FieldValues
                /\ FieldInPlace(type, v) \in FieldValues
                /\ \A x \in FieldEdits(type, v) : {x.arg, x.mutated} \subseteq FieldValues

VARIABLES
    definition,     \* InteractionDefinition: code, fclValuesByIdentifier, transactionOptions
    seen,           \* the code of the last render whose effects have run
    cached,         \* the source of the answer that is cached
    request,        \* the code of the last request to parse, until it is answered
    pending,        \* the effects of the last render have not run
    due,            \* the address fields whose effect runs with them
    accounts,       \* have the accounts been loaded
    loads,          \* how often they changed
    \* History:
    changedBack,    \* the code went back to the cached source during a request
    held            \* the entries a dictionary had before the last Add

formVars == <<definition, seen, cached, request, pending, due, accounts, loads,
              changedBack, held>>

InteractionOf(source) == IF source = Nothing THEN NoInteraction ELSE Interactions[source]

ParsedInteraction == InteractionOf(cached)

(* The parameters that are shown, and what the form shows of the signers.  *)
Parameters(interaction) == interaction.parameters

Signing(interaction) == interaction.kind = "TRANSACTION" /\ WalletService

ExpectedAuthorizerCount(interaction) ==
    IF interaction.kind = "TRANSACTION" THEN interaction.transaction.authorizerCount ELSE 0

Signer(role, i) == <<role, i>>

(* The fields that are an AddressBuilder with accounts.                    *)
AddressFields(interaction, d) ==
    LET ps == Parameters(interaction)
    IN  {Signer("parameter", i) : i \in {j \in DOMAIN ps :
            WalletService /\ ps[j].type.kind = "ADDRESS"}} \cup
        IF Signing(interaction)
        THEN {Signer("proposer", 1), Signer("payer", 1)} \cup
             {Signer("authorizer", i) : i \in DOMAIN d.authorizers}
        ELSE {}

ValueOf(d, ps, field) ==
    CASE field[1] = "parameter" -> d.values[ps[field[2]].identifier]
      [] field[1] = "authorizer" -> d.authorizers[field[2]]
      [] OTHER -> d[field[1]]

(* What a signer may be: none is selected, or one of the accounts.         *)
SignerValues == {Text(a) : a \in Accounts \cup {""}}

Definitions ==
    [code : Sources, values : [Identifiers -> FieldValues],
     proposer : SignerValues, payer : SignerValues, authorizers : Seq(SignerValues)]

FormTypeOK ==
    /\ definition \in Definitions
    /\ seen \in Sources \cup {Nothing}
    /\ cached \in Sources \cup {Nothing}
    /\ request \in Sources \cup {Nothing}
    /\ pending \in BOOLEAN
    /\ accounts \in BOOLEAN
    /\ loads \in 0..MaxLoads
    /\ changedBack \in BOOLEAN
    /\ due \subseteq AddressFields(ParsedInteraction, definition)

(* A new interaction has no transaction options: what the form shows then  *)
(* is no address either.                                                   *)
EmptyDefinition(code) ==
    [code |-> code, values |-> [p \in Identifiers |-> Undefined],
     proposer |-> Text(""), payer |-> Text(""), authorizers |-> <<>>]

FormInit ==
    /\ \E source \in Sources : definition = EmptyDefinition(source)
    /\ seen = Nothing
    /\ cached = Nothing
    /\ request = Nothing
    /\ pending = TRUE
    /\ due = {}
    /\ accounts \in BOOLEAN
    /\ loads = 0
    /\ changedBack = FALSE
    /\ held = [p \in Identifiers |-> Nothing]

---------------------------------------------------------------------------
(* The effects of a render *)

(* The effect of an AddressBuilder gives a field that has no address the   *)
(* default account.                                                        *)
DefaultAccount == Text(CHOOSE a \in Accounts : TRUE)

NeedsDefault(d, ps, field) ==
    /\ accounts
    /\ ~IsFclAddressValue(ValueOf(d, ps, field))
    /\ field[1] = "parameter" => ~ps[field[2]].type.optional

Defaulting(d, ps, role) ==
    {f[2] : f \in {x \in due : x[1] = role /\ NeedsDefault(d, ps, x)}}

\* Mutant of WrongAuthorizers: counts the authorizers from one.
WrongAuthorizersFromOne(interaction, d) ==
    Signing(interaction) /\ Len(d.authorizers) # ExpectedAuthorizerCount(interaction) + 1

(* AuthorizerSettings: a list of the wrong length is started anew.         *)
WrongAuthorizers(interaction, d) ==
    Signing(interaction) /\ Len(d.authorizers) # ExpectedAuthorizerCount(interaction)

Unset(n) == [i \in 1..n |-> Text("")]

(* setFclValue: a copy of the rendered values but for one.                 *)
SetFclValue(d, identifier, value) == [d EXCEPT !.values[identifier] = value]

\* Mutant of Handed: a value that was entered for another code is kept.
HandedOnce(d, type, identifier, default) ==
    LET v == d.values[identifier]
    IN  IF default THEN DefaultAccount ELSE IF v = Undefined THEN FieldEffects(type, v) ELSE v

\* Mutant of Handed: a value with an effect starts anew.
HandedAnew(d, type, identifier, default) ==
    LET v == d.values[identifier]
    IN  IF default THEN DefaultAccount
        ELSE IF FieldEffects(type, v) = v THEN v ELSE FieldEffects(type, Undefined)

(* What the effects hand to the parameter's setValue.                      *)
Handed(d, type, identifier, default) ==
    IF default THEN DefaultAccount ELSE FieldEffects(type, d.values[identifier])

(* Effects write into the arrays of the rendered values.                   *)
WithObjects(d) ==
    LET ps == Parameters(ParsedInteraction)
        Written(p) == {i \in DOMAIN ps : ps[i].identifier = p}
    IN  [d EXCEPT !.values = [p \in Identifiers |->
            IF Written(p) = {} THEN d.values[p]
            ELSE FieldInPlace(ps[Max(Written(p))].type, d.values[p])]]

(* The last parameter whose effect has another value for it sets it.       *)
ParameterEffects(d) ==
    LET ps == Parameters(ParsedInteraction)
        parameters == Defaulting(d, ps, "parameter")
        handed == [i \in DOMAIN ps |->
                    Handed(d, ps[i].type, ps[i].identifier, i \in parameters)]
        LastOf(h) ==
            LET acting == {i \in DOMAIN ps : h[i] # d.values[ps[i].identifier]}
            IN  IF acting = {} THEN WithObjects(d)
                ELSE SetFclValue(WithObjects(d), ps[Max(acting)].identifier, h[Max(acting)])
    IN  Evaluated(handed, LastOf)

(* The definition after the effects of its render: they run in the order   *)
(* of the form (parameters, proposer, payer, authorizers, their number),   *)
(* and the definition that the last one of them sets stays.                *)
AfterEffects(d) ==
    LET interaction == ParsedInteraction
        Due(role) == Defaulting(d, Parameters(interaction), role)
    IN  IF WrongAuthorizers(interaction, d)
        THEN [WithObjects(d) EXCEPT !.authorizers = Unset(ExpectedAuthorizerCount(interaction))]
        ELSE IF Due("authorizer") # {}
        THEN [WithObjects(d) EXCEPT !.authorizers[Max(Due("authorizer"))] = DefaultAccount]
        ELSE IF Due("payer") # {} THEN [WithObjects(d) EXCEPT !.payer = DefaultAccount]
        ELSE IF Due("proposer") # {} THEN [WithObjects(d) EXCEPT !.proposer = DefaultAccount]
        ELSE ParameterEffects(d)

(* Do the effects set the definition?  Also to the same one.               *)
Sets(d, effective) == effective # d \/ WrongAuthorizers(ParsedInteraction, d)

\* Mutant of ParseEffect: no second request while one is under way.
ParseEffectDeduplicated ==
    LET code == definition.code IN
    /\ seen' = code
    /\ IF code # seen /\ cached # code /\ request = Nothing
       THEN request' = code /\ changedBack' = FALSE
       ELSE UNCHANGED <<request, changedBack>>

(* useGetParsedInteraction: after a change of the code, a request is made  *)
(* unless the cached answer is the one of this code; it replaces the one   *)
(* under way, whose answer is ignored.                                     *)
ParseEffect ==
    LET code == definition.code IN
    /\ seen' = code
    /\ IF code = seen THEN UNCHANGED <<request, changedBack>>
       ELSE IF cached # code THEN request' = code /\ changedBack' = FALSE
       ELSE /\ changedBack' = (changedBack \/ request # Nothing)
            /\ UNCHANGED request

(* The fields of the next render that were not there before run their      *)
(* effect for the first time.                                              *)
Mounted(d) ==
    AddressFields(ParsedInteraction, d) \ AddressFields(ParsedInteraction, definition)

(* A user event during a render whose effects are pending: they run before *)
(* the next one, and if one of them sets something, what the user did is   *)
(* lost but for the objects that were changed in place.                    *)
FormUpdate(d, mutated) ==
    /\ \E effective \in {IF pending THEN AfterEffects(definition) ELSE definition} :
        \E next \in {IF pending /\ Sets(definition, effective) THEN AfterEffects(mutated) ELSE d} :
            /\ definition' = next
            /\ due' = (IF pending THEN {} ELSE due) \cup Mounted(next)
    /\ pending' = TRUE
    /\ IF pending THEN ParseEffect ELSE UNCHANGED <<seen, request, changedBack>>

Flush ==
    /\ pending
    /\ \E next \in {AfterEffects(definition)} :
          /\ definition' = next
          /\ pending' = Sets(definition, next)
          /\ due' = Mounted(next)
    /\ ParseEffect
    /\ UNCHANGED <<cached, accounts, loads, held>>

---------------------------------------------------------------------------
(* The user *)

ChangeCode(source) ==
    /\ source # definition.code
    /\ LET d == [definition EXCEPT !.code = source] IN FormUpdate(d, definition)
    /\ UNCHANGED <<cached, accounts, loads, held>>

EntriesOf(v) == {v.e[i] : i \in DOMAIN v.e}

DefaultKeyInUse(type, v) ==
    \E i \in DOMAIN v.e : v.e[i].key = FieldEffects(type.key, Undefined)

EditValue(i) ==
    LET p == Parameters(ParsedInteraction)[i]
        v == definition.values[p.identifier]
        With(x) == SetFclValue(definition, p.identifier, x)
    IN  \E x \in FieldEdits(p.type, v) :
          /\ FormUpdate(With(x.arg), With(x.mutated))
          /\ held' = [held EXCEPT ![p.identifier] =
                IF /\ p.type.kind = "DICTIONARY" /\ x.op = "add" /\ ~pending
                   /\ ~DefaultKeyInUse(p.type, v)
                THEN EntriesOf(v) ELSE Nothing]
          /\ UNCHANGED <<cached, accounts, loads>>

(* A proposer, payer or authorizer is selected.                            *)
SelectSigner(role, a) ==
    /\ Signing(ParsedInteraction)
    /\ \/ /\ role \in {"proposer", "payer"}
          /\ FormUpdate([definition EXCEPT ![role] = Text(a)], definition)
       \/ /\ role = "authorizer"
          /\ \E i \in DOMAIN definition.authorizers :
                FormUpdate([definition EXCEPT !.authorizers[i] = Text(a)], definition)
    /\ UNCHANGED <<cached, accounts, loads, held>>

---------------------------------------------------------------------------
(* Answers.  The effects of a render run before the next answer.           *)

(* A parameter that the next form does not have is no longer followed.     *)
Forget(history, source) ==
    LET next == Parameters(InteractionOf(source))
        current == Parameters(ParsedInteraction)
        Same(p) == \E i \in DOMAIN current, j \in DOMAIN next :
                      current[i].identifier = p /\ next[j] = current[i]
    IN  [p \in Identifiers |-> IF Same(p) THEN history[p] ELSE Nothing]

Answer ==
    /\ ~pending
    /\ request # Nothing
    /\ cached' = request
    /\ request' = Nothing
    /\ pending' = TRUE
    /\ due' = AddressFields(InteractionOf(request), definition)
                \ AddressFields(ParsedInteraction, definition)
    /\ held' = Forget(held, request)
    /\ UNCHANGED <<definition, seen, accounts, loads, changedBack>>

(* SWR asks again when the window gets the focus, and after a request has  *)
(* failed; what was cached stays until then.                               *)
Revalidate ==
    /\ ~pending
    /\ request' = definition.code
    /\ changedBack' = FALSE
    /\ UNCHANGED <<definition, seen, cached, pending, due, accounts, loads, held>>

(* useGetAccounts has another list.                                        *)
LoadAccounts ==
    /\ ~pending
    /\ loads < MaxLoads
    /\ loads' = loads + 1
    /\ accounts' = TRUE
    /\ pending' = TRUE
    /\ due' = AddressFields(ParsedInteraction, definition)
    /\ UNCHANGED <<definition, seen, cached, request, changedBack, held>>

FormNext ==
    \/ Flush \/ Answer \/ Revalidate \/ LoadAccounts
    \/ \E source \in Sources : ChangeCode(source)
    \/ \E i \in DOMAIN Parameters(ParsedInteraction) : EditValue(i)
    \/ \E role \in {"proposer", "payer", "authorizer"}, a \in Accounts : SelectSigner(role, a)

FormSpec == FormInit /\ [][FormNext]_formVars

(* React runs the effects of a render, and a request is answered.          *)
FormFairness == WF_formVars(Flush) /\ SF_formVars(Answer)

FormFairSpec == FormSpec /\ FormFairness

---------------------------------------------------------------------------

Settled == ~pending /\ request = Nothing /\ seen = definition.code

(* "Avoid revalidating up-to-date cache on mount." (api.ts:270): skipping  *)
(* a request that way never leaves the parameters of another code in the   *)
(* form once all requests are answered, whatever the order of edits and    *)
(* answers -- except when the code returns to the cached source before the *)
(* answer for the code in between: then the form stays the one of that     *)
(* code until the window gets the focus.                                   *)
ParsedIsCurrent == Settled /\ ~changedBack => cached = definition.code

(* serializeParameters: what Execute sends for a parameter.                *)
Serialized(type, v) == IF v = Text("") /\ type.optional THEN Undefined ELSE v

(* FCL encodes every value that the field of a parameter leaves as it is,  *)
(* but for addresses that are to be selected.                              *)
RestEncodes ==
    \A source \in Sources : \A i \in DOMAIN Interactions[source].parameters :
        LET type == Interactions[source].parameters[i].type
        IN  HasFclType(type) /\ type.kind # "ADDRESS" =>
              \A v \in FieldValues :
                 FieldEffects(type, v) = v => IsEncoded(type, Serialized(type, v))

(* Once the effects have run, Execute sends a value that FCL encodes with  *)
(* the type of its parameter, for every parameter but the accounts to      *)
(* select, even when the values were entered for another code whose        *)
(* parameters have the same names.                                         *)
ArgumentsEncode ==
    ~pending => \A i \in DOMAIN Parameters(ParsedInteraction) :
        LET p == Parameters(ParsedInteraction)[i]
        IN  HasFclType(p.type) /\ p.type.kind # "ADDRESS" =>
                IsEncoded(p.type, Serialized(p.type, definition.values[p.identifier]))

(* "Sometimes arguments don't get initialized properly" (the TODO of the   *)
(* builders): the effects of all fields compete for one definition, and    *)
(* still come to an end once the user stops to type.                       *)
EffectsEnd ==
    <>[][Flush \/ Answer \/ Revalidate \/ LoadAccounts]_formVars => []<>~pending

(* The names of the parameters differ, which a program has to meet to run. *)
UniqueNames ==
    \A source \in Sources : \A i, j \in DOMAIN Interactions[source].parameters :
        Interactions[source].parameters[i].identifier = Interactions[source].parameters[j].identifier
            => i = j

(* The values that rounds of effects make of one: they come to an end      *)
(* after two, and what they pass by has the entries E.                     *)
Round(type, values) ==
    values \cup {FieldEffects(type, v) : v \in values} \cup {FieldInPlace(type, v) : v \in values}

SettlesWith(type, v, E) ==
    LET settled == Round(type, Round(type, {v}))
    IN  /\ Round(type, settled) = settled
        /\ \A w \in settled : E \subseteq EntriesOf(w)

(* An entry that is added to a dictionary at rest, with a key of its own,  *)
(* settles beside the others.                                              *)
AddsSettle ==
    \A source \in Sources : \A i \in DOMAIN Interactions[source].parameters :
        LET type == Interactions[source].parameters[i].type
        IN  type.kind = "DICTIONARY" =>
              \A v \in FieldValues :
                 FieldEffects(type, v) = v /\ ~DefaultKeyInUse(type, v) =>
                   \A x \in FieldEdits(type, v) :
                      x.op = "add" => SettlesWith(type, x.arg, EntriesOf(v))

(* Adding an entry to a dictionary keeps the entries that it had, unless   *)
(* one of them has the key that the new entry starts with: its value is    *)
(* then overwritten and the new entry is removed as its duplicate.         *)
AddKeepsEntries ==
    \A p \in Identifiers : held[p] # Nothing =>
        \A entry \in held[p] : entry \in EntriesOf(definition.values[p])
==============================================================================
