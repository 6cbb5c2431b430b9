---------------------------- MODULE Interactions ----------------------------
(***************************************************************************)
(* The interactions page: the registry of open interactions and their tabs,*)
(* the snippets in local storage and the other templates, the history of   *)
(* transactions, the executions and the outcome that is shown.             *)
(*                                                                         *)
(* The content of all tabs is one component: its state (outcome, execution *)
(* under way) stays when another tab is shown.  Effects of a user event    *)
(* run before the next event and are part of its action; a dialog is modal *)
(* and is one action with the answer the user gives.  A parse request is   *)
(* answered before the next event; ParameterForm has its races.  The name  *)
(* of a tab is the one it is saved under.                                  *)
(***************************************************************************)
EXTENDS Naturals, FiniteSets, Sequences, SequencesExt

CONSTANTS
    Ids,            \* of tabs and of snippets, drawn at random by the code
    Codes, Empty,   \* sources, Empty is the one of a new tab
    Body,           \* their text without imports and white space
    KindOf,         \* what the parser says of them
    Names,          \* of snippets
    CadenceFiles,   \* of the workspace: their code
    FlixList,       \* the published templates: [id, code, dependencies]
    Network,
    Filters,        \* the sources that may be selected in the list of templates
    Linked,         \* the published template that the address of the web page names
    Transactions,   \* the code of those in the history
    MenuFirst,      \* the side menu that is shown first
    MaxTabs,
    Limits,         \* bounds on the snippets and on the executions of a behaviour
    None

(* Everything there is to open is code, and a new tab is empty.            *)
ASSUME CodesAssumption ==
    /\ None \notin Codes
    /\ {Empty} \cup Transactions \cup CadenceFiles \subseteq Codes
    /\ \A t \in FlixList : t.code \in Codes

ASSUME PageAssumption == MenuFirst \in {"templates", "history"}

ASSUME BoundsAssumption ==
    /\ MaxTabs \in Nat /\ MaxTabs >= 2
    /\ Limits \subseteq [snippets : Nat, running : Nat]

(* Random ids are never used up by the tabs and the snippets there are.    *)
ASSUME IdsAssumption ==
    /\ None \notin Ids
    /\ \A used \in SUBSET Ids, l \in Limits :
          (IsFiniteSet(used) /\ Cardinality(used) < MaxTabs + l.snippets) => Ids \ used # {}

VARIABLES
    definitions,    \* the open interactions, in the order of their tabs
    focused,        \* focusedInteractionId
    fallback,       \* fallbackCurrentTabId of the tabs, None if its tab was closed
    page,           \* the side menu of the page, or "other" for another page
    snippets,       \* sessionTemplates, in local storage
    flixLoaded,     \* have the published templates been loaded
    parsed,         \* the source of the parsed interaction by id
    snippetFirst,   \* the ids whose parse hook was mounted first by a snippet
    outcome,        \* InteractionOutcome of the content
    running,        \* its executions that have not been answered
    limits,         \* the bounds of this behaviour
    \* History:
    shared,         \* the ids whose tab came back to a page that lists its snippet first
    kept            \* the code of tabs that were closed because a snippet has it

tabs == <<definitions, focused, fallback>>
parsing == <<parsed, snippetFirst, shared>>
execution == <<outcome, running>>
vars == <<tabs, page, snippets, flixLoaded, parsing, execution, limits, kept>>

Definition(id, code, initial) == [id |-> id, code |-> code, initial |-> initial]
Snippet(id, name, code) == [id |-> id, name |-> name, code |-> code]

(* What is shown of an execution of a tab, or of a transaction of the      *)
(* history; and of one that the shown definition was changed under.        *)
Outcome(of, code) == [shown |-> TRUE, of |-> of, code |-> code]
NoOutcome == [shown |-> FALSE, of |-> None, code |-> Empty]
LateOutcome == [shown |-> TRUE, of |-> None, code |-> None]

DefaultInteraction(id) == Definition(id, Empty, NoOutcome)

IdsOf(s) == {s[i].id : i \in DOMAIN s} \ {None}

(* filter: the elements of s whose positions are in K, in their order.     *)
Keep(s, K) ==
    LET F[i \in 0..Len(s)] ==
            IF i = 0 THEN <<>> ELSE IF i \in K THEN Append(F[i - 1], s[i]) ELSE F[i - 1]
    IN  F[Len(s)]

(* crypto.randomUUID(): an id that nothing refers to.                      *)
Unused ==
    Ids \ (IdsOf(definitions) \cup IdsOf(snippets) \cup {outcome.of} \cup
           {r.of : r \in running})
Fresh == CHOOSE id \in Ids : Unused = {} \/ id \in Unused

TypeOK ==
    /\ \A i \in DOMAIN definitions : definitions[i].id \in Ids /\ definitions[i].code \in Codes
    /\ Len(definitions) \in 1..MaxTabs
    /\ {focused, fallback} \subseteq Ids \cup {None}
    /\ page \in {"templates", "history", "other"}
    /\ flixLoaded \in BOOLEAN
    /\ Len(snippets) <= limits.snippets
    /\ \A i \in DOMAIN snippets :
          snippets[i].id \in Ids \cup {None} /\ snippets[i].name \in Names /\ snippets[i].code \in Codes
    /\ parsed \in [Ids -> Codes \cup {None}]
    /\ snippetFirst \cup shared \subseteq Ids
    /\ kept \subseteq Codes

---------------------------------------------------------------------------
(* Templates *)

Template(id, code, source) == [id |-> id, code |-> code, source |-> source]

(* getTemplates: the files that are an interaction.                        *)
FileTemplates ==
    {Template(c, c, "workspace") : c \in {x \in CadenceFiles : KindOf[x] # "UNKNOWN"}}

(* hasDependenciesForNetwork asks for one contract on the network,         *)
(* getCadenceSourceCode for all of them.                                   *)
HasDependenciesForNetwork(t) == \E d \in t.dependencies : Network \in d
HasSourceCode(t) == \A d \in t.dependencies : Network \in d

Published ==
    {Template(t.id, t.code, "flix") :
        t \in {x \in FlixList : HasDependenciesForNetwork(x) /\ HasSourceCode(x)}}

Snippets(s) == {Template(s[i].id, s[i].code, "session") : i \in DOMAIN s}

Templates == Snippets(snippets) \cup FileTemplates \cup (IF flixLoaded THEN Published ELSE {})

(* The list shows all sources unless some are selected.                    *)
Listed(filter) == {t \in Templates : filter = {} \/ t.source \in filter}

(* areSemanticallyEquivalent *)
Equivalent(a, b) == Body[a] = Body[b]

---------------------------------------------------------------------------
(* Rendering *)

CurrentTabId(defs, focus, back) == IF focus \in IdsOf(defs) THEN focus ELSE back

(* The definition of the tab that is shown; none if there is no such tab.  *)
ShownIn(defs, focus, back) ==
    {d \in Range(defs) : d.id = CurrentTabId(defs, focus, back)}
Shown == CHOOSE d \in ShownIn(definitions, focused, fallback) : TRUE

OnPage == page # "other"

\* Mutant of ResetOutcome: the effect runs when another tab is shown.
ResetOutcomeOfTab(new) == ~ \E d \in new : d.id = Shown.id

(* The effect of the outcome: the definition has changed.                  *)
ResetOutcome(new) == Shown \notin new

(* An answer comes late when the definition that is shown has changed.     *)
RenderTabs(defs, focus) ==
    LET new == ShownIn(defs, focus, fallback) IN
    /\ definitions' = defs
    /\ focused' = focus
    /\ fallback' = IF fallback \in IdsOf(defs) THEN fallback ELSE None
    /\ outcome' = IF OnPage /\ ResetOutcome(new)
                  THEN IF new = {} THEN NoOutcome ELSE (CHOOSE d \in new : TRUE).initial
                  ELSE outcome
    /\ running' = {IF Shown \in new THEN r ELSE LateOutcome : r \in running}

(* The code of the components that parse under an id.                      *)
TabHook(defs, id) == {d.code : d \in {x \in Range(defs) : x.id = id}}
SnippetHook(snips, side, id) ==
    IF side = "templates" THEN {s.code : s \in {x \in Range(snips) : x.id = id}} ELSE {}

(* A snippet is first if it was mounted first or together with the tab,    *)
(* whose page renders the side menu before the tabs.                       *)
SnippetIsFirst(id, defs, snips, side, mounting) ==
    /\ SnippetHook(snips, side, id) # {}
    /\ \/ mounting
       \/ id \in snippetFirst
       \/ TabHook(defs, id) = {}
       \/ TabHook(definitions, id) = {}

(* useGetParsedInteraction: a component whose code is not the source of    *)
(* the cached answer, when it is mounted or its code changes, revalidates  *)
(* the key; the fetcher is the one of the component that was mounted first.*)
RenderHooks(defs, snips, side, mounting) ==
    LET First(id) == SnippetIsFirst(id, defs, snips, side, mounting)
        Before(hook) == IF mounting THEN {} ELSE hook
        Changed(id) ==
            (TabHook(defs, id) \ Before(TabHook(definitions, id))) \cup
            (SnippetHook(snips, side, id) \ Before(SnippetHook(snippets, page, id)))
        Fetched(id) == IF First(id) THEN SnippetHook(snips, side, id) ELSE TabHook(defs, id)
    IN  /\ snippetFirst' = {id \in Ids : First(id)}
        /\ parsed' = [id \in Ids |->
                IF id \notin IdsOf(defs) \cup IdsOf(snips) THEN None
                ELSE IF \E c \in Changed(id) : c # parsed[id]
                THEN CHOOSE c \in Fetched(id) : TRUE
                ELSE parsed[id]]
        /\ shared' = {id \in IdsOf(defs) : id \in shared \/ (mounting /\ First(id))}

Render(defs, focus, snips) ==
    /\ RenderTabs(defs, focus)
    /\ snippets' = snips
    /\ IF OnPage THEN RenderHooks(defs, snips, page, FALSE) ELSE UNCHANGED parsing
    /\ UNCHANGED <<page, flixLoaded>>

Focus(id) == Render(definitions, id, snippets)

(* A window that has been loaded: only the local storage is left.          *)
Load(id) ==
    /\ definitions' = <<DefaultInteraction(id)>>
    /\ focused' = None
    /\ fallback' = id
    /\ page' = MenuFirst
    /\ flixLoaded' = FALSE
    /\ snippetFirst' = {i \in Ids : SnippetHook(snippets, MenuFirst, i) # {}}
    /\ parsed' = [i \in Ids |->
            IF i = id THEN Empty
            ELSE IF SnippetHook(snippets, MenuFirst, i) = {} THEN None
            ELSE CHOOSE c \in SnippetHook(snippets, MenuFirst, i) : TRUE]
    /\ outcome' = NoOutcome
    /\ running' = {}
    /\ shared' = {}

(* Snippets of an earlier version of the program have no id.               *)
Init ==
    /\ limits \in Limits
    /\ snippets \in {<<>>} \cup {<<Snippet(None, n, c)>> :
            n \in {x \in Names : limits.snippets > 0}, c \in Codes \ {Empty}}
    /\ \E id \in {CHOOSE i \in Ids : TRUE} :
          /\ definitions = <<DefaultInteraction(id)>>
          /\ fallback = id
          /\ parsed = [i \in Ids |-> IF i = id THEN Empty ELSE None]
    /\ focused = None
    /\ page = MenuFirst
    /\ flixLoaded = FALSE
    /\ snippetFirst = {}
    /\ outcome = NoOutcome
    /\ running = {}
    /\ shared = {}
    /\ kept = {}

---------------------------------------------------------------------------
(* The registry *)

\* Mutant of Recreate: the default interaction of an empty list is not focused.
RecreateUnfocused(others) ==
    Render(IF others = <<>> THEN <<DefaultInteraction(Fresh)>> ELSE others,
           IF others = <<>> THEN focused ELSE Last(others).id, snippets)

(* "Make sure there is always at least one tab open.": the effect of a     *)
(* render without interactions.  Otherwise remove focuses the last one.    *)
Recreate(others) ==
    IF others = <<>> THEN Render(<<DefaultInteraction(Fresh)>>, Fresh, snippets)
    ELSE Render(others, Last(others).id, snippets)

RemoveTab(id) == Recreate(Keep(definitions, {i \in DOMAIN definitions : definitions[i].id # id}))

Update(definition) ==
    Render([i \in DOMAIN definitions |->
                IF definitions[i].id = definition.id THEN definition ELSE definitions[i]],
           focused, snippets)

(* create and setFocused: an interaction with the id that exists is only   *)
(* focused, also one with equivalent code if the caller asks for that.     *)
Create(definition, deduplicate) ==
    LET Existing(d) == IF deduplicate THEN Equivalent(d.code, definition.code)
                       ELSE d.id = definition.id
        existing == {i \in DOMAIN definitions : Existing(definitions[i])}
    IN  IF existing # {}
        THEN Focus(definitions[CHOOSE i \in existing : \A j \in existing : i <= j].id)
        ELSE /\ Len(definitions) < MaxTabs
             /\ Render(Append(definitions, definition), definition.id, snippets)

---------------------------------------------------------------------------
(* The page *)

AddNew ==
    /\ OnPage
    /\ Create(DefaultInteraction(Fresh), FALSE)
    /\ UNCHANGED kept

SelectTab(i) ==
    /\ OnPage
    /\ Focus(definitions[i].id)
    /\ UNCHANGED kept

EditCode(code) ==
    /\ OnPage
    /\ code # Shown.code
    /\ Update([Shown EXCEPT !.code = code])
    /\ UNCHANGED kept

(* Another value of an argument, or another name, is another definition.   *)
EditArguments ==
    /\ OnPage
    /\ outcome' = Shown.initial
    /\ running' = {LateOutcome : r \in running}
    /\ UNCHANGED <<tabs, page, snippets, flixLoaded, parsing, kept>>

ShowMenu(side) ==
    /\ OnPage
    /\ side # page
    /\ page' = side
    /\ RenderHooks(definitions, snippets, side, FALSE)
    /\ UNCHANGED <<tabs, snippets, flixLoaded, execution, kept>>

(* Another page: what the components of this one know is lost.             *)
Leave ==
    /\ OnPage
    /\ page' = "other"
    /\ fallback' = None
    /\ outcome' = NoOutcome
    /\ running' = {}
    /\ snippetFirst' = {}
    /\ UNCHANGED <<definitions, focused, snippets, flixLoaded, parsed, shared, kept>>

Enter ==
    /\ ~OnPage
    /\ page' = MenuFirst
    /\ fallback' = Head(definitions).id
    /\ outcome' = (CHOOSE d \in ShownIn(definitions, focused, Head(definitions).id) : TRUE).initial
    /\ RenderHooks(definitions, snippets, MenuFirst, TRUE)
    /\ UNCHANGED <<definitions, focused, snippets, flixLoaded, running, kept>>

Reload ==
    /\ Load(CHOOSE id \in Ids : id \notin IdsOf(snippets))
    /\ UNCHANGED <<snippets, kept>>

---------------------------------------------------------------------------
(* Closing tabs, and snippets *)

Asked(d) == d.code # Empty /\ ~ \E t \in Templates : t.code = d.code

(* onClose; kept records the code of which a snippet is said to be a copy. *)
CloseTab(i) ==
    LET d == definitions[i] IN
    /\ OnPage
    /\ ~Asked(d)
    /\ RemoveTab(d.id)
    /\ kept' = kept \cup {t.code : t \in {x \in Snippets(snippets) : x.code = d.code}}

Discard(i) ==
    /\ OnPage
    /\ Asked(definitions[i])
    /\ RemoveTab(definitions[i].id)
    /\ UNCHANGED kept

\* Mutant of SaveAsSessionTemplate: what has the same name is replaced.
SaveAsSessionTemplateByName(template) ==
    Append(Keep(snippets, {i \in DOMAIN snippets : snippets[i].name # template.name}), template)

(* saveAsSessionTemplate replaces the snippet with the same id.            *)
SaveAsSessionTemplate(template) ==
    Append(Keep(snippets, {i \in DOMAIN snippets : snippets[i].id # template.id}), template)

Store(template) ==
    /\ Len(SaveAsSessionTemplate(template)) <= limits.snippets
    /\ Render(definitions, focused, SaveAsSessionTemplate(template))
    /\ kept' = kept \ {t.code : t \in {x \in Snippets(snippets) :
                            x.id = template.id /\ x.code # template.code}}

(* The tab of what is saved stays open.                                    *)
Save(i, name) ==
    /\ OnPage
    /\ Asked(definitions[i])
    /\ Store(Snippet(definitions[i].id, name, definitions[i].code))

(* A snippet without id is stored once more, with the random one that its  *)
(* template has.                                                           *)
Rename(i, name) ==
    /\ page = "templates"
    /\ LET s == snippets[i]
       IN  Store(Snippet(IF s.id = None THEN Fresh ELSE s.id, name, s.code))

(* removeSessionTemplate looks for the name.                               *)
Delete(i) ==
    /\ page = "templates"
    /\ Render(definitions, focused,
              Keep(snippets, {j \in DOMAIN snippets : snippets[j].name # snippets[i].name}))
    /\ kept' = kept \ {snippets[j].code : j \in {k \in DOMAIN snippets :
                            snippets[k].name = snippets[i].name}}

---------------------------------------------------------------------------
(* Opening templates and transactions *)

(* Bound: published templates and transactions, in behaviours of limits    *)
(* with executions.                                                        *)
Others == limits.running > 0

\* Mutant of OpenedAs: the tab of a snippet has the id of the snippet.
OpenedAsTemplate(template) ==
    Definition(IF template.source = "session" /\ template.id # None THEN template.id ELSE Fresh,
               template.code, NoOutcome)

(* "Provide a different ID as the template".                               *)
OpenedAs(template) == Definition(Fresh, template.code, NoOutcome)

OpenTemplate(filter) ==
    /\ page = "templates"
    /\ \E t \in Listed(filter) : Create(OpenedAs(t), FALSE)
    /\ UNCHANGED kept

Opened(code) == Definition(Fresh, code, Outcome(None, code))

OpenTransaction(code) ==
    /\ page = "history"
    /\ Others
    /\ Create(Opened(code), FALSE)
    /\ UNCHANGED kept

(* Interact, on the page of a transaction.                                 *)
OpenInteraction(code) ==
    /\ ~OnPage
    /\ Others
    /\ Create(Opened(code), TRUE)
    /\ UNCHANGED kept

(* The published templates are loaded; the web page opens the one that its *)
(* address names unless a tab has been focused.                            *)
LoadFlix ==
    /\ ~flixLoaded
    /\ Others
    /\ \/ /\ focused = None
          /\ \E t \in Published :
                /\ t.id = Linked
                /\ LET d == OpenedAs(t) IN
                   /\ RenderTabs(Append(definitions, d), d.id)
                   /\ IF OnPage THEN RenderHooks(Append(definitions, d), snippets, page, FALSE)
                      ELSE UNCHANGED parsing
       \/ /\ focused # None \/ ~ \E t \in Published : t.id = Linked
          /\ UNCHANGED <<tabs, parsing, execution>>
    /\ flixLoaded' = TRUE
    /\ UNCHANGED <<page, snippets, kept>>

---------------------------------------------------------------------------
(* Executions *)

(* The button is not disabled while an execution is under way.             *)
Execute ==
    /\ OnPage
    /\ parsed[Shown.id] # None
    /\ KindOf[parsed[Shown.id]] # "UNKNOWN"
    /\ Cardinality(running) < limits.running
    /\ running' = running \cup {Outcome(Shown.id, Shown.code)}
    /\ UNCHANGED <<tabs, page, snippets, flixLoaded, parsing, outcome, kept>>

(* executeScript, executeTransaction: a result, or the error of a script;  *)
(* after any other error there is no outcome at all.                       *)
ExecutionEnds(r) ==
    /\ running' = running \ {r}
    /\ outcome' \in {r, NoOutcome}
    /\ UNCHANGED <<tabs, page, snippets, flixLoaded, parsing, kept>>

(* SWR revalidates every key when the window gets the focus.               *)
FocusWindow ==
    /\ OnPage
    /\ parsed' = [id \in Ids |->
            IF id \in snippetFirst THEN CHOOSE c \in SnippetHook(snippets, page, id) : TRUE
            ELSE IF TabHook(definitions, id) # {} THEN CHOOSE c \in TabHook(definitions, id) : TRUE
            ELSE parsed[id]]
    /\ UNCHANGED <<tabs, page, snippets, flixLoaded, snippetFirst, shared, execution, kept>>

Step ==
    \/ AddNew \/ EditArguments \/ Leave \/ Enter \/ Reload \/ LoadFlix \/ Execute \/ FocusWindow
    \/ \E i \in DOMAIN definitions :
          SelectTab(i) \/ CloseTab(i) \/ Discard(i) \/ \E name \in Names : Save(i, name)
    \/ \E i \in DOMAIN snippets : Delete(i) \/ \E name \in Names : Rename(i, name)
    \/ \E code \in Codes : EditCode(code)
    \/ \E side \in {"templates", "history"} : ShowMenu(side)
    \/ \E filter \in Filters : OpenTemplate(filter)
    \/ \E code \in Transactions : OpenTransaction(code) \/ OpenInteraction(code)
    \/ \E r \in running : ExecutionEnds(r)

Next == Step /\ UNCHANGED limits

Spec == Init /\ [][Next]_vars

---------------------------------------------------------------------------

(* "Make sure there is always at least one tab open. Otherwise, the UI     *)
(* looks weird." (interaction-registry.context.tsx:69): whatever is opened,*)
(* closed, discarded or reloaded, the page shows one of its tabs: the      *)
(* focused one, or the one that was the first when the page was entered.   *)
TabShown == OnPage => ShownIn(definitions, focused, fallback) # {}

(* The outcome that is shown belongs to the code of the tab that is shown, *)
(* although all tabs share one component, or is the transaction the tab    *)
(* was opened for -- unless it answers an execution during which the user  *)
(* went to another tab or changed the definition.                          *)
OutcomeOfShown ==
    OnPage /\ outcome.shown /\ outcome # LateOutcome =>
        outcome \in {Shown.initial, Outcome(Shown.id, Shown.code)}

(* "Provide a different ID as the template, otherwise parsed data won't be *)
(* reflected correctly when changing source code."                         *)
(* (InteractionTemplates.tsx:124): the form of a tab is the one of its     *)
(* code, although answers are cached by id and a saved tab shares its id   *)
(* with the snippet -- unless the page was entered with both of them.      *)
ParsedIsOwn ==
    OnPage => \A d \in Range(definitions) : d.id \notin shared => parsed[d.id] = d.code

(* A tab that is closed without a question, because a snippet has its      *)
(* code, leaves that code among the snippets, over reloads and whatever    *)
(* else is saved, until a snippet of that name is deleted or the tab with  *)
(* the snippet's id is saved with other code.                              *)
ClosedWorkStays == \A code \in kept : \E i \in DOMAIN snippets : snippets[i].code = code
==============================================================================
