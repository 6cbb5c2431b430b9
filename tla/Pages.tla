-------------------------------- MODULE Pages --------------------------------
(***************************************************************************)
(* The pages of the desktop application (apps/electron/src/renderer/       *)
(* router.tsx) and the components of packages/ui they are made of, by what *)
(* matters to the data: the queries (hooks of packages/ui/src/api.ts) that *)
(* a component keeps up to date while it is mounted, and the pages that it *)
(* links to.  A component is the set of the hooks and links it shows; it   *)
(* is given what the hooks above it have answered, and most show nothing   *)
(* of their own (FullScreenLoading) until their answer is there.           *)
(*                                                                         *)
(* swr is the cache of the query library: what each key was last answered. *)
(***************************************************************************)
EXTENDS Resources

Hook(name, of) == [kind |-> "hook", name |-> name, of |-> of]
Link(name, of) == [kind |-> "link", name |-> name, of |-> of]

FullScreenLoading == {}

(* The data of a hook, None while it has not been answered.                *)
Data(swr, name, of) ==
    IF Hook(name, of) \in DOMAIN swr THEN swr[Hook(name, of)].data ELSE None

Each(list, Component(_)) == UNION {Component(e) : e \in list}

---------------------------------------------------------------------------
(* accounts/ *)

AccountName(address) == {Hook("AddressNameInfo", address)}

AccountAvatar(address) == {Hook("AddressIndex", address), Hook("AddressNameInfo", address)}

(* The network is always the emulator, so links stay in the application.   *)
AccountLink(address) ==
    AccountAvatar(address) \cup AccountName(address) \cup {Link("account", address)}

AccountsTable(accounts) == Each(accounts, LAMBDA a : AccountLink(a.address))

PrivateKeyDisplay(key) == {Hook("ManagedKeys", None)}

AccountKeysTable(keys) == Each(keys, PrivateKeyDisplay)

(* Its link opens the card <address>/storage/<targetPath>, but cards are   *)
(* named <address>.<path>: no card is ever focused by it.                  *)
PublicPrivateStorageCard(item) == {Hook("TokenMetadataList", None), Link("account", item.address)}

InternalStorageCard(item) == {Hook("TokenMetadataList", None)}

AccountStorage(items) ==
    Each({i \in items : i.domain \in {"public", "private"}}, PublicPrivateStorageCard)
      \cup Each({i \in items : i.domain = "storage"}, InternalStorageCard)

---------------------------------------------------------------------------
(* contracts/, events/, blocks/ and transactions/ *)

ContractName(contract) == {Hook("TokenMetadataList", None)}

ContractTags(contract) == {Hook("FlowConfigContracts", None)}

ContractsTable(contracts) ==
    {Hook("FlowConfigContracts", None)} \cup Each(contracts, LAMBDA c :
        {Link("contract", c.id)} \cup ContractName(c) \cup AccountLink(c.address) \cup ContractTags(c))

TransactionLink(id) == {Link("transaction", id)}

(* Core events come from no contract.                                      *)
EventOriginLink(event) ==
    IF event.type.contract = None THEN {}
    ELSE {Link("contract", <<Prefixed(event.type.address), event.type.contract>>)}

EventsTable(events) ==
    Each(events, LAMBDA e :
        {Link("event", e.id)} \cup EventOriginLink(e) \cup TransactionLink(e.transactionId))

BlockLink(id) == {Hook("Block", id), Link("block", id)}

BlocksTable(blocks) == Each(blocks, LAMBDA b : {Link("block", b.id)})

TransactionsTable(transactions) ==
    Each(transactions, LAMBDA t : {Link("transaction", t.id)} \cup AccountLink(t.proposer))

TransactionOverview(transaction) ==
    TransactionLink(transaction.id) \cup BlockLink(transaction.blockId)
      \cup AccountLink(transaction.proposer) \cup AccountLink(transaction.payer)
      \cup Each(transaction.authorizers, AccountLink)

(* Opens a new interaction with the code of the transaction.               *)
TransactionSource(transaction) == {Link("interactions", transaction.id)}

---------------------------------------------------------------------------
(* The pages with tabs: only the content of the current tab is mounted. *)

TransactionTabs(transaction, overview, script) ==
    {t \in {"error", "overview", "script", "events", "signatures"} :
        /\ t = "error" => transaction.status.errorMessage
        /\ t = "overview" => overview
        /\ t = "script" => script}

TransactionDetailsTabs(swr, transaction, tab) ==
    LET events == Data(swr, "EventsByTransaction", transaction.id) IN
    {Hook("EventsByTransaction", transaction.id)} \cup
    CASE tab = "overview" -> TransactionOverview(transaction)
      [] tab = "script" -> TransactionSource(transaction)
      [] tab = "events" -> IF events = None THEN FullScreenLoading ELSE EventsTable(events)
      [] OTHER -> {}

TransactionDetails(swr, id, tab) ==
    LET transaction == Data(swr, "Transaction", id) IN
    {Hook("Transaction", id)} \cup
    IF transaction = None THEN FullScreenLoading
    ELSE TransactionOverview(transaction) \cup TransactionDetailsTabs(swr, transaction, tab)

BlockDetails(swr, id) ==
    LET block == Data(swr, "Block", id)
        transactions == Data(swr, "TransactionsByBlock", id) IN
    {Hook("Block", id), Hook("TransactionsByBlock", id)} \cup
    IF block = None \/ transactions = None THEN FullScreenLoading
    ELSE TransactionsTable(transactions)
           \cup (IF block.parentId = None THEN {} ELSE {Link("block", block.parentId)})

(* The list that a tab of an account is about.                             *)
AccountTab(swr, address, tab) ==
    LET shown(hook, Table(_)) ==
            IF Data(swr, hook, address) = None THEN FullScreenLoading
            ELSE Table(Data(swr, hook, address))
    IN CASE tab = "storage" -> shown("StoragesByAccount", AccountStorage)
         [] tab = "transactions" -> shown("TransactionsByAccount", TransactionsTable)
         [] tab = "contracts" -> shown("ContractsByAccount", ContractsTable)
         [] tab = "keys" -> shown("KeysByAccount", AccountKeysTable)

AccountDetails(swr, id, tab) ==
    {Hook(h, id) : h \in {"Account", "TransactionsByAccount", "ContractsByAccount",
                          "KeysByAccount", "StoragesByAccount"}}
      \cup {Hook("FlowConfigAccounts", None)} \cup
    IF Data(swr, "Account", id) = None THEN FullScreenLoading
    ELSE AccountAvatar(id) \cup AccountName(id) \cup AccountTab(swr, id, tab)

ContractDetails(swr, contract, tab) ==
    LET events == Data(swr, "EventsByContract", contract.id) IN
    {Hook("TokenMetadataList", None), Hook("FlowConfigContracts", None),
     Hook("EventsByContract", contract.id)}
      \cup ContractName(contract) \cup AccountLink(contract.address)
      \cup (IF tab = "events" /\ events # None THEN EventsTable(events) ELSE {})

EventDetails(swr, id) ==
    LET event == Data(swr, "Event", id) IN
    {Hook("Event", id)} \cup
    IF event = None THEN FullScreenLoading
    ELSE EventOriginLink(event) \cup TransactionLink(event.transactionId)

---------------------------------------------------------------------------
(* The interactions page: the blocks with their transactions, and the      *)
(* outcome of a transaction that was sent.                                 *)

InteractionHistory(swr) ==
    {Hook("Blocks", None)} \cup
    (IF Data(swr, "Blocks", None) = None THEN {}
     ELSE {Hook("TransactionsByBlock", b.id) : b \in Data(swr, "Blocks", None)})

TransactionOutcomeDisplay(swr, id, tab) ==
    LET transaction == Data(swr, "Transaction", id) IN
    IF id = None THEN {} ELSE
    {Hook("Transaction", id)} \cup
    IF transaction = None \/ swr[Hook("Transaction", id)].error THEN {}
    ELSE TransactionDetailsTabs(swr, transaction, tab)

InteractionsPage(swr, id, tab) ==
    InteractionHistory(swr) \cup TransactionOutcomeDisplay(swr, id, tab)

---------------------------------------------------------------------------
(* Around every page of a workspace *)

Logs == {Hook("OutputsByProcess", None), Hook("Processes", None)}

SideNavigation ==
    {Link(p, None) : p \in {"interactions", "accounts", "blocks", "transactions", "contracts",
                            "events", "settings"}}

SnapshotsManagerProvider == {Hook("Blocks", None), Hook("StateSnapshots", None)}

TemplatesRegistryProvider == {Hook("Contracts", None), Hook("WorkspaceInteractionTemplates", None)}

(* The list pages wait for their list, the page of a contract for it.      *)
ListPage(swr, hook) ==
    LET data == Data(swr, hook, None) IN
    {Hook(hook, None)} \cup
    CASE data = None -> FullScreenLoading
      [] data # None /\ hook = "Accounts" -> AccountsTable(data)
      [] data # None /\ hook = "Blocks" -> BlocksTable(data)
      [] data # None /\ hook = "Transactions" -> TransactionsTable(data)
      [] data # None /\ hook = "Contracts" -> ContractsTable(data)
      [] data # None /\ hook = "Events" -> EventsTable(data)

ContractDetailsPage(swr, id, tab) ==
    {Hook("Contract", id)} \cup
    IF Data(swr, "Contract", id) = None THEN FullScreenLoading
    ELSE ContractDetails(swr, Data(swr, "Contract", id), tab)

PageOf(swr, page) ==
    CASE page.name = "accounts" -> ListPage(swr, "Accounts")
      [] page.name = "account" -> AccountDetails(swr, page.of, page.tab)
      [] page.name = "blocks" -> ListPage(swr, "Blocks")
      [] page.name = "block" -> BlockDetails(swr, page.of)
      [] page.name = "transactions" -> ListPage(swr, "Transactions")
      [] page.name = "transaction" -> TransactionDetails(swr, page.of, page.tab)
      [] page.name = "contracts" -> ListPage(swr, "Contracts")
      [] page.name = "contract" -> ContractDetailsPage(swr, page.of, page.tab)
      [] page.name = "events" -> ListPage(swr, "Events")
      [] page.name = "event" -> EventDetails(swr, page.of)
      [] page.name = "interactions" -> InteractionsPage(swr, page.of, page.tab)
      [] page.name = "settings" -> {Hook("FlowCliInfo", None), Hook("Workspace", None)}

WorkspaceLayout(swr, page) ==
    SideNavigation \cup Logs \cup SnapshotsManagerProvider \cup TemplatesRegistryProvider
      \cup PageOf(swr, page)

Hooks(swr, page) == {x \in WorkspaceLayout(swr, page) : x.kind = "hook"}
Links(swr, page) == {x \in WorkspaceLayout(swr, page) : x.kind = "link"}

(* The tabs of a page; a page is entered at the first of them.             *)
Tabs(swr, page) ==
    LET transaction == Data(swr, "Transaction", page.of) IN
    CASE page.name = "account" -> {"storage", "transactions", "contracts", "keys"}
      [] page.name = "contract" -> {"code", "events"}
      [] page.name \in {"transaction", "interactions"} /\ transaction # None ->
             TransactionTabs(transaction, page.name = "interactions", page.name = "transaction")
      [] OTHER -> {}

==============================================================================
