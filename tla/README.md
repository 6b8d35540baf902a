# Verification of the EVER wallet extension

The extension is a wallet with three kinds of processes: the popup (React), a content
script and an injected provider in every web page, and one background page that owns
all state, the network connection and the keys.  JavaScript runs one job at a time, so
everything that is hard here happens *between* jobs: an operation reads a map or a
connection, awaits a mutex, a request, the storage or the user, and goes on with what it
read.  This project models the extension at that grain.  **An action is the code between
two awaits.**

Source paths below are relative to the extension's `src/`; `background/` stands for
`src/app/background/` and `popup/` for `src/popup/`.

## 1. Inventory

| Component | State | Operations | Hard behaviour | What makes it correct |
|---|---|---|---|---|
| Connection controller (`background/controllers/ConnectionController.ts`) | the one transport, the shown, the pending and the stored network, `_networkMutex`, `_acquiredConnectionCounter`, `_release`, the running connection test; in `GqlSocket` the current endpoint and the promise of the next | `use`, `acquire`, release, `startSwitchingNetwork`, `switch`, `trySwitchingNetwork`, `initialSync`; the choice of an endpoint | a switch waits behind users and users behind a switch; a test is cancelled by a later switch; storage fails; the page restarts; endpoints answer in any order | nobody uses a freed transport; users are counted; the three records of the network agree; everyone is served; the endpoint is a good one |
| Contract subscription (`background/utils/ContractSubscription.ts`) | polling method, current and suggested block, refresh timer, `_contractMutex` | the polling loop, `prepareReliablePolling`, `use`, `skipRefreshTimer`, `pause`, `stop` | the loop, the senders and `stop()` interleave; requests fail and are retried; messages expire | no use after free; `stop()` ends; an included message is never reported expired |
| Token wallet subscription (`background/controllers/AccountController/TokenWalletSubscription.ts`) | refresh timer, `_tokenWalletMutex`, the wallet, the connection | the refresh loop, `use`, `pause`, `stop` | `stop()` during a sleep, a refresh or a call | no refresh of a freed wallet; `stop()` gives the connection back |
| Subscription controller (`background/controllers/SubscriptionController.ts`) | `_tabs`, `_subscriptionTabs`, `_subscriptions`, `_sendMessageRequests`, `_subscriptionsMutex` | subscribe, unsubscribe, leave all, `sendMessage`, reports of messages, `stopSubscriptions` | tabs close while messages are unanswered; calls overlap, as in one JSON-RPC batch; everything is stopped for a network change | one subscription per address, alive exactly while it is needed; every sender is answered |
| Account controller (`background/controllers/AccountController/index.ts`) | keys, accounts, their wallets, message requests, tables of transactions, `_accountsMutex`, the copies in storage | create, remove, select, rename accounts; start and stop wallets; tokens; send; reports of the wallets; `logOut`, import, start-up | copies of state kept across awaits; wallets created side by side, one of which fails; a message under way while its wallet is stopped | what is shown is stored and subscribed to; no wallet is out of reach; senders are answered; multisig confirmations are counted once |
| Background controller (`background/NekotonController.ts`) | connections by page, origin and tab; expected windows; the delay of updates | `changeNetwork`, `importStorage`, connections, `logOut`, `sendUpdate` | one operation over all controllers, of which one step may fail; frames of one tab; updates in batches | a network change ends; the registries know exactly the open pages; a change announced is shown |
| Approvals, permissions, windows (`background/controllers/ApprovalController.ts`, `PermissionsController.ts`, `background/index.ts`, `shared/platform.ts`) | pending approvals, permissions and metadata by origin, windows by group | ask, approve, reject; request, change, remove permissions; open a window | the user answers after the state has moved on; two triggers at once; windows that fail to open | an approval is answered once and goes with its request; permissions are the last the user agreed to |
| Provider middleware (`background/providerMiddleware.ts`) | | one handler per provider method | handlers of one batch run together | each asks for what it needs, and ends |
| JSON-RPC engine, streams, inpage provider, content script (`shared/jrpc.ts`, `shared/utils.ts`, `src/app/provider/`) | numbers and callbacks of requests under way | request, batch, response, notification | numbers wrap; pages close with requests under way | each request has its own answer |
| Ledger bridge (`background/ledger/LedgerBridge.ts`, `popup/components/Ledger/`) | listeners for replies, the page of keys; in the popup the page shown, what is loading or saving | questions to an iframe, pages of keys, signatures; in the popup turn a page, check the connection, save | replies matched by action only; a page that fails half-way, is left, or is asked for twice | the page shown is the one the bridge turns from, and its keys are its own |
| Popup: forms that sign (`popup/components/Send`, `MultisigTransaction`, `DeployWallet`, `Approvals`) | what is filled in, the chosen key, the prepared message, what is in process | fill in, prepare, fees, password, sign, reject | answers come after the key or the form has changed | what is signed is what was prepared; once |
| Popup: seeds, keys, accounts (`popup/providers/AccountabilityProvider.tsx`, `popup/components/AccountsManagement` and others) | the page, the current seed, key and account | handlers that make several calls in a row | a call fails, or the popup closes, between two of them | accounts have keys; the selected account is listed |
| Popup: state and connection (`popup/index.tsx`, `popup/providers/RpcStateProvider.tsx`) | the state shown | load, first answer, updates | an answer older than the update it replaces; metadata whose changes nobody announces | what is announced is shown, and nothing older than the first answer |
| Popup: lists and other panels | presentation | | | not modelled |
| Notifications, localization, base controller, storage connector | one-line state; I/O | | | not modelled |
| Nekoton core (`nekoton/`, Rust) | contract objects, key store | called from all of the above | external library | taken as described under 3.2 |

How they interact:

* The **connection controller** hands its transport to the others.  `acquire()` gives it
  for the life of a subscription, `use()` for one call.  A network switch takes the same
  mutex, so it waits for the last release.
* A **contract subscription** (and so a wallet of an account) is created on an acquired
  transport and releases it in `stop()`.  It calls back (`onMessageSent`,
  `onMessageExpired`, `onStateChanged`) from inside `refresh()` and `handleBlock()`.
* The **subscription controller** creates contract subscriptions for pages, and stops
  one when neither a tab nor an unanswered message needs it, all under one mutex.  The
  **account controller** does the same for the wallet's own accounts and tokens.
* `changeNetwork()` stops the subscriptions of both, switches the network, and starts
  those of the accounts again; pages subscribe again when they are told.
* Requests of pages reach the controllers through the streams, the JSON-RPC engine and
  the **provider middleware**, which asks the permissions controller first and the user,
  through the approval controller and its window, second.  The requests of one batch run
  concurrently (`shared/jrpc.ts:155`).
* The **popup** calls the background by a port and is told of changes over the same port;
  its handlers make their calls one by one, with what they read when they started.

`PROJECT.json` lists all components, and under "hazards" what can go wrong in them that
a test would hardly reach, each at its line.

## 2. Modules

| Module | Code it models | Role |
|---|---|---|
| `ConnectionController` | `ConnectionController.ts` 125–496 | the connection, its users and its switches |
| `GqlSender` | `ConnectionController.ts` 513–682 | the choice of the GraphQL endpoint |
| `ContractSubscription` | `ContractSubscription.ts` 34–233; the sending in `SubscriptionController.ts` 206–218 | one subscription |
| `MessageDelivery` | | abstract: what a subscription promises to a sender |
| `TokenWalletSubscription` | `TokenWalletSubscription.ts` 18–167 | one token wallet |
| `SubscriptionController` | `SubscriptionController.ts` 44–421 | the subscriptions that pages share |
| `SharedSubscription` | | abstract: what those who share a subscription may count on |
| `AccountController` | `AccountController/index.ts` (accounts, wallets, messages), `NekotonController.ts` 384–467 | the accounts and the operations over all of them |
| `AccountKeys` | `AccountController/index.ts` (keys and settings) | the key store, the keys shown, the settings |
| `WalletTransactions` | `AccountController/index.ts` (handlers of the wallets), `shared/utils.ts` 584–593 | the tables of transactions |
| `ProviderApi` | `providerMiddleware.ts`, `ApprovalController.ts`, `PermissionsController.ts`, `NekotonController.ts`, `background/index.ts`, `shared/platform.ts` | requests of pages, approvals, permissions, windows |
| `ProviderStreams` | `shared/utils.ts`, `shared/jrpc.ts`, `NekotonController.ts` 541–737, `NekotonInpageProvider.ts` | requests and answers on the wire |
| `LedgerBridge` | `LedgerBridge.ts` 41–177, `AccountSelector`, `LedgerConnector`, `AccountManager`, `SignIn` of `popup/components/Ledger/` | the hardware wallet and the pages of its keys |
| `SigningForms` | the forms listed above | from filling in to a signature |
| `StateUpdates` | `NekotonController.ts`, `PermissionsController.ts` 248–271, `RpcStateProvider.tsx`, `popup/index.tsx`, `ControllerRpcClient.ts` | how the popup learns the state |
| `AccountsManagement` | `AccountabilityProvider.tsx`, `AccountsManagement/`, `Ledger/`, `AccountModal`, `AccountDetails` and the pages around them | seeds, keys and accounts in the popup |
| `MCConnectionController`, `MCSubscriptionController`, `MCAccountController`, `MCProviderApi` | | values for TLC |
| `MCParts` | | nine small machines side by side, for one run |
| `ConnectionControllerProofs`, `ContractSubscriptionProofs`, `SubscriptionControllerProofs`, `AccountControllerProofs`, `AccountBooksProofs`, `ProviderApiProofs`, `PartsProofs` (eight of the machines of `MCParts`) | | theorems |
| `FifoMutex` | | lemmas about the queue of a mutex |

`PROJECT.json` ("map") gives the lines of every definition.

The modules meet at their interfaces.  The controllers see a subscription as created,
stopped and freed: that stopping ends is `StopEnds` of `ContractSubscription` and
`TokenStopEnds` of `TokenWalletSubscription`.  `AccountController` composes the account
controller with `changeNetwork()`, `importStorage()` and `logOut()` of the background
controller; it sees the connection as a counter of running wallets (`NoneLive`): that the
connection it waits for is handed out, and switched when all have released it, is
`UsersAreServed` and `SwitchesEnd` of `ConnectionController`.  `ProviderApi` composes the
middleware with approvals, permissions and windows, and sees the other controllers as
calls that end.  `AccountsManagement` takes the calls of the account controller with the
ways they fail.  These interfaces are assumptions here; one composition of everything is
beyond TLC.

## 3. How the models correspond to the code

### 3.1 ConnectionController and GqlSender

`Users` are calls of `use()` and `acquire()`, `Switchers` calls of
`trySwitchingNetwork()`, `Sync` the call that `initialSync()` makes while the page loads.
`networkMutex` is the FIFO of the semaphore, its head the owner.  `userPc` is where a
call stands: *waiting* in `_networkMutex.acquire()`, *passing* through
`_acquireConnection()` because the counter was above zero, *holding* the transport, or
*leaked*: counted, but with its release function lost.  `held` says whether the
transport a user has read is still alive.  `switchPc` follows a switch from the queue
through its handle, `_connect()`, the connection test and the storage.

Details that matter and are kept: the counter is raised before the await, the connection
is read after it (`Acquire`, `ReadConnection`); a running test is cancelled when another
switch *asks* for the mutex (`StartSwitching`); a cancelled test returns like a success
(`CancelledTest`, which is why `SettledNetwork` speaks of live transports only); the old
transport is freed before the new one exists (`FreeConnection`); the new one stays if
saving its id fails (`SwitchFails`); the fallback visits the other networks of the group
by ascending id, queueing anew each time (`TryNext`); `initialSync()` retries for ever
(`GiveUp`).  `Restart` leaves only the stored id.

In `GqlSender` a query finds an endpoint that is fresh, joins the resolution under way, or
starts one that asks all endpoints at once.  The first that is fast enough is taken,
otherwise the fastest when all have answered; when none has, all are asked again, and
after the last try the promise is rejected and left in place (`TryAgain`), so that every
later query fails (`JoinResolution`).

Not modelled: clock synchronisation, proto and wire.

### 3.2 ContractSubscription and TokenWalletSubscription

`loopPc` is where the loop of `start()` awaits, `stopPc` where `stop()` does, `sendPc`
where each sender does, `contractMutex` the FIFO of `_contractMutex`.  `Iterate` is the
condition of the `while` and the choice between the two methods; `StartBlock` the rule by
which a reliable iteration takes up the suggested block; `Observe` what the contract
object reports.  `response` is what an awaited request has read: the head of the chain
may move between the reading and the continuation.

The contract object and the chain are external.  They are taken from how the code uses
them: `refresh()` sees every block up to the head it read, `handleBlock()` sees one
block, a pending message found in a block is reported sent, one whose deadline has passed
is reported expired, and the polling method is reliable while a message is pending.

The loop's branch for reliable polling with no known block, with its request for the
latest block, has no action: a loop that came there (`loopPc = "latest"`) would stay, and
`StopEnds` and `MessageSettles` would fail.  A `pause()` that is followed by another
`start()` is not modelled: no code does it.

A token wallet has only the timer and `refresh()`: `Loop` queues for `tokenMutex` like the
callers of `use()` do; `PauseToken`, `LoopEnds` and `FreeToken` are the three parts of
`stop()`; a failed `subscribe()` gives the connection back.

### 3.3 SubscriptionController

`Calls` are the calls of pages, `Messages` those of `sendMessage()`, `Stoppers` those of
`stopSubscriptions()`.  Each queues for `subscriptionsMutex` with its arguments (`args`),
takes its turn (`Query`, `Unsubscribe`, `JoinSubscription`, `StartCreating`, then
`CreateSubscription` or `CreationFails`; or `LeaveUnused`, which is `_tryUnsubscribe()`
after a request was settled) and goes back to where its caller awaits (`Continuation`).
`Kinds` are the updates a page can ask for; `params` is what each tab asked for; an empty
set of them ends its subscription.

`_sendMessageRequests` is a map of maps, and the inner map is deleted when it becomes
empty.  A call that has read the inner map and awaits before it uses it may therefore
hold a map that is no longer in place.  `seen[m]` records this: the call found no map
("absent"), the one still in place ("current"), or one that was since replaced.
`Overlapping` says whether calls share a turn of the event loop, as those of one batch do.

Not modelled: what the notifications to the tabs carry (they only read these maps), and
two identical messages with one hash.

### 3.4 AccountController, AccountKeys, WalletTransactions

A behaviour of `AccountController` runs the operations of one workload side by side: `op`
says which each call is, `pc` where it stands, `accountsMutex` is the FIFO of
`_accountsMutex`.  A *wallet* is the subscription of an account (`root = None`) or of one
of its tokens, `mapped` are those in the two maps, `live` counts the running ones, which
hold the connection.  `stored` is the storage, `entries` what is shown, `local` what a
call has read and not used yet: a copy of the accounts, the group of the network.

`startSubscriptions()` is `QueueStart` (which reads the group before it waits),
`StartSubscriptions`, then `BeginWallet`, `WalletCreated` and `WalletFails` for each wallet
side by side, an account's before those of its tokens; the first failure ends the call
and gives the mutex back while the rest go on.  `stopSubscriptions()` is `BeginStop`,
`StopWallet`, `ClearWallets`; `logOut()` goes on with `ClearStorage` and `ResetState`,
`changeNetwork()` with `SwitchNetwork`, which needs that nobody holds the connection, and
a new start.  `createAccount()` is `AddAccount`, `CopyAccounts`, `ShowAccount`: the copy is
made before an await and put in place after it.  `importStorage()` replaces the storage,
reads it (`ReadStorage`), shows it (`SyncState`) and changes the network.
`updateTokenWallets()` is `QueueTokens`, `UpdateTokenWallets`, the creation of the enabled
ones, and `ReloadAccount`.  A message registers its callback, waits for its wallet, looks
it up again and is sent; the wallet reports it sent or expired.

Some orders are legal and lose something.  They are recorded, and the properties name
them: `strayed` (a call failed with wallets still being created), `overlapped` (the
accounts changed between the halves of another call), `outdated` (the network changed
under a call that had read its group), `removed` (`removeAccount()` tells the senders
nothing).

`AccountKeys` has the same shape for the key store: single changes read the keys shown
after the store has answered, `createDerivedKeys()` and `removeKeys()` before.  The
settings (names, recent and selected keys, external accounts) are written through.

`WalletTransactions` follows one account.  Its wallet finds new transactions, or older
ones, in batches of any size.  `AggregatedBy` is the loop over a batch: a recursive
function whose value at n is the table of multisig transactions after n passes, the newest
transaction first.  A transaction that is not a multisig call ends the loop
over its batch (`EndsLoop`, recorded in `passed`).  The other tables are rows that are
written, kept or cleared.

### 3.5 ProviderApi, ProviderStreams

A behaviour of `ProviderApi` runs the requests of one workload.  The methods fall into
the classes by what their handlers do: compute, ask the network, call the subscription
controller, ask the user, sign.  `pending` is the table of approvals; `approvalWindow`,
`mainOpen`, `trigger` and `reserved` are the window of approvals, the main popup, the
`triggerUi()` of each approval, and the count of windows that are expected
(`reservedControllerConnections`).  `Clear` runs when the last window is gone and none is
expected.  `changeAccount()` copies the permissions before it asks and writes the copy
back (`copied`).  What signs keeps its approval until it has signed; a message that cannot
be prepared keeps it for ever.  `StoreMetadata` and `ShowMetadata` are
`addDomainMetadata()` with its queue of temporary origins.

`ProviderStreams` has a port for each frame of a page, with its numbers (`idCounter`), the
requests that wait under them, an engine for each connection, and the three registries of
the background.  `Batch` groups the requests sent in one call, whose answers are
delivered together.

### 3.6 LedgerBridge

`bridgeCall` has the calls of the bridge that are under way.  A call is a loop of questions,
one for a signature or a single key and `PerPage` for a page; `got` tells of each answer
whether it is to the question asked.  `posted` are the questions before the frame.  Every
listener hears every message, takes the first and is removed: a reply to another action
is an error, one to the same action is taken for its own (`Hear`), and the next question
of its loop is posted (`Reply`).  A question posted before the frame has loaded is lost, and
its listener takes the next message, whatever it is.  `shared` records the calls that had
something else under way beside them: their keys may be mixed up.

`page` is the number the bridge keeps, and moves when a page is asked for, not when it
comes.  So a page that fails leaves the number where no selector shows it.  The popup mends
this by starting again: a failed page, also one of a selector that is no more ("stale load"),
leads to the connector, which asks for the first page, and on to a new selector, which asks
for it as well.  `role` says who waits for a call, `busy` what the loader covers, and
`leftSaving` that a selector was left while it was saving, whose `onSuccess()` then goes
on under another.  What the keystore asks the bridge for (`AskForOther`) comes at any moment.

One window is modelled: two would turn the same number, and each could show a page the
other has left.  One selector at a time is left saving.  `close()` has no caller.

### 3.7 SigningForms, StateUpdates, AccountsManagement

One behaviour of `SigningForms` is one form of one kind.  `edit` counts what the user
filled in, `prepared` is the message, for a key and an edit; `preparing` and `estimating`
are questions asked and not answered, whose answers change the form wherever it is by
then.  `inProcess`, `submitted` and `failed` are the flags that disable its buttons.
`SwitchApproval` mounts an approval anew, which forgets them.

`StateUpdates` has versions for states: `announced` is that of the four controllers whose
changes the background subscribes to (`NekotonController.ts:198`), `metadata` that of the
pages' metadata, which `getState()` includes (line 380) and whose changes nobody hears of
(`ChangeMetadata`): they come with the next update of the others.  `updateTimer` and
`shouldRepeat` are the debounce of the background, past which `changeNetwork()` sends an
update of its own (`EndNetworkChange`); `toPopup` is the port.  The popup listens before it
asks and loads its code before it shows the answer, which may replace a newer update
(`replaced`).

`AccountsManagement` has the page (`place`), the state of the background (`stored`), and
the handler under way (`pending`): a sequence of `try` blocks, each a sequence of calls
still to be made.  A call succeeds (`Outcomes`), or fails with what it had done by then
(`Failures`), and the rest of its block is skipped (`item`, `undo` and `stay` say what
else follows).  The page of the Ledger removes and creates the checked keys in the order
they were checked in, a block for each (`LedgerBlocks`, `Orders`).  `ensureAccountSelected()`
keeps an account that is stored and a seed that is set; otherwise it takes any account,
and the seed of its key, or of a key it is linked to (`Ensured`, `EnsuredBy`, `SeedsFor`).
Closing a drawer leaves the handler going; closing the window, or losing the focus, does
not.  `strays` and `astray` are the accounts and the selection that are known to have been
lost.  Initially they are what an earlier popup has left in the storage.

## 4. Runs

| Run | Question | Instance | Distinct states |
|---|---|---|---|
| `conn_safety` | do mutex, counter and transport stay consistent? | 3 users, start-up and 2 switches, 3 networks in 2 groups (one local), failing tests and storage, cancelled tests, restarts | 1.7 M |
| `conn_liveness` | do the records of the network agree, are users served, do switches end? | 2 users, start-up and 2 switches, 2 networks, storage that works | 78 k |
| `conn_usage` | *violation*: can a switch free a transport in use? | 2 users, 1 switch | |
| `conn_asserted` | *violation*: is what `use()` and `acquire()` hand out always a connection? | 2 users, 1 switch | |
| `contract_stop` | is the contract freed under nobody, and does `stop()` end? | 2 concurrent senders, 4 blocks | 70 k |
| `contract_reliable` | is each message reported once, rightly and at last? | 2 senders in turn, 6 blocks, lifetime of 2 | 126 k |
| `sub_sharing` | is nothing left over, is everyone answered? | 2 tabs, 1 address, 2 kinds, 1 call at a time, 2 messages | 114 k |
| `sub_stop` | one subscription per address, stopped only for want of users, whatever is stopped meanwhile? | 2 tabs, 2 addresses, 1 call, 2 overlapping messages, 1 stop | 4.5 M |
| `sub_batch` | *violation*: does every unanswered message have its request? | 2 overlapping messages | |
| `accounts` | do the wallets follow the accounts, what is shown what is stored, is every sender answered, does every call end? | 2 accounts, 1 token, 2 networks, 1 message, every pair of 14 operations | 747 k |
| `provider` | do approvals end with their requests, are permissions those granted, does every request end? | pairs of requests: 10 that ask the user or change what is kept, with each other and with 8 more | 374 k |
| `parts` | the questions of nine small machines | see below | 467 k |

`parts` runs nine machines that share no state, one in each behaviour: the others stay as
they begin.  It asks: are multisig confirmations counted once (`AggregatesWhatIsFound`);
is a token wallet never refreshed after its end, and does `stop()` end
(`RefreshesLiveWallet`, `TokenStopEnds`); does a selector of the Ledger's keys show the
page that the bridge turns from, with the keys of its accounts (`PagesAreOwn`); is the endpoint a good one (`EndpointIsFastest`); are the keys shown
those of the store (`KeysShownAreStored`); do the registries know the pages, and are their
calls answered (`RegistriesKnowThePages`, `CallsAreAnswered`); is what is signed what was
prepared, and once (`SignedAsPrepared`, `SignsOnce`); is what is announced of the state shown
(`ChangesAreShown`); do keys outlive their accounts, and is the selected account listed
(`KeysOutliveAccounts`, `SelectedIsListed`).

Why these bounds are enough to see the interesting cases.

* Connection: the first user takes the mutex, the second only counts itself, and the third
  arrives while one leaves.  One switch is under way, one queued behind it, and the
  start-up sync, so that a test can be cancelled by a switch that is itself overtaken.  Two
  networks of a group make a fallback, the third has no group to fall back to.
* Contract: one sender that the loop waits for and one that queues, with the second's
  suggested block in the way of the first.  `MaxBlock` exceeds what two messages need to
  be sent, included or expired; `NewBlock` keeps enough blocks in reserve for a message
  about to be sent, so the bound never decides an outcome.
* Pages: two tabs and two messages on one address are the least that share a
  subscription and a map of requests; two addresses are the least that share a mutex and
  a list to clear.  A call in `Calls` is reused without limit, so one of them makes any
  sequence of calls, next to the messages and the stop.
* Accounts: two calls, each any operation (and a removal before a creation of the same
  account), give every interleaving of two halves; the message is a third actor.  The
  first account may have a token in one network only, so that a start in the wrong
  network shows.  Two accounts are the least of which one fails while another is created.
* Provider: two requests of one origin, or of two, and one of every class.
  `MaxTempOrigins = 1` makes the queue of origins overflow at the second.
* Parts: `MaxRefreshes = 3`, `MaxEdits = 2` and `MaxHandlers = 2` bound behaviours that would
  repeat; two calls of the Ledger's bridge are a page and what comes between (a stale
  page, a check, the keystore's question), and two pages of two keys are the least that can
  be turned and fail half-way.  `MaxVersion = 2` makes one change before the popup's answer
  and one while the timer runs, `MaxMetadata = 1` a silent one before, between or after them,
  and `MaxQueue = 2` updates of the ends of network changes next to these.  Two handlers, from an empty wallet or
  from one with two seeds (`MCKept`), make every pair of a handler and what it left behind.
  `MaxId = 4` with `FirstIds = {1}` makes the numbers wrap round to 0 within three requests.
  `Retries = 2` is one retry and the last; `Latencies` hold no answer, a fast one and two
  slow ones.  `MCChains` are chains of up to four transactions of every kind with two
  multisig transactions, and every division of them into batches is tried.

`CHECK_DEADLOCK FALSE` is set where the system comes to rest: a stopped contract
subscription, a chain at its bound, a workload that is done, a machine at its bound.

### Fairness

* Ready jobs run, and every request ends: the code bounds its requests by timers (the
  test of a connection after ten seconds, a block after sixty).  This is weak fairness
  of each process's steps, in `AccountController` of each call that has begun and of each
  message.  Calls by users and pages are never assumed.
* The callback of `use()` ends; the holder of `acquire()` may keep the connection for
  ever.  `SwitchesEnd` therefore assumes that the users are all gone again and again, and
  `CallsEnd` excepts a change of network while a wallet runs.
* For `contract_reliable`, and `StopEnds` with it, a request that is made again and again
  succeeds at last (strong fairness of the four steps that need one).  The loop retries
  for ever and promises nothing on a network that never answers.
* The subscription of `sub_sharing` reports the messages it waits for: that is
  `MessageSettles`.  A wallet of `accounts` does the same.
* `provider`: the network and the storage answer, the browser shows a window that was
  asked for or fails to, and the user does not keep a window open for ever
  (`ApiFairness`).  That a window connects is not assumed, nor that a user asked by two
  requests opens the wallet once more: hence `Stranded`, and the second clause of
  `RequestsEnd`, which assumes that he does (`[]<>mainOpen`).
* `parts`: the loop of a token wallet, the port, the engine and the handlers of a frame, the
  timer of the updates, the loader of the popup's code, and the popup's port, which brings
  what it has even when there is ever more (`HearMessage`).  The Ledger has a safety
  property only, and no fairness: a frame may never answer.

## 5. What was found

1. `conn_usage`.  A user that finds the counter above zero does not wait for the mutex,
   even while the user that raised it is itself waiting behind a switch.  It reads the old
   transport, and the switch frees it, against "Must be called after all connection usages
   are gone" (`ConnectionController.ts:142`).
2. `conn_asserted`.  `requireInitializedConnection` runs before the await of the mutex and
   `_initializedConnection` is read after it.  Behind a failed or cancelled switch it is
   undefined; the caller of `acquire()` throws, its release is lost, and the counter never
   returns to zero.
3. `sub_batch`.  Two messages to one contract, whose calls begin in one turn, as those of one
   batch may, whatever their tabs: both find no map of requests, and the second map
   replaces the first.  The first sender is never answered.

Much else holds only but for exceptions, which the properties name.  Nothing in the
repository claims otherwise, so these are hazards and no findings:

| Property | Does not hold |
|---|---|
| `SettledNetwork` | with storage that fails: the transport of a failed switch stays in use |
| `NoFalseExpiry` | with senders that overlap: the second suggested block replaces the first |
| `MessagesAreAnswered` | while `stopSubscriptions()` runs: a message settled as it awaits makes its next rejection throw, and `changeNetwork()` fails with the accounts stopped |
| `NoOrphanWallet`, `CallsEnd` | after `startSubscriptions()` failed with wallets still being created (`strayed`): they are put into the map behind the next call |
| `WaitingIsWatched`, `SendersAreAnswered` | for a message whose account is removed: its sender waits for ever |
| `ShownIsStored`, `KeysShownAreStored` | for calls that overlap, and ones that fail half-way |
| `TokensAreListed` | also when the network changes under a call that has read its group |
| `AggregatesWhatIsFound` | behind a transaction that is no multisig call in one batch; for an account removed and added again |
| `ApprovalsHaveWaiters` | for a message that cannot be prepared: its approval stays |
| `PermissionsAreGranted` | for an origin whose permissions changed while the user chose another account for it |
| `RequestsEnd` | while a window is expected that does not come (`Stranded`): it failed to, or the request that raised the count found a window open and only focused it (`platform.ts:86`), and closing that window then clears nothing (`NekotonController.ts:530`).  All requests wait until the user opens the wallet again |
| `PagesAreOwn` | as to keys: for calls with something else under way beside them, which take each other's answers; as to pages: for two windows at once, which are not modelled |
| `RegistriesKnowThePages` | for the tabs of an origin, once one of their frames was closed |
| `CallsAreAnswered` | for the request that is given the number 0, and its batch |
| `ChangesAreShown` | until the next announced change, when the first answer replaces an update; and for metadata that change alone |
| `SignedAsPrepared` | for a transfer of tokens |
| `SignsOnce` | for a deployment with a cached password, an approval that signs data, and one that is mounted anew |
| `KeysOutliveAccounts` | for accounts that were hidden or of another seed when their key was removed, those of a Ledger, and those whose creation failed after the fact |
| `SelectedIsListed` | for an account created under a seed that is not selected, and after an interrupted switch |

## 6. Proofs

All proofs are for arbitrary constants, from each module's assumption (the sets of
processes are disjoint, networks are numbers, `None` is none of the values, and so on),
and every one rests on an inductive invariant.

* **ConnectionControllerProofs.**  `TypeCorrect`, `SwitchesExclude`, `OneTurn`,
  `Conservation`, `Kept`, `Settled`.  `IInv` is the conjunction of types, `SwitcherOwnsMutex`,
  `UsersShareOneTurn` and `UsersAreCounted`, no one of which is inductive alone.  The
  count is needed to know that the user who finds the counter at one is the last; the one
  place of the users in the queue, to know that the head he gives back is theirs and not a
  switch's; the switch's ownership, to know that no user's place is first during one.
  `Kept` then follows: while `_release` is set the head of the queue is a user, and every
  step that touches the transport belongs to the head.  `Settled` (`SettledNetwork`) says
  which records agree at each place of a switch; only its owner moves between the places.
  It assumes `~SaveMayFail`, and must: TLC shows the property false otherwise.
* **ContractSubscriptionProofs.**  `TypeCorrect`, `FreedSafely`, `StopIsPrompt`,
  `NoneExpiresFalsely` (`NoFalseExpiry`), `Delivers`.  `IInv`
  adds to the types that calls into the contract are made by the owner of its mutex, that
  past the wait of `pause()` the loop has ended, and that a stop has cleared `_isRunning`
  and the timer.  The last step of `stop()` owns the mutex, so nobody is inside a call.
  `DeliveryInv` follows a block number from the sender to the loop: what a pending message
  is included in comes after the suggested block while the loop polls by its timer
  (`BlockInv`), after the loop's current block once it polls block by block, and the loop
  does that only for a message that has left (`MethodInv`), so nothing takes the suggested
  block away before.  Both theorems assume `~Concurrent`, that a message is settled before
  the next is prepared: with overlapping senders the second suggestion replaces the first,
  and TLC finds a message that a block includes reported expired.  `Delivers` is the
  refinement of `MessageDelivery`: what the contract observes is one `Report`.
* **SubscriptionControllerProofs.**  `TypeCorrect`, `Watched`, `Once` (`NeverTwice`),
  `NothingLeftOver`, `Implements`.
  `IInv` adds to the types that whoever is creating or stopping owns the mutex and has an
  address among its arguments, that a subscription is being stopped exactly while its
  owner is stopping it, that one is created only where there is none, and that the two
  records of who watches an address (`params`, `subscriptionTabs`) agree with each other
  and with the subscriptions.  The steps fall in two groups: turns of the mutex, proved
  one by one with lemmas for the end of a turn and for `_tryUnsubscribe()`; and all others,
  which leave the subscriptions alone (`OutsideStep`).  `Implements` maps each turn to the
  abstract step of its name, and every other step to `Ask` or to nothing.
  `NothingLeftOver` (`NoneLeftOver`) rests on `WantedInv`: a running subscription has a tab, a
  message, or somebody queued to look whether it is used.  It is stated for as long as no
  `stopSubscriptions()` has ended: one ends by dropping the requests, those of messages
  sent while it waited too, and nobody looks at their subscriptions again.  TLC shows such
  a subscription left running in the instance of `sub_stop`; `sub_sharing` has no stop.
* **AccountControllerProofs.**  `AccountsMutex`, `WalletsInReach` (`NoOrphanWallet`),
  `SendersAreWatched` (`WaitingIsWatched`).  `AccountInv` joins four facts.  `MutexInv`: the
  mutex is the queue, without repetition, of exactly the calls that wait for it or hold
  it.  `WorkInv`: unless strayed, only the owner has wallets to create or to stop, and what
  it creates is neither in the map nor still to be begun.  `NoOrphanWallet` needs it, for a
  wallet created twice would run twice.  `WatchInv`: a message that waits for its wallet
  has its request, and who is removing an account has entered it in `removed`.  Without
  the mutex nothing holds: two calls that stop at once would each take half the map for
  theirs.  Steps that release, that stop and that create have a lemma each; the others
  keep the relevant part of the state.
* **AccountBooksProofs.**  `ShownAgrees` (`ShownIsStored`), `TokensOfAccounts`
  (`TokensAreListed`).  Both properties speak of moments of rest; `BookInv` says what is so
  at every other moment.  Unless two calls have overlapped, one at most is between its
  halves, and what it will show when it is through (`WillShow`: its copy, or what is shown
  with its account added or removed) is what is stored.  The accounts whose tokens a call is
  writing are excused until it has listed them.  `ListedInv`: a token wallet in the map or
  being created is listed by its account in the selected network, or some call is about to
  take it away (`Doomed`).  It needs `NoOrphanWallet`: a change of network leaves no wallet of
  the old one only because the map holds all that run.
* **ProviderApiProofs.**  `Approvals` (`ApprovalsHaveWaiters`), `Granted`
  (`PermissionsAreGranted`).  Both are nearly inductive: `ApprovalInv` adds types and that
  only a message is ever being prepared (which is why no other request leaves its
  approval behind), `PermissionInv` types.  A request that asks raises `reserved`, so that
  the last clause survives it, and `Clear` restores it when the last window goes.
* **PartsProofs.**  For the token wallet `TokenQueue` (types and the queue of the mutex)
  and `TokenRefreshes` (`RefreshesLiveWallet`), whose invariant says that a stop past its
  wait has no loop beside it; for the Ledger `PagesOwn` (`PagesAreOwn`).  Its
  invariant says of a call alone under way that nothing is posted but its own question
  (`AloneInv`), so that no answer it takes is another's; of a page that a selector waits for, that no other
  is, and that its number is still the bridge's (`LoadInv`); and of a selector without a loader, that it shows that number (`ShownInv`).
  `FastestServes` (`EndpointIsFastest`): while a try measures, the fastest so far is the
  fastest of all that have answered, and nothing is asked outside a try.  `KeysAgree`
  (`KeysShownAreStored`): a call half-way has a copy of the keys that will be right when it
  is shown, and is alone unless overlapped.  `PagesAreKnown` (`RegistriesKnowThePages`) adds
  the types of the registries.  For the forms `SignatureAgrees` (`SignedAsPrepared`), by
  `AgreeInv`: a form to send keeps still while it signs, so that at the
  step of the password its message is for the chosen key and the last submitted edit;
  and `SignatureOnce` (`SignsOnce`), by `OnceInv`: while a signature is under way the form is in
  process and none was given, and after it the form stays in process or is closed.
  `FoundAggregated` (`AggregatesWhatIsFound`): `TransactionsInv` says that the transactions
  found are a segment, `first..last`, and what the table holds of it (`Made`).  A batch lies
  beside the segment (`BatchMakes`), and one pass of the loop counts one transaction more
  (`AggregateMakes`); that n passes count n is an induction on n (`LoopMakes`), and that
  the function of the loop exists at all another (`LoopRuns`).  Both use
  `AllNumbers`, which states induction for a set of numbers instead of a predicate, and
  follows from the well-foundedness of `<`.
  `ManagementTypes`, `KeysOutlive` (`KeysOutliveAccounts`) and `SelectedListed`
  (`SelectedIsListed`) are about the handlers of the management, whose invariants speak of
  the calls still to be made.  `KeysSafe`: each removal of a key has the removal of its
  accounts before it in its block, or those accounts are strays; each creation of an
  account has its key in the storage or before it in its block; and removals come before
  creations.  A call takes the first call away, a failure the first block, and both keep
  this.  `SelectedInv`: a handler under way either makes calls none of which can lose the
  selected account (`Calm`), or is one of five: a switch of account (`Switches`), a
  change of keys that spares the selected one (`Sparing`), the first seed (`NewSeed`), the
  first keys of a Ledger (`SignsIn`), the end (`Leaves`).  It also needs that with a
  panel open an account is selected, and that without a selected account none is hidden:
  otherwise `ensureAccountSelected()` could choose a hidden one.
* **FifoMutex** has what the proofs of the account controller and of the token wallet share:
  joining a queue at its end and leaving it at its front keep it without repetition.

Of the assumptions on constants these say more than that values are distinct and of their
kinds:

* an import names no network, for `importStorage()` calls `changeNetwork()` with no
  arguments (`NekotonController.ts:474`);
* a storage without a selected account has no accounts when the popup is opened (`Kept` of
  `AccountsManagement`), for `initialSync()` selects the first it loads
  (`AccountController/index.ts:148`);
* an account can be created for every key (`OwnerOf`), as a wallet's address is computed
  from the key alone.

Only model-checked:

* all liveness (`SwitchesEnd`, `UsersAreServed`, `StopEnds`, `MessageSettles`,
  `MessagesAreAnswered`, `TurnsEnd`, `CallsEnd`, `SendersAreAnswered`, `RequestsEnd`,
  `TokenStopEnds`, `CallsAreAnswered`, `ChangesAreShown`), which is beyond the provers.

Every invariant that a run checks is a theorem too.

## 7. Not modelled

* Names of accounts and keys, exports of keys, backups and the restoring of one: they
  read, or write one value that nothing else depends on.
* Connections to the background of pages that are part of the extension, the multiplexing
  of streams, the encoding of errors, the state and the events of the injected provider.
* Windows of other groups than the approvals' and the main popup's, their positions.
* The individual checks of parameters in the provider middleware (one `Refuse` stands for
  them), the computing of cells and addresses.
* A change of the asset in a form while a token message is prepared; amounts, comments and
  the checks of fields.
* Lists, panels, notifications, locales, styles; the storage connector (an adapter); the Rust
  core (cryptography, ABI, transports), but for the contract object of 3.2.
* `popup/pages/ConnectLedgerPage`, the older way to the Ledger's keys, which nothing imports; a
  second window with a selector of such keys.
* Clock synchronisation of the connection controller.
* All controllers in one composition, as said in section 2.

## 8. Plan

1. A page that subscribes during `changeNetwork()` (`SubscriptionController.ts:144`): the
   subscription and the connection controller with their calls reduced to places.
