-------------------------- MODULE AccountController --------------------------
(***************************************************************************)
(* The accounts of the wallet: the accounts in storage and those shown,    *)
(* the wallet subscription of every account and of every token of it in    *)
(* the selected network, the messages sent through them, and the calls of  *)
(* the background controller that stop and start them all.                 *)
(*                                                                         *)
(* An action is the code between two awaits.  A network is its group.  A   *)
(* live wallet holds the connection, so the network is switched when none  *)
(* lives (ConnectionController).                                           *)
(***************************************************************************)
EXTENDS Naturals, Sequences, FiniteSets

CONSTANTS
    Accounts, Roots, Groups,
    Calls,          \* concurrent calls of the controller
    Messages,       \* calls of sendMessage(), one message each
    To,             \* the account that sends a message
    Workloads,      \* which operation each call is, in one behaviour
    Books,          \* the accounts with which a behaviour may begin
    None            \* undefined

NoTokens == [g \in Groups |-> {}]
Book == [Accounts -> [Groups -> SUBSET Roots] \cup {None}]
Empty == [a \in Accounts |-> None]
Wallet == [account : Accounts, root : Roots \cup {None}]

Names == {"start", "create", "createMany", "ensure", "select", "remove", "rename",
          "tokens", "switch", "import", "logOut", "use"}

Operation == [name : Names, account : Accounts \cup {None}, group : Groups \cup {None},
              enable : SUBSET Roots, disable : SUBSET Roots, book : Book]

ASSUME AccountAssumption ==
    /\ To \in [Messages -> Accounts]
    /\ Workloads \subseteq [Calls -> Operation]
    /\ \A workload \in Workloads : \A p \in Calls :
          /\ workload[p].name = "tokens" => workload[p].account \in Accounts
          /\ workload[p].name = "import" => workload[p].group = None
    /\ Books \subseteq Book
    /\ Calls \cap Messages = {}
    /\ None \notin Accounts \cup Roots \cup Groups
    /\ None \notin [Groups -> SUBSET Roots]

VARIABLES
    op,             \* the operation of each call
    pc,
    accountsMutex,  \* the FIFO of _accountsMutex, its head owns it
    local,          \* what each call has read and not used yet
    todo,           \* the wallets each call has yet to create, or to stop
    creating,       \* the wallets each call is subscribing to
    stored,         \* the accounts storage
    entries,        \* accountEntries
    selected, saved,    \* selectedAccount, and its address in storage
    visible,        \* accountsVisibility
    group,          \* the group of the selected connection
    mapped,         \* the wallets in the two maps of subscriptions
    live,           \* how many running subscriptions a wallet has
    requests,       \* the messages whose callback is registered
    watching,       \* the messages a running wallet will report
    pending, expired,   \* accountPendingTransactions, accountFailedTransactions
    answer,         \* what the sender of each message got
    strayed,        \* history: a call has failed before the wallets it creates were created
    overlapped,     \* history: the accounts have changed between the two halves of another call
    outdated,       \* history: the network has changed under a call that had read its group
    removed         \* history: the accounts removed

turn == <<op, accountsMutex>>
work == <<local, todo, creating>>
records == <<stored, entries, selected, saved, visible>>
wallets == <<mapped, live>>
sending == <<requests, watching, pending, expired, answer>>
history == <<strayed, overlapped, outdated, removed>>
accountVars == <<turn, pc, work, records, group, wallets, sending, history>>

Queued == {"toStart", "toStop", "toUpdate", "toSelect", "toRemove", "toRename"}
Owning == {"creating", "listing", "stopping", "clearing", "resetting", "removing", "dropping"}
Halfway == {"adding", "showing", "addedMany", "imported", "syncing",
            "removing", "dropping", "resetting"}
UsesGroup == {"toStart", "toUpdate", "creating", "listing"}
Ended == {"done", "failed"}
CallPlaces == {"idle", "started", "switching", "toRead", "using", "choosing"}
                \cup Queued \cup Owning \cup Halfway \cup Ended

TurnTypes ==
    /\ op \in [Calls -> Operation]
    /\ pc \in [Calls \cup Messages -> CallPlaces \cup {"preparing", "sent"}]
    /\ accountsMutex \in Seq(Calls)
WorkTypes ==
    /\ local \in [Calls -> [group : Groups \cup {None}, book : Book, choice : Accounts \cup {None}]]
    /\ todo \in [Calls -> SUBSET Wallet]
    /\ creating \in [Calls -> SUBSET Wallet]
RecordTypes ==
    /\ stored \in Book /\ entries \in Book
    /\ selected \in Accounts \cup {None} /\ saved \in Accounts \cup {None}
    /\ visible \subseteq Accounts
    /\ group \in Groups
WalletTypes == mapped \subseteq Wallet /\ live \in [Wallet -> Nat]
SendingTypes ==
    /\ requests \subseteq Messages /\ watching \subseteq Messages
    /\ pending \subseteq Messages /\ expired \subseteq Messages
    /\ answer \in [Messages -> {"none", "result", "error"}]
HistoryTypes ==
    /\ strayed \in BOOLEAN /\ overlapped \in BOOLEAN /\ outdated \in BOOLEAN
    /\ removed \subseteq Accounts

(* Every variable of the controller has its type. *)
AccountTypeOK ==
    TurnTypes /\ WorkTypes /\ RecordTypes /\ WalletTypes /\ SendingTypes /\ HistoryTypes

TonWallet(a) == [account |-> a, root |-> None]
TokenWallet(a, r) == [account |-> a, root |-> r]
Has(book) == {a \in Accounts : book[a] # None}
WalletsOf(a) == {w \in Wallet : w.account = a}

(* The wallets startSubscriptions() wants for these accounts. *)
WalletsFor(book, g) ==
    {w \in Wallet : /\ book[w.account] # None
                    /\ w.root # None => w.root \in book[w.account][g]}

(* The state the controller is in once it is loaded: the subscriptions are *)
(* started, or about to be.                                                *)
AccountInit ==
    /\ op \in Workloads
    /\ pc = [p \in Calls \cup Messages |-> "idle"]
    /\ accountsMutex = <<>>
    /\ local = [p \in Calls |-> [group |-> None, book |-> Empty, choice |-> None]]
    /\ todo = [p \in Calls |-> {}] /\ creating = [p \in Calls |-> {}]
    /\ stored \in Books /\ entries = stored
    /\ saved \in Has(stored) \cup {None}
    /\ selected = saved
    /\ visible = {}
    /\ group \in Groups
    /\ mapped = IF \E p \in Calls : op[p].name = "start" THEN {} ELSE WalletsFor(entries, group)
    /\ live = [w \in Wallet |-> IF w \in mapped THEN 1 ELSE 0]
    /\ requests = {} /\ watching = {} /\ pending = {} /\ expired = {}
    /\ answer = [m \in Messages |-> "none"]
    /\ strayed = FALSE /\ overlapped = FALSE /\ outdated = FALSE /\ removed = {}

----------------------------------------------------------------------------
Owns(p) == Len(accountsMutex) > 0 /\ accountsMutex[1] = p
Begins(p, name) == pc[p] = "idle" /\ op[p].name = name
Goto(p, place) == pc' = [pc EXCEPT ![p] = place]

Queue(p, place) == accountsMutex' = Append(accountsMutex, p) /\ UNCHANGED op /\ Goto(p, place)
Release(p, place) == accountsMutex' = Tail(accountsMutex) /\ UNCHANGED op /\ Goto(p, place)

(* The accounts change under the calls that are between their halves. *)
Touch(p) ==
    /\ overlapped' = (overlapped \/ \E q \in Calls \ {p} : pc[q] \in Halfway)
    /\ UNCHANGED <<strayed, outdated>>

Stop(ws) ==
    /\ live' = [w \in Wallet |-> IF w \in ws /\ live[w] > 0 THEN live[w] - 1 ELSE live[w]]
    /\ watching' = {m \in watching : TonWallet(To[m]) \notin ws}

SavedIsStored == saved \in Has(stored)
NoneLive == \A w \in Wallet : live[w] = 0

----------------------------------------------------------------------------
(* The wallet subscriptions. *)

(* startSubscriptions() reads the group and waits for the mutex. *)
QueueStart(p) ==
    /\ Begins(p, "start") \/ pc[p] = "toRead"
    /\ local' = [local EXCEPT ![p].group = group]
    /\ Queue(p, "toStart")
    /\ UNCHANGED <<todo, creating, records, group, wallets, sending, history>>

(* The mutex gained, every account's wallets are created side by side. *)
StartSubscriptions(p) ==
    /\ pc[p] = "toStart" /\ Owns(p)
    /\ todo' = [todo EXCEPT ![p] = WalletsFor(entries, local[p].group)]
    /\ Goto(p, "creating")
    /\ UNCHANGED <<turn, local, creating, records, group, wallets, sending, history>>

(* The first failure ends the call, which releases the mutex: the other    *)
(* wallets of the call are still being created.                             *)
FailCall(p, left) ==
    /\ IF pc[p] = "creating" THEN Release(p, "failed") ELSE UNCHANGED <<turn, pc>>
    /\ strayed' = (strayed \/ left # {})

(* What addTokenWallet() of the storage does after the wallet is created:   *)
(* it throws when the account is gone.                                      *)
ListToken(p, w) ==
    /\ IF op[p].name = "tokens" /\ stored[w.account] # None
         THEN stored' = [stored EXCEPT ![w.account][local[p].group] = @ \cup {w.root}]
         ELSE UNCHANGED stored
    /\ IF op[p].name = "tokens" /\ stored[w.account] = None
         THEN FailCall(p, (creating[p] \cup todo[p]) \ {w})
         ELSE UNCHANGED <<turn, pc, strayed>>
    /\ UNCHANGED <<entries, selected, saved, visible, overlapped, outdated, removed>>

(* Mutant: a wallet whose subscription is there is subscribed to again. *)
BeginWalletAlways(p, w) ==
    /\ pc[p] \in {"creating", "failed"} /\ w \in todo[p]
    /\ TonWallet(w.account) \notin (todo[p] \cup creating[p]) \ {w}
    /\ todo' = [todo EXCEPT ![p] = @ \ {w}]
    /\ creating' = [creating EXCEPT ![p] = @ \cup {w}]
    /\ UNCHANGED <<turn, pc, local, records, group, wallets, sending, history>>

(* A wallet is looked up in the map, the token wallets after the account's. *)
BeginWallet(p, w) ==
    /\ pc[p] \in {"creating", "failed"} /\ w \in todo[p]
    /\ TonWallet(w.account) \notin (todo[p] \cup creating[p]) \ {w}
    /\ todo' = [todo EXCEPT ![p] = @ \ {w}]
    /\ IF w \in mapped
         THEN ListToken(p, w) /\ UNCHANGED creating
         ELSE /\ creating' = [creating EXCEPT ![p] = @ \cup {w}]
              /\ UNCHANGED <<turn, pc, records, history>>
    /\ UNCHANGED <<local, group, wallets, sending>>

(* The subscription is made, put in the map and started. *)
WalletCreated(p, w) ==
    /\ w \in creating[p]
    /\ creating' = [creating EXCEPT ![p] = @ \ {w}]
    /\ mapped' = mapped \cup {w}
    /\ live' = [live EXCEPT ![w] = @ + 1]
    /\ ListToken(p, w)
    /\ UNCHANGED <<local, todo, group, sending>>

WalletFails(p, w) ==
    /\ w \in creating[p]
    /\ creating' = [creating EXCEPT ![p] = @ \ {w}]
    /\ todo' = [todo EXCEPT ![p] = IF w.root = None THEN @ \ WalletsOf(w.account) ELSE @]
    /\ FailCall(p, creating'[p] \cup todo'[p])
    /\ UNCHANGED <<local, records, group, wallets, sending, overlapped, outdated, removed>>

WalletsCreated(p) ==
    /\ pc[p] = "creating" /\ todo[p] = {} /\ creating[p] = {}
    /\ IF op[p].name = "tokens" THEN Goto(p, "listing") /\ UNCHANGED turn ELSE Release(p, "done")
    /\ UNCHANGED <<work, records, group, wallets, sending, history>>

(* stopSubscriptions(), or the same part of logOut(). *)
BeginStop(p) ==
    /\ pc[p] = "toStop" /\ Owns(p)
    /\ todo' = [todo EXCEPT ![p] = mapped]
    /\ Goto(p, "stopping")
    /\ UNCHANGED <<turn, local, creating, records, group, wallets, sending, history>>

StopWallet(p, w) ==
    /\ pc[p] = "stopping" /\ w \in todo[p]
    /\ todo' = [todo EXCEPT ![p] = @ \ {w}]
    /\ Stop({w})
    /\ UNCHANGED <<turn, pc, local, creating, records, group, mapped, requests, pending, expired,
                   answer, history>>

(* Mutant: the requests are dropped and their senders told nothing. *)
ForgetSenders ==
    /\ requests' = {} /\ pending' = {} /\ expired' = {}
    /\ UNCHANGED answer

(* _clearSendMessageRequests() rejects every request. *)
RejectSenders ==
    /\ requests' = {} /\ pending' = {} /\ expired' = {}
    /\ answer' = [m \in Messages |-> IF m \in requests THEN "error" ELSE answer[m]]

(* All are stopped: the maps and the tables are cleared. *)
ClearWallets(p) ==
    /\ pc[p] = "stopping" /\ todo[p] = {}
    /\ mapped' = {}
    /\ RejectSenders
    /\ IF op[p].name = "logOut" THEN Goto(p, "clearing") /\ UNCHANGED turn ELSE Release(p, "switching")
    /\ UNCHANGED <<work, records, group, live, watching, history>>

(* trySwitchingNetwork() waits until no wallet holds the connection.  It   *)
(* tries the asked network, then the others, or goes back to the current.   *)
SwitchNetwork(p) ==
    /\ pc[p] = "switching" /\ NoneLive
    /\ IF op[p].group = None THEN UNCHANGED group ELSE group' \in Groups
    /\ Goto(p, "toRead")
    /\ outdated' = (\/ outdated
                    \/ group' # group /\ \E q \in Calls : pc[q] \in UsesGroup)
    /\ UNCHANGED <<turn, work, records, wallets, sending, strayed, overlapped, removed>>

(* changeNetwork() to the selected network does nothing.  importStorage()  *)
(* calls it without a network once the accounts are read again.             *)
ChangeNetwork(p) ==
    /\ Begins(p, "switch") \/ pc[p] = "started"
    /\ IF op[p].group = group
         THEN Goto(p, "done") /\ UNCHANGED turn
         ELSE Queue(p, "toStop")
    /\ UNCHANGED <<work, records, group, wallets, sending, history>>

(* updateTokenWallets() reads the group and waits for the mutex. *)
QueueTokens(p) ==
    /\ Begins(p, "tokens")
    /\ local' = [local EXCEPT ![p].group = group]
    /\ Queue(p, "toUpdate")
    /\ UNCHANGED <<todo, creating, records, group, wallets, sending, history>>

(* Mutant: a disabled token is only taken out of the storage. *)
DisabledNone(p) == {}

DisabledWallets(p) == {TokenWallet(op[p].account, r) : r \in op[p].disable}

(* It stops and forgets the disabled tokens, and creates the enabled ones. *)
UpdateTokenWallets(p) ==
    LET a == op[p].account
    IN  /\ pc[p] = "toUpdate" /\ Owns(p)
        /\ Stop(DisabledWallets(p) \cap mapped)
        /\ mapped' = mapped \ DisabledWallets(p)
        /\ IF stored[a] = None
             THEN UNCHANGED stored
             ELSE stored' = [stored EXCEPT ![a][local[p].group] = @ \ op[p].disable]
        /\ todo' = [todo EXCEPT ![p] = {TokenWallet(a, r) : r \in op[p].enable}]
        /\ Goto(p, "creating")
        /\ UNCHANGED <<turn, local, creating, entries, selected, saved, visible, group,
                       requests, pending, expired, answer, history>>

(* The account is read again from the storage, and shown. *)
ReloadAccount(p) ==
    LET a == op[p].account
    IN  /\ pc[p] = "listing"
        /\ IF stored[a] = None
             THEN UNCHANGED entries
             ELSE entries' = [entries EXCEPT ![a] = stored[a]]
        /\ Touch(p) /\ UNCHANGED removed
        /\ Release(p, "done")
        /\ UNCHANGED <<work, stored, selected, saved, visible, group, wallets, sending>>

----------------------------------------------------------------------------
(* The accounts. *)

(* createAccount(): the storage refuses an account it has. *)
AddAccount(p) ==
    LET a == op[p].account
    IN  /\ Begins(p, "create") \/ Begins(p, "createMany")
        /\ IF stored[a] # None
             THEN Goto(p, "failed") /\ UNCHANGED <<stored, history>>
             ELSE /\ stored' = [stored EXCEPT ![a] = NoTokens]
                  /\ Goto(p, IF op[p].name = "create" THEN "adding" ELSE "addedMany")
                  /\ Touch(p) /\ UNCHANGED removed
        /\ UNCHANGED <<turn, work, entries, selected, saved, visible, group, wallets, sending>>

(* updateAccountVisibility() *)
SetVisible(a) == visible' = visible \cup {a}

(* The shown accounts are copied before the visibility is saved, ... *)
CopyAccounts(p) ==
    LET a == op[p].account
    IN  /\ pc[p] = "adding"
        /\ local' = [local EXCEPT ![p].book = [entries EXCEPT ![a] = NoTokens]]
        /\ SetVisible(a)
        /\ Goto(p, "showing")
        /\ UNCHANGED <<turn, todo, creating, stored, entries, selected, saved, group, wallets,
                       sending, history>>

(* Mutant: the account is selected and not shown. *)
ShowAccountNot(p) ==
    /\ pc[p] = "showing"
    /\ selected' = op[p].account /\ saved' = op[p].account
    /\ Goto(p, "toRead")
    /\ Touch(p) /\ UNCHANGED removed
    /\ UNCHANGED <<turn, work, entries, stored, visible, group, wallets, sending>>

(* ... and the copy is put in place after it. *)
ShowAccount(p) ==
    /\ pc[p] = "showing"
    /\ entries' = local[p].book
    /\ selected' = op[p].account /\ saved' = op[p].account
    /\ Goto(p, "toRead")
    /\ Touch(p) /\ UNCHANGED removed
    /\ UNCHANGED <<turn, work, stored, visible, group, wallets, sending>>

(* createAccounts() copies and replaces the accounts at once. *)
ShowAccounts(p) ==
    LET a == op[p].account
    IN  /\ pc[p] = "addedMany"
        /\ entries' = [entries EXCEPT ![a] = NoTokens]
        /\ SetVisible(a)
        /\ Goto(p, "toRead")
        /\ Touch(p) /\ UNCHANGED removed
        /\ UNCHANGED <<turn, work, stored, selected, saved, group, wallets, sending>>

(* ensureAccountSelected() chooses an account of the storage when the saved *)
(* one is not there, ...                                                    *)
EnsureAccountSelected(p) ==
    /\ Begins(p, "ensure")
    /\ IF SavedIsStored
         THEN Goto(p, "done") /\ UNCHANGED local
         ELSE IF stored = Empty
         THEN Goto(p, "failed") /\ UNCHANGED local
         ELSE /\ \E a \in Has(stored) : local' = [local EXCEPT ![p].choice = a]
              /\ Goto(p, "choosing")
    /\ UNCHANGED <<turn, todo, creating, records, group, wallets, sending, history>>

(* ... and selects it after the keys are read. *)
SelectChosen(p) ==
    /\ pc[p] = "choosing"
    /\ selected' = local[p].choice /\ saved' = local[p].choice
    /\ Goto(p, "done")
    /\ UNCHANGED <<turn, work, stored, entries, visible, group, wallets, sending, history>>

(* The calls that only wait for the mutex. *)
QueueCall(p) ==
    /\ \/ Begins(p, "select") /\ Queue(p, "toSelect")
       \/ Begins(p, "remove") /\ Queue(p, "toRemove")
       \/ Begins(p, "rename") /\ Queue(p, "toRename")
       \/ Begins(p, "logOut") /\ Queue(p, "toStop")
    /\ UNCHANGED <<work, records, group, wallets, sending, history>>

(* Mutant: the mutex is kept when the account is not found. *)
SelectAccountAndKeep(p) ==
    LET a == op[p].account
    IN  /\ pc[p] = "toSelect" /\ Owns(p)
        /\ IF entries[a] = None
             THEN UNCHANGED <<selected, saved, turn>> /\ Goto(p, "done")
             ELSE selected' = a /\ saved' = a /\ Release(p, "done")
        /\ UNCHANGED <<work, stored, entries, visible, group, wallets, sending, history>>

SelectAccount(p) ==
    LET a == op[p].account
    IN  /\ pc[p] = "toSelect" /\ Owns(p)
        /\ IF entries[a] = None
             THEN UNCHANGED <<selected, saved>>
             ELSE selected' = a /\ saved' = a
        /\ Release(p, "done")
        /\ UNCHANGED <<work, stored, entries, visible, group, wallets, sending, history>>

(* removeAccount(): out of the storage, *)
RemoveAccount(p) ==
    LET a == op[p].account
    IN  /\ pc[p] = "toRemove" /\ Owns(p)
        /\ stored' = [stored EXCEPT ![a] = None]
        /\ Goto(p, "removing")
        /\ Touch(p) /\ removed' = removed \cup {a}
        /\ UNCHANGED <<turn, work, entries, selected, saved, visible, group, wallets, sending>>

(* its wallets out of the maps and stopped, *)
RemoveWallets(p) ==
    LET mine == WalletsOf(op[p].account)
    IN  /\ pc[p] = "removing"
        /\ Stop(mine \cap mapped)
        /\ mapped' = mapped \ mine
        /\ Goto(p, "dropping")
        /\ UNCHANGED <<turn, work, records, group, requests, pending, expired, answer, history>>

(* and out of the tables; another account is not selected. *)
DropAccount(p) ==
    /\ pc[p] = "dropping"
    /\ entries' = [entries EXCEPT ![op[p].account] = None]
    /\ Touch(p) /\ UNCHANGED removed
    /\ Release(p, "done")
    /\ UNCHANGED <<work, stored, selected, saved, visible, group, wallets, sending>>

(* renameAccount() shows the entry of the storage, which throws without it. *)
RenameAccount(p) ==
    LET a == op[p].account
    IN  /\ pc[p] = "toRename" /\ Owns(p)
        /\ IF stored[a] = None
             THEN Release(p, "failed") /\ UNCHANGED <<entries, history>>
             ELSE /\ entries' = [entries EXCEPT ![a] = stored[a]]
                  /\ Touch(p) /\ UNCHANGED removed
                  /\ Release(p, "done")
        /\ UNCHANGED <<work, stored, selected, saved, visible, group, wallets, sending>>

(* logOut() clears the storages, then the state. *)
ClearStorage(p) ==
    /\ pc[p] = "clearing"
    /\ stored' = Empty /\ saved' = None
    /\ Touch(p) /\ UNCHANGED removed
    /\ Goto(p, "resetting")
    /\ UNCHANGED <<turn, work, entries, selected, visible, group, wallets, sending>>

ResetState(p) ==
    /\ pc[p] = "resetting"
    /\ entries' = Empty /\ selected' = None /\ visible' = {}
    /\ Touch(p) /\ UNCHANGED removed
    /\ Release(p, "done")
    /\ UNCHANGED <<work, stored, saved, group, wallets, sending>>

(* importStorage() replaces the storage, *)
ImportStorage(p) ==
    /\ Begins(p, "import")
    /\ stored' = op[p].book
    /\ Touch(p) /\ UNCHANGED removed
    /\ Goto(p, "imported")
    /\ UNCHANGED <<turn, work, entries, selected, saved, visible, group, wallets, sending>>

(* and initialSync() reads it, ... *)
ReadStorage(p) ==
    /\ pc[p] = "imported"
    /\ local' = [local EXCEPT ![p].book = stored]
    /\ Goto(p, "syncing")
    /\ UNCHANGED <<turn, todo, creating, records, group, wallets, sending, history>>

(* ... then shows it, with the saved account or any other selected. *)
SyncState(p) ==
    LET book == local[p].book
    IN  /\ pc[p] = "syncing"
        /\ entries' = book
        /\ selected' \in IF SavedIsStored THEN {saved}
                         ELSE IF book = Empty THEN {None} ELSE Has(book)
        /\ Touch(p) /\ UNCHANGED removed
        /\ Goto(p, "started")
        /\ UNCHANGED <<turn, work, stored, saved, visible, group, wallets, sending>>

----------------------------------------------------------------------------
(* The messages. *)

(* A wallet that is looked up may have been stopped and not yet cleared. *)
Usable(w) == w \in mapped /\ live[w] > 0

(* estimateFees(), prepareTransfer() and the like take the subscription,   *)
(* which must be there, ...                                                 *)
TakeWallet(p) ==
    /\ Begins(p, "use")
    /\ Goto(p, IF TonWallet(op[p].account) \in mapped THEN "using" ELSE "failed")
    /\ UNCHANGED <<turn, work, records, group, wallets, sending, history>>

(* ... and use it in their turn: it may have been stopped, or the contract *)
(* not be deployed.                                                         *)
UseWallet(p) ==
    /\ pc[p] = "using"
    /\ \/ Usable(TonWallet(op[p].account)) /\ Goto(p, "done")
       \/ Goto(p, "failed")
    /\ UNCHANGED <<turn, work, records, group, wallets, sending, history>>

(* sendMessage() registers the callback and prepares the polling. *)
RegisterMessage(m) ==
    /\ pc[m] = "idle"
    /\ IF TonWallet(To[m]) \in mapped
         THEN requests' = requests \cup {m} /\ Goto(m, "preparing") /\ UNCHANGED answer
         ELSE answer' = [answer EXCEPT ![m] = "error"] /\ Goto(m, "failed") /\ UNCHANGED requests
    /\ UNCHANGED <<turn, work, records, group, wallets, watching, pending, expired, history>>

(* The wallet of the account, looked up again, sends it. *)
SendMessage(m) ==
    /\ pc[m] = "preparing" /\ Usable(TonWallet(To[m]))
    /\ watching' = watching \cup {m} /\ pending' = pending \cup {m}
    /\ Goto(m, "sent")
    /\ UNCHANGED <<turn, work, records, group, wallets, requests, expired, answer, history>>

(* The wallet is gone or the transport fails: the sender gets the error. *)
FailMessage(m) ==
    /\ pc[m] = "preparing"
    /\ requests' = requests \ {m}
    /\ answer' = [answer EXCEPT ![m] = "error"]
    /\ Goto(m, "failed")
    /\ UNCHANGED <<turn, work, records, group, wallets, watching, pending, expired, history>>

(* An expired message moves to the failed ones. *)
ClearPendingTransaction(m, sent) ==
    /\ pending' = pending \ {m}
    /\ expired' = IF m \in pending /\ ~sent THEN expired \cup {m} ELSE expired

(* Mutant: a sender who gets no transaction is told nothing. *)
ResolveSent(m, sent) ==
    /\ requests' = IF sent THEN requests \ {m} ELSE requests
    /\ answer' = IF m \in requests /\ sent THEN [answer EXCEPT ![m] = "result"] ELSE answer

(* The sender gets the transaction, or undefined; it throws when there is  *)
(* no such request.                                                         *)
ResolveMessageRequest(m, sent) ==
    /\ requests' = requests \ {m}
    /\ answer' = IF m \in requests THEN [answer EXCEPT ![m] = "result"] ELSE answer

(* The wallet reports the message sent or expired (TonWalletHandler). *)
ReportMessage(m, sent) ==
    /\ m \in watching
    /\ watching' = watching \ {m}
    /\ ClearPendingTransaction(m, sent)
    /\ ResolveMessageRequest(m, sent)
    /\ UNCHANGED <<turn, pc, work, records, group, wallets, history>>

----------------------------------------------------------------------------
(* What a call does by itself, once it has begun. *)
CallStep(p) ==
    \/ StartSubscriptions(p) \/ WalletsCreated(p)
    \/ \E w \in Wallet : BeginWallet(p, w) \/ WalletCreated(p, w) \/ WalletFails(p, w)
    \/ BeginStop(p) \/ ClearWallets(p) \/ (\E w \in Wallet : StopWallet(p, w))
    \/ SwitchNetwork(p) \/ UpdateTokenWallets(p) \/ ReloadAccount(p)
    \/ CopyAccounts(p) \/ ShowAccount(p) \/ ShowAccounts(p) \/ SelectChosen(p)
    \/ SelectAccount(p) \/ RemoveAccount(p) \/ RemoveWallets(p) \/ DropAccount(p)
    \/ RenameAccount(p) \/ ClearStorage(p) \/ ResetState(p)
    \/ ReadStorage(p) \/ SyncState(p) \/ UseWallet(p)
    \/ pc[p] = "toRead" /\ QueueStart(p)
    \/ pc[p] = "started" /\ ChangeNetwork(p)

(* What the popup or a page asks for. *)
CallBegins(p) ==
    \/ pc[p] = "idle" /\ QueueStart(p)
    \/ pc[p] = "idle" /\ ChangeNetwork(p)
    \/ QueueTokens(p) \/ AddAccount(p) \/ EnsureAccountSelected(p) \/ QueueCall(p)
    \/ ImportStorage(p) \/ TakeWallet(p)

MessageStep(m) == SendMessage(m) \/ FailMessage(m) \/ \E sent \in BOOLEAN : ReportMessage(m, sent)

AccountNext ==
    \/ \E p \in Calls : CallBegins(p) \/ CallStep(p)
    \/ \E m \in Messages : RegisterMessage(m) \/ MessageStep(m)

AccountSpec == AccountInit /\ [][AccountNext]_accountVars

(* A call goes on, whatever answers the network gives; a wallet reports    *)
(* what it has sent, at the latest when the message expires.                *)
FairAccountSpec ==
    /\ AccountSpec
    /\ \A p \in Calls : WF_accountVars(CallStep(p))
    /\ \A m \in Messages : WF_accountVars(MessageStep(m))

----------------------------------------------------------------------------
(* The wallets that the owner of the mutex is between two maps about. *)
Stopping == UNION {IF pc[p] = "stopping" THEN mapped \ todo[p] ELSE {} : p \in Calls}

(* Every running wallet is the one in the map, and the one in the map runs  *)
(* until a call stops it: no wallet is left that nobody can stop, which    *)
(* would hold the connection for ever.  The exception is a call that failed *)
(* while its other wallets were being created (startSubscriptions()).       *)
NoOrphanWallet ==
    strayed \/ \A w \in Wallet : live[w] = IF w \in mapped \ Stopping THEN 1 ELSE 0

(* A sent message whose sender waits is watched by the wallet that sent it, *)
(* or the wallets are being stopped and the sender will be rejected.  The   *)
(* exception is removeAccount(), which tells the sender nothing.            *)
WaitingIsWatched ==
    \A m \in Messages :
        pc[m] = "sent" /\ answer[m] = "none"
            => \/ m \in requests /\ (m \in watching \/ \E p \in Calls : pc[p] = "stopping")
               \/ To[m] \in removed \/ strayed

AtRest == \A p \in Calls : pc[p] \in Ended \cup {"idle"}

(* With no call under way the accounts shown are those of the storage.  The *)
(* exceptions: the accounts changed between the two halves of another call *)
(* (createAccount(), initialSync()), and a failed updateTokenWallets().     *)
ShownIsStored ==
    AtRest => \/ entries = stored \/ overlapped
              \/ \E p \in Calls : pc[p] = "failed" /\ op[p].name = "tokens"

(* With no call under way each token wallet is one that its account lists  *)
(* in the selected network.  The exceptions are those of the accounts shown *)
(* and a change of network under a call that had read the group.            *)
TokensAreListed ==
    AtRest => \/ \A w \in mapped : w.root # None =>
                     stored[w.account] # None /\ w.root \in stored[w.account][group]
              \/ overlapped \/ outdated \/ strayed
              \/ \E p \in Calls : pc[p] = "failed" /\ op[p].name = "tokens"

(* Every call ends, or is a change of network for which some wallet never   *)
(* gives the connection back.                                               *)
CallsEnd ==
    \A p \in Calls :
        <>[](\/ pc[p] \in Ended \cup {"idle"}
             \/ pc[p] = "switching" /\ ~NoneLive)

(* Every sender is answered: the message is sent or expires, or it is       *)
(* rejected, unless its account was removed.                                *)
SendersAreAnswered ==
    \A m \in Messages :
        <>[](pc[m] = "idle" \/ answer[m] # "none" \/ To[m] \in removed \/ strayed)
=============================================================================
