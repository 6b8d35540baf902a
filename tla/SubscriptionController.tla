----------------------- MODULE SubscriptionController -----------------------
(***************************************************************************)
(* The contract subscriptions that web pages share: one subscription per   *)
(* address, kept while a tab watches the address or a message sent to it    *)
(* is unanswered, and the requests that wait for those messages.           *)
(*                                                                         *)
(* An action is the code between two awaits.  A subscription is a contract *)
(* subscription seen from outside: it is created, started, stopped and     *)
(* freed, and it reports the messages sent through it.                     *)
(***************************************************************************)
EXTENDS Naturals, Sequences, FiniteSets

CONSTANTS
    Tabs, Addresses,
    Kinds,              \* what a tab can be told of: "state", "transactions"
    Calls,              \* concurrent calls made for the tabs' pages
    Messages,           \* calls of sendMessage(), one message each
    Stoppers,           \* calls of stopSubscriptions()
    To, From,           \* the address and the tab of a message
    Overlapping,        \* whether calls of sendMessage() share a turn of the event loop
    None                \* undefined

ASSUME ConstantsAssumption ==
    /\ "state" \in Kinds
    /\ To \in [Messages -> Addresses]
    /\ From \in [Messages -> Tabs]
    /\ Overlapping \in BOOLEAN
    /\ Calls \cap Messages = {} /\ Calls \cap Stoppers = {} /\ Messages \cap Stoppers = {}
    /\ None \notin Tabs /\ None \notin Addresses

Processes == Calls \cup Messages \cup Stoppers

VARIABLES
    tabs,                   \* the keys of _tabs
    params,                 \* what each tab is told of each address
    subscriptionTabs,       \* the tabs that watch an address
    subscriptions,          \* the subscription of each address
    sendMessageRequests,    \* the messages whose callback is registered, by address
    subscriptionsMutex,     \* the FIFO of _subscriptionsMutex, its head owns it
    pc,
    args,                   \* the arguments of each process's current call
    toLeave,                \* the tabs each process has yet to unsubscribe
    toClear,                \* the addresses and messages each stopper has yet to reject
    seen,                   \* the map of requests a message has read and not used yet
    held,                   \* the subscription a message holds
    promise                 \* the promise given to the sender of a message

registry == <<tabs, params, subscriptionTabs>>
shared == <<registry, subscriptions>>
requests == <<sendMessageRequests, seen, promise>>
turn == <<subscriptionsMutex, args>>
agenda == <<toLeave, toClear>>
vars == <<shared, requests, turn, agenda, pc, held>>

(* The arguments of subscribeToContract(), or of _tryUnsubscribe() when    *)
(* there is no tab.                                                        *)
Arguments == [tab : Tabs \cup {None}, address : Addresses \cup {None},
              enable : SUBSET Kinds, disable : SUBSET Kinds]

NoArguments == [tab |-> None, address |-> None, enable |-> {}, disable |-> {}]

Places == {"idle", "reading", "queued", "creating", "stopping", "leaving", "clearing",
           "rejecting", "subscribed", "sending", "sent", "failed", "finished"}

RegistryTypes ==
    /\ tabs \subseteq Tabs
    /\ params \in [Tabs -> [Addresses -> SUBSET Kinds]]
    /\ subscriptionTabs \in [Addresses -> SUBSET Tabs]
    /\ subscriptions \in [Addresses -> {"none", "running", "stopping"}]

RequestTypes ==
    /\ sendMessageRequests \in [Addresses -> SUBSET Messages]
    /\ seen \in [Messages -> {"nothing", "absent", "current", "replaced"}]
    /\ promise \in [Messages -> {"none", "pending", "settled"}]
    /\ held \in [Messages -> {"none", "running", "freed"}]

TurnTypes ==
    /\ subscriptionsMutex \in Seq(Processes)
    /\ pc \in [Processes -> Places]
    /\ args \in [Processes -> Arguments]

AgendaTypes ==
    /\ toLeave \in [Processes -> SUBSET Tabs]
    /\ toClear \in [Stoppers -> [addresses : SUBSET Addresses,
                                 messages : SUBSET Messages]]

TypeOK == RegistryTypes /\ RequestTypes /\ TurnTypes /\ AgendaTypes

Init ==
    /\ tabs = {}
    /\ params = [t \in Tabs |-> [a \in Addresses |-> {}]]
    /\ subscriptionTabs = [a \in Addresses |-> {}]
    /\ subscriptions = [a \in Addresses |-> "none"]
    /\ sendMessageRequests = [a \in Addresses |-> {}]
    /\ subscriptionsMutex = <<>>
    /\ pc = [p \in Processes |-> "idle"]
    /\ args = [p \in Processes |-> NoArguments]
    /\ toLeave = [p \in Processes |-> {}]
    /\ toClear = [p \in Stoppers |-> [addresses |-> {}, messages |-> {}]]
    /\ seen = [m \in Messages |-> "nothing"]
    /\ held = [m \in Messages |-> "none"]
    /\ promise = [m \in Messages |-> "none"]

(* Mutant: whoever waits for the mutex goes on. *)
OwnsOrWaits(p) == \E i \in 1..Len(subscriptionsMutex) : subscriptionsMutex[i] = p

Owns(p) == Len(subscriptionsMutex) > 0 /\ subscriptionsMutex[1] = p
Goto(p, place) == pc' = [pc EXCEPT ![p] = place]

Queue(p, arguments) ==
    /\ subscriptionsMutex' = Append(subscriptionsMutex, p)
    /\ args' = [args EXCEPT ![p] = arguments]

Subscribe(t, a, enable, disable) ==
    [tab |-> t, address |-> a, enable |-> enable, disable |-> disable]

UnsubscribeOf(t, a) == Subscribe(t, a, {}, Kinds)

TryUnsubscribeOf(a) == [NoArguments EXCEPT !.address = a]

(***************************************************************************)
(* The map of requests of an address.  An empty map is deleted, so a call  *)
(* that has read the map and not used it yet then holds a map of its own.  *)
(***************************************************************************)

(* The calls that have read the map of these addresses lose it. *)
Detach(addresses) ==
    [m \in Messages |-> IF To[m] \in addresses /\ seen[m] = "current"
                          THEN "replaced" ELSE seen[m]]

(* Mutant: the whole map of the address is deleted with the request. *)
DeleteRequests(m) ==
    /\ sendMessageRequests' = [sendMessageRequests EXCEPT ![To[m]] = {}]
    /\ seen' = Detach({To[m]})

DeleteRequest(m) ==
    LET left == sendMessageRequests[To[m]] \ {m}
    IN  /\ sendMessageRequests' = [sendMessageRequests EXCEPT ![To[m]] = left]
        /\ seen' = IF left = {} THEN Detach({To[m]}) ELSE seen

Registered(m) == m \in sendMessageRequests[To[m]]

Settle(m) == promise' = [promise EXCEPT ![m] = "settled"]

(***************************************************************************)
(* subscribeToContract() and _tryUnsubscribe(), under the mutex.           *)
(***************************************************************************)

(* What a process does once its turn of the mutex is over. *)
Continuation(p) ==
    IF p \in Messages THEN IF args[p].tab = None THEN "finished" ELSE "subscribed"
    ELSE IF p \in Stoppers THEN IF args[p].tab = None THEN "rejecting" ELSE "leaving"
    ELSE IF toLeave[p] = {} THEN "idle" ELSE "leaving"

(* Mutant: the mutex is not given back. *)
KeepMutex == UNCHANGED subscriptionsMutex

GiveMutexBack == subscriptionsMutex' = Tail(subscriptionsMutex)

GoBack(p, place) ==
    /\ GiveMutexBack
    /\ Goto(p, place)
    /\ args' = [args EXCEPT ![p] = IF place = "leaving" THEN @ ELSE NoArguments]

Finish(p) == GoBack(p, Continuation(p))

(* Mutant: the unanswered messages do not count. *)
UnwatchedIsUnused(a, watching) == watching = {}

(* Mutant: the tabs do not count. *)
UnaskedIsUnused(a, watching) == sendMessageRequests[a] = {}

(* Mutant: the tabs are looked at before the last one is taken out. *)
WasUnused(a, watching) == subscriptionTabs[a] = {} /\ sendMessageRequests[a] = {}

Unused(a, watching) == watching = {} /\ sendMessageRequests[a] = {}

(* _tryUnsubscribe(): the subscription leaves the map, then is stopped. *)
TryUnsubscribe(p, a, watching) ==
    IF Unused(a, watching) /\ subscriptions[a] = "running"
      THEN /\ subscriptions' = [subscriptions EXCEPT ![a] = "stopping"]
           /\ Goto(p, "stopping")
           /\ UNCHANGED turn
      ELSE Finish(p) /\ UNCHANGED subscriptions

TakeTurn(p) == pc[p] = "queued" /\ Owns(p)

NewParams(p) ==
    (params[args[p].tab][args[p].address] \cup args[p].enable) \ args[p].disable

(* No parameters: the call only asks what it is subscribed to. *)
Query(p) ==
    /\ TakeTurn(p)
    /\ args[p].tab # None
    /\ args[p].enable = {} /\ args[p].disable = {}
    /\ Finish(p)
    /\ UNCHANGED <<shared, requests, agenda, held>>

Unsubscribe(p) ==
    LET t == args[p].tab
        a == args[p].address
    IN  /\ TakeTurn(p)
        /\ t # None
        /\ args[p].enable \cup args[p].disable # {}
        /\ NewParams(p) = {}
        /\ params' = [params EXCEPT ![t][a] = {}]
        /\ subscriptionTabs' = [subscriptionTabs EXCEPT ![a] = @ \ {t}]
        /\ TryUnsubscribe(p, a, subscriptionTabs[a] \ {t})
        /\ UNCHANGED <<tabs, requests, agenda, held>>

(* The last lines of subscribeToContract(): the tab watches the address. *)
Watch(p) ==
    LET t == args[p].tab
        a == args[p].address
    IN  /\ tabs' = tabs \cup {t}
        /\ params' = [params EXCEPT ![t][a] = NewParams(p)]
        /\ subscriptionTabs' = [subscriptionTabs EXCEPT ![a] = @ \cup {t}]

TakeTurnToWatch(p) ==
    /\ TakeTurn(p)
    /\ args[p].tab # None
    /\ args[p].enable \cup args[p].disable # {}
    /\ NewParams(p) # {}

JoinSubscription(p) ==
    /\ TakeTurnToWatch(p)
    /\ subscriptions[args[p].address] = "running"
    /\ Watch(p)
    /\ Finish(p)
    /\ UNCHANGED <<subscriptions, requests, agenda, held>>

(* _createSubscription() acquires the connection and subscribes. *)
StartCreating(p) ==
    /\ TakeTurnToWatch(p)
    /\ subscriptions[args[p].address] # "running"
    /\ Goto(p, "creating")
    /\ UNCHANGED <<shared, requests, turn, agenda, held>>

CreateSubscription(p) ==
    /\ pc[p] = "creating"
    /\ subscriptions' = [subscriptions EXCEPT ![args[p].address] = "running"]
    /\ Watch(p)
    /\ Finish(p)
    /\ UNCHANGED <<requests, agenda, held>>

CreationFails(p) ==
    /\ pc[p] = "creating"
    /\ GoBack(p, IF p \in Messages THEN "failed" ELSE "idle")
    /\ UNCHANGED <<shared, requests, agenda, held>>

(* After a request is settled, or rejected: the turn of _tryUnsubscribe(). *)
LeaveUnused(p) ==
    /\ TakeTurn(p)
    /\ args[p].tab = None
    /\ TryUnsubscribe(p, args[p].address, subscriptionTabs[args[p].address])
    /\ UNCHANGED <<registry, requests, agenda, held>>

(* The stopped subscription is freed: who still holds it can use it no more. *)
EndStop(p) ==
    LET a == args[p].address
    IN  /\ pc[p] = "stopping"
        /\ subscriptions' = [subscriptions EXCEPT ![a] = "none"]
        /\ held' = [m \in Messages |-> IF To[m] = a /\ held[m] = "running"
                                         THEN "freed" ELSE held[m]]
        /\ Finish(p)
        /\ UNCHANGED <<registry, requests, agenda>>

(***************************************************************************)
(* The calls made for a tab.                                               *)
(***************************************************************************)

(* subscribeToContract(), unsubscribeFromContract(), sendMessageLocally(). *)
CallSubscribe(p) ==
    /\ pc[p] = "idle"
    /\ \E t \in Tabs, a \in Addresses, enable, disable \in SUBSET Kinds :
         /\ enable \cap disable = {}
         /\ Queue(p, Subscribe(t, a, enable, disable))
    /\ Goto(p, "queued")
    /\ UNCHANGED <<shared, requests, agenda, held>>

(* unsubscribeFromAllContracts() goes on while the tab has an address left, *)
(* those subscribed meanwhile included.                                    *)
CallLeave(p) ==
    /\ pc[p] = "idle"
    /\ \E t \in tabs :
         /\ toLeave' = [toLeave EXCEPT ![p] = {t}]
         /\ args' = [args EXCEPT ![p] = [NoArguments EXCEPT !.tab = t]]
    /\ Goto(p, "leaving")
    /\ UNCHANGED <<shared, requests, subscriptionsMutex, toClear, held>>

LeaveAddress(p) ==
    /\ pc[p] = "leaving"
    /\ \E a \in Addresses :
         /\ params[args[p].tab][a] # {}
         /\ Queue(p, UnsubscribeOf(args[p].tab, a))
    /\ Goto(p, "queued")
    /\ UNCHANGED <<shared, requests, agenda, held>>

(* The current tab is left: on to the next one, if any. *)
LeaveTab(p) ==
    /\ pc[p] = "leaving"
    /\ \A a \in Addresses : params[args[p].tab][a] = {}
    /\ toLeave' = [toLeave EXCEPT ![p] = @ \ {args[p].tab}]
    /\ IF toLeave'[p] = {}
         THEN /\ Goto(p, IF p \in Stoppers THEN "clearing" ELSE "idle")
              /\ args' = [args EXCEPT ![p] = NoArguments]
         ELSE /\ \E t \in toLeave'[p] : args' = [args EXCEPT ![p].tab = t]
              /\ UNCHANGED pc
    /\ UNCHANGED <<shared, requests, subscriptionsMutex, toClear, held>>

(***************************************************************************)
(* sendMessage() and the report of the message.                            *)
(***************************************************************************)

(* The map of requests is read, then awaited, before it is used. *)
ReadRequests(m) ==
    /\ Overlapping
    /\ pc[m] = "idle"
    /\ seen' = [seen EXCEPT ![m] = IF sendMessageRequests[To[m]] = {}
                                     THEN "absent" ELSE "current"]
    /\ Goto(m, "reading")
    /\ UNCHANGED <<shared, sendMessageRequests, promise, turn, agenda, held>>

(* A call that found no map puts a new one in the place of the present one. *)
Register(m) ==
    /\ \/ pc[m] = "reading"
       \/ pc[m] = "idle" /\ ~Overlapping
    /\ \/ /\ seen[m] = "absent"
          /\ sendMessageRequests' = [sendMessageRequests EXCEPT ![To[m]] = {m}]
          /\ seen' = [Detach({To[m]}) EXCEPT ![m] = "nothing"]
       \/ /\ seen[m] \in {"current", "nothing"}
          /\ sendMessageRequests' = [sendMessageRequests EXCEPT ![To[m]] = @ \cup {m}]
          /\ seen' = [seen EXCEPT ![m] = "nothing"]
       \/ /\ seen[m] = "replaced"
          /\ seen' = [seen EXCEPT ![m] = "nothing"]
          /\ UNCHANGED sendMessageRequests
    /\ promise' = [promise EXCEPT ![m] = "pending"]
    /\ Queue(m, Subscribe(From[m], To[m], {"state"}, {}))
    /\ Goto(m, "queued")
    /\ UNCHANGED <<shared, agenda, held>>

(* The subscription is looked up once the tab is subscribed. *)
TakeSubscription(m) ==
    /\ pc[m] = "subscribed"
    /\ IF subscriptions[To[m]] = "running"
         THEN Goto(m, "sending") /\ held' = [held EXCEPT ![m] = "running"]
         ELSE Goto(m, "failed") /\ UNCHANGED held
    /\ UNCHANGED <<shared, requests, turn, agenda>>

Send(m) ==
    /\ pc[m] = "sending"
    /\ held[m] = "running"
    /\ Goto(m, "sent")
    /\ UNCHANGED <<shared, requests, turn, agenda, held>>

SendFails(m) ==
    /\ pc[m] = "sending"
    /\ Goto(m, "failed")
    /\ UNCHANGED <<shared, requests, turn, agenda, held>>

(* _rejectMessageRequest() and _resolveMessageRequest(): the callback leaves *)
(* the map and is called, and then the subscription may be unused.         *)
SettleRequest(m) ==
    /\ DeleteRequest(m)
    /\ Settle(m)
    /\ Queue(m, TryUnsubscribeOf(To[m]))
    /\ Goto(m, "queued")

(* A call that failed throws to its caller, whether or not its request is found. *)
Reject(m) ==
    /\ pc[m] = "failed"
    /\ IF Registered(m)
         THEN SettleRequest(m)
         ELSE /\ Settle(m)
              /\ Goto(m, "finished")
              /\ UNCHANGED <<sendMessageRequests, seen, turn>>
    /\ UNCHANGED <<shared, agenda, held>>

(* The contract reports the message sent or expired, for as long as the    *)
(* subscription is not freed.  A request that is not found stays unanswered. *)
Report(m) ==
    /\ pc[m] = "sent"
    /\ held[m] = "running"
    /\ IF Registered(m)
         THEN SettleRequest(m)
         ELSE /\ Goto(m, "finished")
              /\ UNCHANGED <<requests, turn>>
    /\ UNCHANGED <<shared, agenda, held>>

(***************************************************************************)
(* stopSubscriptions().                                                    *)
(***************************************************************************)

CallStop(p) ==
    /\ pc[p] = "idle"
    /\ IF tabs = {}
         THEN Goto(p, "clearing") /\ UNCHANGED <<args, toLeave>>
         ELSE /\ Goto(p, "leaving")
              /\ toLeave' = [toLeave EXCEPT ![p] = tabs]
              /\ \E t \in tabs : args' = [args EXCEPT ![p] = [NoArguments EXCEPT !.tab = t]]
    /\ UNCHANGED <<shared, requests, subscriptionsMutex, toClear, held>>

RejectOne(p, m, addresses, messages) ==
    /\ DeleteRequest(m)
    /\ Settle(m)
    /\ Queue(p, TryUnsubscribeOf(To[m]))
    /\ Goto(p, "queued")
    /\ toClear' = [toClear EXCEPT ![p] = [addresses |-> addresses,
                                          messages |-> messages \ {m}]]

(* _clearSendMessageRequests() up to its next await, with these addresses   *)
(* and these messages of the current address left to reject.  A message    *)
(* that is gone makes it throw; when none is left, the map is cleared.     *)
Clear(p, addresses, messages) ==
    \/ \E m \in messages : Registered(m) /\ RejectOne(p, m, addresses, messages)
    \/ /\ \E m \in messages : ~Registered(m)
       /\ Goto(p, "failed")
       /\ UNCHANGED <<requests, turn, toClear>>
    \/ /\ messages = {}
       /\ \E a \in addresses : \E m \in sendMessageRequests[a] :
            RejectOne(p, m, addresses \ {a}, sendMessageRequests[a])
    \/ /\ messages = {}
       /\ \A a \in addresses : sendMessageRequests[a] = {}
       /\ sendMessageRequests' = [a \in Addresses |-> {}]
       /\ seen' = Detach(Addresses)
       /\ Goto(p, "finished")
       /\ UNCHANGED <<promise, turn, toClear>>

StartClearing(p) ==
    /\ pc[p] = "clearing"
    /\ Clear(p, {a \in Addresses : sendMessageRequests[a] # {}}, {})
    /\ UNCHANGED <<shared, toLeave, held>>

ContinueClearing(p) ==
    /\ pc[p] = "rejecting"
    /\ Clear(p, toClear[p].addresses, toClear[p].messages)
    /\ UNCHANGED <<shared, toLeave, held>>

-----------------------------------------------------------------------------

TurnStep(p) ==
    \/ Query(p)
    \/ Unsubscribe(p)
    \/ JoinSubscription(p)
    \/ StartCreating(p)
    \/ CreateSubscription(p)
    \/ CreationFails(p)
    \/ LeaveUnused(p)
    \/ EndStop(p)

LeaveStep(p) == LeaveAddress(p) \/ LeaveTab(p)

MessageStep(m) ==
    \/ Register(m)
    \/ TakeSubscription(m)
    \/ Send(m)
    \/ SendFails(m)
    \/ Reject(m)
    \/ Report(m)

ClearStep(p) == StartClearing(p) \/ ContinueClearing(p)

Next ==
    \/ \E p \in Processes : TurnStep(p)
    \/ \E p \in Calls : CallSubscribe(p) \/ CallLeave(p)
    \/ \E p \in Calls \cup Stoppers : LeaveStep(p)
    \/ \E m \in Messages : ReadRequests(m) \/ MessageStep(m)
    \/ \E p \in Stoppers : CallStop(p) \/ ClearStep(p)

Spec == Init /\ [][Next]_vars

(* Ready jobs run, requests to the network end, and the contract reports    *)
(* the messages it waits for.                                              *)
Fairness ==
    /\ \A p \in Processes : WF_vars(TurnStep(p))
    /\ \A p \in Calls \cup Stoppers : WF_vars(LeaveStep(p))
    /\ \A m \in Messages : WF_vars(pc[m] # "idle" /\ MessageStep(m))
    /\ \A p \in Stoppers : WF_vars(ClearStep(p))

FairSpec == Spec /\ Fairness

-----------------------------------------------------------------------------

(* A tab that is told of an address has a running subscription for it, one *)
(* that nobody is stopping (_tryUnsubscribe() and _createSubscription() run *)
(* under the mutex).                                                       *)
WatchedIsRunning ==
    \A t \in Tabs, a \in Addresses : params[t][a] # {} => subscriptions[a] = "running"

(* An address never has two subscriptions, not even while one is stopped:  *)
(* each would hold the connection and poll.                                *)
NeverTwice ==
    \A p \in Processes : pc[p] = "creating" => subscriptions[args[p].address] = "none"

(* The request of an unanswered message is where its report will look for it *)
(* (_deleteMessageRequestAndGetCallback() throws "not found" otherwise).    *)
RequestIsKnown == \A m \in Messages : promise[m] = "pending" => Registered(m)

(* When nothing is under way, a subscription is there for a tab or for an   *)
(* unanswered message: none keeps the connection in use for nobody.        *)
NoneLeftOver ==
    \A a \in Addresses :
      /\ subscriptions[a] # "none"
      /\ \A p \in Processes : pc[p] \in {"idle", "sent", "finished"}
      => subscriptionTabs[a] # {} \/ sendMessageRequests[a] # {}

(* Whoever shares a subscription finds it as SharedSubscription promises:   *)
(* no stop under a tab or an unanswered message, no second one beside it.  *)
Sharing == INSTANCE SharedSubscription WITH
    watchers <- subscriptionTabs,
    senders <- sendMessageRequests,
    subscription <- subscriptions

SharesAsPromised == Sharing!Spec

(* The sender of a message gets an answer, as long as nobody stops all the  *)
(* subscriptions (sendMessage(), onMessageSent(), onMessageExpired()).      *)
MessagesAreAnswered ==
    \A m \in Messages : (promise[m] = "pending") ~> (promise[m] = "settled")

(* A call of subscribeToContract() or _tryUnsubscribe() gets its turn and   *)
(* ends, behind the stopping and creating of the others.                   *)
TurnsEnd == \A p \in Processes : (pc[p] = "queued") ~> (pc[p] # "queued" /\ ~Owns(p))
=============================================================================
