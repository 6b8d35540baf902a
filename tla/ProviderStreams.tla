--------------------------- MODULE ProviderStreams ---------------------------
(***************************************************************************)
(* The JSON-RPC streams between the pages and the background: a frame's    *)
(* provider numbers its requests and keeps them until they are answered,   *)
(* the background serves each connection with an engine of its own, and    *)
(* keeps the connections by origin and by tab to notify them.              *)
(***************************************************************************)
EXTENDS Naturals, Sequences, FiniteSets, SequencesExt

CONSTANTS
    Frames,             \* pages and frames of pages, each loaded once
    Origin, Tab,        \* of a frame
    Requests, Frame,    \* the requests of the pages, and the frame of each
    Batch,              \* the requests sent in one call with a request
    MaxId,              \* 2^32 - 1 in the code
    FirstIds,           \* where the counters of getUniqueId() may start
    NoRequest

ASSUME StreamAssumption ==
    /\ Frame \in [Requests -> Frames] /\ NoRequest \notin Requests
    /\ Batch \in [Requests -> SUBSET Requests]
    /\ \A r \in Requests : /\ r \in Batch[r]
                           /\ \A q \in Batch[r] : Batch[q] = Batch[r] /\ Frame[q] = Frame[r]
    /\ MaxId \in Nat /\ FirstIds \subseteq 0..MaxId - 1
    /\ Cardinality(Requests) < MaxId    \* no number is used twice at a time

VARIABLES
    idCounter,      \* the last number each frame has given
    wireId,         \* the number each request was given
    waiting,        \* the idMap of each frame: the request of a number
    outcome,        \* what each request was answered with
    delivered,      \* the requests whose call was given all its answers
    toBackground, toPage,   \* the messages of each frame's port
    serving,        \* the numbers the engine of each frame is busy with
    open,           \* the frames with a connection (_connections)
    closed,
    connectionsOfOrigin, connectionsOfTab, tabsOfOrigin

client == <<idCounter, wireId, waiting, outcome, delivered>>
registries == <<open, closed, connectionsOfOrigin, connectionsOfTab, tabsOfOrigin>>
streamVars == <<client, toBackground, toPage, serving, registries>>

Origins == {Origin[f] : f \in Frames}
Tabs == {Tab[f] : f \in Frames}
Numbers == 0 .. MaxId - 1
Notification == [id |-> 0, kind |-> "notification"]

StreamInit ==
    /\ idCounter \in [Frames -> FirstIds]
    /\ wireId = [r \in Requests |-> MaxId]
    /\ waiting = [f \in Frames |-> [n \in Numbers |-> NoRequest]]
    /\ outcome = [r \in Requests |-> "none"] /\ delivered = {}
    /\ toBackground = [f \in Frames |-> <<>>] /\ toPage = [f \in Frames |-> <<>>]
    /\ serving = [f \in Frames |-> {}]
    /\ open = {} /\ closed = {}
    /\ connectionsOfOrigin = [o \in Origins |-> {}]
    /\ connectionsOfTab = [t \in Tabs |-> {}]
    /\ tabsOfOrigin = [o \in Origins |-> {}]

----------------------------------------------------------------------------
(* The connections of the background. *)

AddConnection(f) ==
    /\ f \notin open \cup closed
    /\ open' = open \cup {f}
    /\ connectionsOfOrigin' = [connectionsOfOrigin EXCEPT ![Origin[f]] = @ \cup {f}]
    /\ connectionsOfTab' = [connectionsOfTab EXCEPT ![Tab[f]] = @ \cup {f}]
    /\ tabsOfOrigin' = [tabsOfOrigin EXCEPT ![Origin[f]] = @ \cup {Tab[f]}]
    /\ UNCHANGED <<client, toBackground, toPage, serving, closed>>

(* Mutant: the connection stays in the set of its tab. *)
RemoveConnectionOfOrigin(f) ==
    /\ connectionsOfOrigin' = [connectionsOfOrigin EXCEPT ![Origin[f]] = @ \ {f}]
    /\ tabsOfOrigin' = [tabsOfOrigin EXCEPT ![Origin[f]] = @ \ {Tab[f]}]
    /\ UNCHANGED connectionsOfTab

(* The tab is no longer one of the origin, whatever frames it has left. *)
RemoveConnection(f) ==
    /\ connectionsOfOrigin' = [connectionsOfOrigin EXCEPT ![Origin[f]] = @ \ {f}]
    /\ connectionsOfTab' = [connectionsOfTab EXCEPT ![Tab[f]] = @ \ {f}]
    /\ tabsOfOrigin' = [tabsOfOrigin EXCEPT ![Origin[f]] = @ \ {Tab[f]}]

(* The port is closed, by the page or by the browser: what is under way is  *)
(* served and goes nowhere, and the page hears of it but its requests wait.*)
CloseFrame(f) ==
    /\ f \in open
    /\ open' = open \ {f} /\ closed' = closed \cup {f}
    /\ RemoveConnection(f)
    /\ toBackground' = [toBackground EXCEPT ![f] = <<>>]
    /\ toPage' = [toPage EXCEPT ![f] = <<>>]
    /\ UNCHANGED <<client, serving>>

Notify(frames) ==
    toPage' = [f \in Frames |-> IF f \in frames \cap open THEN Append(toPage[f], Notification)
                                                         ELSE toPage[f]]

(* _notifyTab(), _notifyConnections(), _notifyAllConnections() *)
NotifyPages ==
    /\ \A f \in Frames : Notification \notin Range(toPage[f])  \* one at a time
    /\ \/ \E t \in Tabs : Notify(connectionsOfTab[t])
       \/ \E o \in Origins : Notify(connectionsOfOrigin[o])
       \/ Notify(open)
    /\ UNCHANGED <<client, toBackground, serving, registries>>

----------------------------------------------------------------------------
(* The requests. *)

(* The numbers after the last one given, round to 0 at the maximum. *)
NextId(f, n) == (idCounter[f] + n) % MaxId

(* A call of request() or sendAsync(): each request is given a number      *)
(* (createIdRemapMiddleware) and posted, and waits under it.                *)
SendRequests(r) ==
    LET f == Frame[r]
        batch == SetToSeq(Batch[r])
        id(q) == NextId(f, CHOOSE n \in 1..Len(batch) : batch[n] = q)
    IN  /\ f \in open /\ wireId[r] = MaxId
        /\ idCounter' = [idCounter EXCEPT ![f] = NextId(f, Len(batch))]
        /\ wireId' = [q \in Requests |-> IF q \in Batch[r] THEN id(q) ELSE wireId[q]]
        /\ waiting' = [waiting EXCEPT ![f] =
                         [n \in Numbers |-> IF \E q \in Batch[r] : id(q) = n
                                              THEN CHOOSE q \in Batch[r] : id(q) = n ELSE @[n]]]
        /\ toBackground' = [toBackground EXCEPT ![f] =
                              @ \o [n \in 1..Len(batch) |-> id(batch[n])]]
        /\ UNCHANGED <<outcome, delivered, toPage, serving, registries>>

(* The engine of the connection takes a request to its middlewares, and    *)
(* does not wait for one to be served before it takes the next.             *)
TakeRequest(f) ==
    /\ toBackground[f] # <<>>
    /\ serving' = [serving EXCEPT ![f] = @ \cup {Head(toBackground[f])}]
    /\ toBackground' = [toBackground EXCEPT ![f] = Tail(@)]
    /\ UNCHANGED <<client, toPage, registries>>

(* Mutant: a request that no middleware ends gets no response. *)
RespondIfEnded(f, n, ending) ==
    IF f \in open /\ ending # "nothing"
      THEN toPage' = [toPage EXCEPT ![f] = Append(@, [id |-> n, kind |-> ending])]
      ELSE UNCHANGED toPage

(* _processRequest(): what ends with neither result nor error is an error. *)
Respond(f, n, ending) ==
    IF f \in open
      THEN toPage' = [toPage EXCEPT ![f] =
                        Append(@, [id |-> n, kind |-> IF ending = "nothing" THEN "error" ELSE ending])]
      ELSE UNCHANGED toPage

FinishRequest(f, n, ending) ==
    /\ n \in serving[f]
    /\ serving' = [serving EXCEPT ![f] = @ \ {n}]
    /\ Respond(f, n, ending)
    /\ UNCHANGED <<client, toBackground, registries>>

(* The responses of a batch are given together, when all are there. *)
Deliver(r) ==
    delivered' = IF \A q \in Batch[r] \ {r} : outcome[q] # "none"
                   THEN delivered \cup Batch[r] ELSE delivered

(* processMessage(): a message whose id is 0 or missing is a notification. *)
HearNotification(f) ==
    /\ toPage[f] # <<>> /\ Head(toPage[f]).id = 0
    /\ toPage' = [toPage EXCEPT ![f] = Tail(@)]
    /\ UNCHANGED <<client, toBackground, serving, registries>>

Answered(f, n) == waiting[f][n]

(* processResponse() throws when nobody waits under the id. *)
HearResponse(f) ==
    LET message == Head(toPage[f])
        r == Answered(f, message.id)
    IN  /\ toPage[f] # <<>> /\ message.id # 0
        /\ toPage' = [toPage EXCEPT ![f] = Tail(@)]
        /\ IF r = NoRequest
             THEN UNCHANGED <<waiting, outcome, delivered>>
             ELSE /\ waiting' = [waiting EXCEPT ![f][message.id] = NoRequest]
                  /\ outcome' = [outcome EXCEPT ![r] = message.kind]
                  /\ Deliver(r)
        /\ UNCHANGED <<idCounter, wireId, toBackground, serving, registries>>

Endings == {"result", "error", "nothing"}

(* The page takes the messages in their order. *)
HearPort(f) == HearNotification(f) \/ HearResponse(f)

FinishSome(f, n) == \E ending \in Endings : FinishRequest(f, n, ending)

StreamNext ==
    \/ NotifyPages
    \/ \E r \in Requests : SendRequests(r)
    \/ \E f \in Frames : AddConnection(f) \/ CloseFrame(f) \/ TakeRequest(f) \/ HearPort(f)
    \/ \E f \in Frames, n \in Numbers : FinishSome(f, n)

StreamSpec == StreamInit /\ [][StreamNext]_streamVars

----------------------------------------------------------------------------

(* Every live connection is found by its origin and by its tab, and no     *)
(* closed one is.  The tab is found by the origin as long as no other      *)
(* frame of the two was closed, and no tab without a frame of the origin is.*)
RegistriesKnowThePages ==
    /\ \A o \in Origins : connectionsOfOrigin[o] = {f \in open : Origin[f] = o}
    /\ \A t \in Tabs : connectionsOfTab[t] = {f \in open : Tab[f] = t}
    /\ \A o \in Origins, t \in Tabs :
          LET here(frames) == {f \in frames : Origin[f] = o /\ Tab[f] = t}
          IN  /\ t \in tabsOfOrigin[o] => here(open) # {}
              /\ (here(open) # {} /\ here(closed) = {}) => t \in tabsOfOrigin[o]

(* Every call is given its answers unless the page is closed or a request  *)
(* of it was given the number 0, whose response passes for a notification. *)
CallsAreAnswered ==
    \A r \in Requests :
        wireId[r] # MaxId ~> \/ r \in delivered \/ Frame[r] \in closed
                             \/ \E q \in Batch[r] : wireId[q] = 0
=============================================================================
