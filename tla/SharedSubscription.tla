------------------------- MODULE SharedSubscription -------------------------
(***************************************************************************)
(* What the subscription controller promises to those who share a          *)
(* subscription: it is opened for a tab, closed only when no tab watches   *)
(* the address and no message to it is unanswered, closed at once when the *)
(* last tab leaves it to nobody, and opened anew only after it is closed.  *)
(***************************************************************************)
CONSTANTS Addresses, Tabs, Messages
VARIABLES watchers, senders, subscription
vars == <<watchers, senders, subscription>>

Init ==
    /\ watchers = [a \in Addresses |-> {}]
    /\ senders = [a \in Addresses |-> {}]
    /\ subscription = [a \in Addresses |-> "none"]

Become(a, state) == subscription' = [subscription EXCEPT ![a] = state]

Watch(a, t) == watchers' = [watchers EXCEPT ![a] = @ \cup {t}]

Open(a, t) ==
    /\ subscription[a] = "none"
    /\ Become(a, "running")
    /\ Watch(a, t)
    /\ UNCHANGED senders

Join(a, t) ==
    /\ subscription[a] = "running"
    /\ Watch(a, t)
    /\ UNCHANGED <<senders, subscription>>

(* A message is sent or answered whatever the subscription does. *)
Ask ==
    /\ senders' \in [Addresses -> SUBSET Messages]
    /\ UNCHANGED <<watchers, subscription>>

Leave(a, t) ==
    /\ watchers' = [watchers EXCEPT ![a] = @ \ {t}]
    /\ IF subscription[a] = "running" /\ watchers'[a] = {} /\ senders[a] = {}
         THEN Become(a, "stopping")
         ELSE UNCHANGED subscription
    /\ UNCHANGED senders

Close(a) ==
    /\ subscription[a] = "running"
    /\ watchers[a] = {} /\ senders[a] = {}
    /\ Become(a, "stopping")
    /\ UNCHANGED <<watchers, senders>>

Closed(a) ==
    /\ subscription[a] = "stopping"
    /\ Become(a, "none")
    /\ UNCHANGED <<watchers, senders>>

Next ==
    \/ Ask
    \/ \E a \in Addresses : Close(a) \/ Closed(a)
    \/ \E a \in Addresses, t \in Tabs : Open(a, t) \/ Join(a, t) \/ Leave(a, t)

Spec == Init /\ [][Next]_vars
=============================================================================
