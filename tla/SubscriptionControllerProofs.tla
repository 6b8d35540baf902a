--------------------- MODULE SubscriptionControllerProofs ---------------------
(***************************************************************************)
(* What holds of the subscription controller for every set of tabs,        *)
(* addresses, calls, messages and stops, overlapping or not: types, that a *)
(* watched address keeps its one subscription, that those who share it     *)
(* find it as SharedSubscription promises, and that it goes with the last  *)
(* of them.                                                                *)
(***************************************************************************)
EXTENDS SubscriptionController, SequenceTheorems, TLAPS

(* What is done under the mutex is done by its owner ... *)
TurnIsOwned ==
    \A p \in Processes : pc[p] \in {"creating", "stopping"} => Owns(p)

(* ... to an address, ... *)
TurnHasAddress ==
    \A p \in Processes :
      pc[p] \in {"queued", "creating", "stopping"} => args[p].address \in Addresses

(* ... which is free to get a subscription while one is created for it ... *)
CreatedForTab ==
    \A p \in Processes : pc[p] = "creating" =>
      /\ args[p].tab \in Tabs
      /\ subscriptions[args[p].address] = "none"

(* ... and keeps the one that is stopped until its stop ends. *)
StoppedByOwner ==
    /\ \A p \in Processes : pc[p] = "stopping" => subscriptions[args[p].address] = "stopping"
    /\ \A a \in Addresses : subscriptions[a] = "stopping" =>
         \E p \in Processes : pc[p] = "stopping" /\ args[p].address = a

(* The two records of who watches an address agree, and a watched one has  *)
(* its subscription.                                                       *)
WatchersAgree ==
    \A t \in Tabs, a \in Addresses :
      /\ params[t][a] # {} => t \in subscriptionTabs[a]
      /\ t \in subscriptionTabs[a] => subscriptions[a] = "running"

TurnInv == TurnIsOwned /\ TurnHasAddress /\ CreatedForTab /\ StoppedByOwner

IInv == TypeOK /\ TurnInv /\ WatchersAgree

(***************************************************************************)
(* The mutex.                                                              *)
(***************************************************************************)

(* The mutex has one owner at a time. *)
LEMMA OneOwner ==
  ASSUME NEW p, NEW q, Owns(p), Owns(q)
  PROVE  p = q
  BY DEF Owns

(* Whoever queues for the mutex leaves it with its owner. *)
LEMMA QueueKeepsOwner ==
  ASSUME TurnTypes, NEW p \in Processes,
         subscriptionsMutex' = Append(subscriptionsMutex, p)
  PROVE  /\ subscriptionsMutex' \in Seq(Processes)
         /\ \A q : Owns(q) => Owns(q)'
  BY AppendProperties, LenProperties DEF TurnTypes, Owns

(* The queue is shorter, and well-typed, once the owner gives the mutex back. *)
LEMMA BackTypes ==
  ASSUME TurnTypes, NEW p \in Processes, Owns(p), GiveMutexBack
  PROVE  subscriptionsMutex' \in Seq(Processes)
  BY HeadTailProperties, EmptySeq, LenProperties DEF TurnTypes, Owns, GiveMutexBack

(* Where a process goes after its turn is outside the critical section. *)
LEMMA ContinuationType ==
  ASSUME NEW p \in Processes
  PROVE  Continuation(p) \in {"finished", "subscribed", "rejecting", "leaving", "idle"}
  BY DEF Continuation

(* The end of a turn: its process leaves the critical section, and nobody  *)
(* else is in it.                                                          *)
LEMMA EndOfTurn ==
  ASSUME IInv, NEW p \in Processes, Owns(p),
         NEW place \in {"finished", "subscribed", "rejecting", "leaving", "idle", "failed"},
         GoBack(p, place)
  PROVE  /\ subscriptionsMutex' \in Seq(Processes)
         /\ pc' \in [Processes -> Places]
         /\ args' \in [Processes -> Arguments]
         /\ TurnIsOwned' /\ TurnHasAddress' /\ CreatedForTab'
         /\ \A q \in Processes : pc'[q] # "stopping"
<1>0. TurnTypes
  BY DEF IInv, TypeOK
<1>1. subscriptionsMutex' \in Seq(Processes)
  BY <1>0, BackTypes DEF GoBack
<1>2. NoArguments \in Arguments
  BY DEF NoArguments, Arguments
<1>3. args' \in [Processes -> Arguments] /\ \A q \in Processes \ {p} : args'[q] = args[q]
  BY <1>0, <1>2 DEF GoBack, TurnTypes
<1>4. /\ pc' \in [Processes -> Places]
      /\ pc'[p] = place
      /\ \A q \in Processes \ {p} : pc'[q] = pc[q]
  BY <1>0 DEF GoBack, Goto, TurnTypes, Places
<1>5. \A q \in Processes : pc'[q] \notin {"creating", "stopping"}
  BY <1>4, OneOwner DEF IInv, TurnInv, TurnIsOwned
<1>6. TurnHasAddress'
  BY <1>3, <1>4 DEF IInv, TurnInv, TurnHasAddress
<1> QED
  BY <1>1, <1>3, <1>4, <1>5, <1>6 DEF TurnIsOwned, CreatedForTab

(***************************************************************************)
(* The steps of a turn.                                                    *)
(***************************************************************************)

(* The controller starts in the invariant. *)
LEMMA InitIInv == Init => IInv
<1> SUFFICES ASSUME Init PROVE IInv
  OBVIOUS
<1>1. NoArguments \in Arguments
  BY DEF NoArguments, Arguments
<1>2. TypeOK
  BY <1>1 DEF Init, TypeOK, RegistryTypes, RequestTypes, TurnTypes, AgendaTypes, Places
<1>3. TurnInv /\ WatchersAgree
  BY DEF Init, TurnInv, TurnIsOwned, TurnHasAddress, CreatedForTab, StoppedByOwner,
     WatchersAgree
<1> QED
  BY <1>2, <1>3 DEF IInv

(* Nobody but the owner of the mutex is in the critical section. *)
LEMMA AloneInTurn ==
  ASSUME IInv, NEW p \in Processes, Owns(p)
  PROVE  /\ \A q \in Processes : pc[q] \in {"creating", "stopping"} => q = p
         /\ \A a \in Addresses : subscriptions[a] = "stopping" =>
              pc[p] = "stopping" /\ args[p].address = a
  BY OneOwner DEF IInv, TurnInv, TurnIsOwned, StoppedByOwner

(* A turn that stops nothing. *)
LEMMA QuietEnd ==
  ASSUME IInv, NEW p \in Processes, Owns(p), pc[p] # "stopping",
         NEW place \in {"finished", "subscribed", "rejecting", "leaving", "idle", "failed"},
         GoBack(p, place),
         \A a \in Addresses : subscriptions'[a] = "stopping" => subscriptions[a] = "stopping"
  PROVE  TurnTypes' /\ TurnInv'
<1>1. /\ TurnTypes'
      /\ TurnIsOwned' /\ TurnHasAddress' /\ CreatedForTab'
      /\ \A q \in Processes : pc'[q] # "stopping"
  BY EndOfTurn DEF TurnTypes
<1>2. StoppedByOwner'
  BY <1>1, AloneInTurn DEF StoppedByOwner
<1> QED
  BY <1>1, <1>2 DEF TurnInv

(* A turn of _tryUnsubscribe(), from the state in which watching are the    *)
(* tabs that watch the address.                                            *)
LEMMA TryUnsubscribeStep ==
  ASSUME IInv, NEW p \in Processes, TakeTurn(p), NEW a \in Addresses,
         args[p].address = a, NEW watching, TryUnsubscribe(p, a, watching)
  PROVE  /\ subscriptions' \in [Addresses -> {"none", "running", "stopping"}]
         /\ TurnTypes' /\ TurnInv'
         /\ \A b \in Addresses : subscriptions[b] = "running" =>
              subscriptions'[b] = "running" \/ (b = a /\ watching = {})
<1>0. RegistryTypes /\ TurnTypes
  BY DEF IInv, TypeOK
<1>1. CASE Unused(a, watching) /\ subscriptions[a] = "running"
  <2>1. /\ subscriptions' = [subscriptions EXCEPT ![a] = "stopping"]
        /\ Goto(p, "stopping")
        /\ UNCHANGED turn
    BY <1>1 DEF TryUnsubscribe
  <2>2. pc' \in [Processes -> Places] /\ pc'[p] = "stopping"
        /\ \A q \in Processes \ {p} : pc'[q] = pc[q]
    BY <1>0, <2>1 DEF Goto, TurnTypes, Places
  <2>3. \A q \in Processes \ {p} : pc'[q] \notin {"creating", "stopping"}
    BY <2>2, AloneInTurn DEF TakeTurn
  <2>4. TurnIsOwned' /\ TurnHasAddress' /\ CreatedForTab'
    BY <1>0, <2>1, <2>2, <2>3 DEF TakeTurn, turn, IInv, TurnInv, TurnIsOwned, TurnHasAddress,
       CreatedForTab, Owns
  <2>5. StoppedByOwner'
    <3>1. \A b \in Addresses : subscriptions'[b] = "stopping" => b = a
      BY <1>0, <2>1, AloneInTurn DEF TakeTurn, RegistryTypes
    <3> QED
      BY <1>0, <2>1, <2>2, <2>3, <3>1 DEF turn, StoppedByOwner, RegistryTypes
  <2>6. TurnTypes'
    BY <1>0, <2>1, <2>2 DEF turn, TurnTypes
  <2> QED
    BY <1>0, <1>1, <2>1, <2>4, <2>5, <2>6 DEF TurnInv, RegistryTypes, Unused
<1>2. CASE ~(Unused(a, watching) /\ subscriptions[a] = "running")
  <2>1. GoBack(p, Continuation(p)) /\ UNCHANGED subscriptions
    BY <1>2 DEF TryUnsubscribe, Finish
  <2>2. TurnTypes' /\ TurnInv'
    BY <2>1, ContinuationType, QuietEnd DEF TakeTurn
  <2> QED
    BY <1>0, <2>1, <2>2 DEF RegistryTypes
<1> QED
  BY <1>1, <1>2

(* The address of whoever has its turn, and its tab if it has one. *)
LEMMA TurnArguments ==
  ASSUME IInv, NEW p \in Processes, pc[p] \in {"queued", "creating", "stopping"}
  PROVE  /\ args[p].address \in Addresses
         /\ args[p].tab \in Tabs \cup {None}
         /\ args[p].enable \subseteq Kinds /\ args[p].disable \subseteq Kinds
  BY DEF IInv, TypeOK, TurnTypes, TurnInv, TurnHasAddress, Arguments

(* The end of subscribeToContract(), once the address has its subscription. *)
LEMMA WatchStep ==
  ASSUME IInv, NEW p \in Processes, Watch(p),
         args[p].tab \in Tabs, args[p].address \in Addresses,
         args[p].enable \subseteq Kinds,
         subscriptions' = [subscriptions EXCEPT ![args[p].address] = "running"]
  PROVE  RegistryTypes' /\ WatchersAgree'
<1> DEFINE t == args[p].tab
           a == args[p].address
<1>0. RegistryTypes /\ WatchersAgree /\ t \in Tabs /\ a \in Addresses
  BY DEF IInv, TypeOK
<1>1. NewParams(p) \subseteq Kinds
  BY <1>0 DEF NewParams, RegistryTypes
<1>2. RegistryTypes'
  BY <1>0, <1>1 DEF Watch, RegistryTypes
<1>3. ASSUME NEW u \in Tabs, NEW b \in Addresses
      PROVE  /\ params'[u][b] # {} => u \in subscriptionTabs'[b]
             /\ u \in subscriptionTabs'[b] => subscriptions'[b] = "running"
  <2>1. CASE b = a
    BY <1>0, <2>1 DEF Watch, RegistryTypes, WatchersAgree
  <2>2. CASE b # a
    BY <1>0, <2>2 DEF Watch, RegistryTypes, WatchersAgree
  <2> QED
    BY <2>1, <2>2
<1> QED
  BY <1>2, <1>3 DEF WatchersAgree

(* The steps under the mutex keep the invariant. *)
LEMMA TurnStepIInv ==
  ASSUME IInv, NEW p \in Processes, TurnStep(p)
  PROVE  IInv'
<1>0. RegistryTypes /\ RequestTypes /\ TurnTypes /\ AgendaTypes /\ TurnInv /\ WatchersAgree
  BY DEF IInv, TypeOK
<1> DEFINE t == args[p].tab
           a == args[p].address
<1>1. CASE Query(p)
  <2>1. TurnTypes' /\ TurnInv'
    BY <1>1, QuietEnd, ContinuationType DEF Query, TakeTurn, Finish, shared
  <2> QED
    BY <1>0, <1>1, <2>1 DEF Query, shared, registry, requests, agenda, IInv, TypeOK,
       RegistryTypes, RequestTypes, AgendaTypes, WatchersAgree
<1>2. CASE Unsubscribe(p)
  <2>1. t \in Tabs /\ a \in Addresses
    BY <1>2, TurnArguments DEF Unsubscribe, TakeTurn
  <2>2. TryUnsubscribe(p, a, subscriptionTabs[a] \ {t})
    BY <1>2 DEF Unsubscribe
  <2>3. /\ subscriptions' \in [Addresses -> {"none", "running", "stopping"}]
        /\ TurnTypes' /\ TurnInv'
        /\ \A b \in Addresses : subscriptions[b] = "running" =>
             subscriptions'[b] = "running" \/ (b = a /\ subscriptionTabs[a] \ {t} = {})
    <3>1. TakeTurn(p)
      BY <1>2 DEF Unsubscribe
    <3> HIDE DEF a, t
    <3> QED
      BY <2>1, <2>2, <3>1, TryUnsubscribeStep DEF a
  <2>4. /\ tabs' = tabs
        /\ params' = [params EXCEPT ![t][a] = {}]
        /\ subscriptionTabs' = [subscriptionTabs EXCEPT ![a] = @ \ {t}]
    BY <1>2 DEF Unsubscribe
  <2>5. RegistryTypes'
    BY <1>0, <2>1, <2>3, <2>4 DEF RegistryTypes
  <2>6. ASSUME NEW u \in Tabs, NEW b \in Addresses
        PROVE  /\ params'[u][b] # {} => u \in subscriptionTabs'[b]
               /\ u \in subscriptionTabs'[b] => subscriptions'[b] = "running"
    <3>1. CASE b = a
      BY <1>0, <2>1, <2>3, <2>4, <3>1 DEF RegistryTypes, WatchersAgree
    <3>2. CASE b # a
      BY <1>0, <2>1, <2>3, <2>4, <3>2 DEF RegistryTypes, WatchersAgree
    <3> QED
      BY <3>1, <3>2
  <2> QED
    BY <1>0, <1>2, <2>3, <2>5, <2>6 DEF Unsubscribe, requests, agenda, IInv, TypeOK,
       RequestTypes, AgendaTypes, WatchersAgree
<1>3. CASE JoinSubscription(p)
  <2>1. t \in Tabs /\ a \in Addresses /\ args[p].enable \subseteq Kinds
    BY <1>3, TurnArguments DEF JoinSubscription, TakeTurnToWatch, TakeTurn
  <2>2. TurnTypes' /\ TurnInv'
    BY <1>3, QuietEnd, ContinuationType DEF JoinSubscription, TakeTurnToWatch, TakeTurn, Finish
  <2>3. subscriptions' = [subscriptions EXCEPT ![a] = "running"]
    BY <1>0, <1>3, <2>1 DEF JoinSubscription, RegistryTypes
  <2>4. RegistryTypes' /\ WatchersAgree'
    BY <1>3, <2>1, <2>3, WatchStep DEF JoinSubscription
  <2> QED
    BY <1>0, <1>3, <2>2, <2>4 DEF JoinSubscription, requests, agenda, IInv, TypeOK,
       RequestTypes, AgendaTypes
<1>4. CASE StartCreating(p)
  <2>1. t \in Tabs /\ a \in Addresses /\ TakeTurn(p)
    BY <1>4, TurnArguments DEF StartCreating, TakeTurnToWatch, TakeTurn
  <2>2. subscriptions[a] = "none"
    BY <1>0, <1>4, <2>1, AloneInTurn DEF StartCreating, TakeTurn, RegistryTypes
  <2>3. /\ pc' \in [Processes -> Places]
        /\ pc'[p] = "creating"
        /\ \A q \in Processes \ {p} : pc'[q] = pc[q] /\ pc'[q] \notin {"creating", "stopping"}
    BY <1>0, <1>4, <2>1, AloneInTurn DEF StartCreating, Goto, TurnTypes, Places, TakeTurn
  <2>4. TurnTypes'
    BY <1>0, <1>4, <2>3 DEF StartCreating, turn, TurnTypes
  <2>5. TurnIsOwned' /\ TurnHasAddress' /\ CreatedForTab'
    BY <1>0, <1>4, <2>1, <2>2, <2>3 DEF StartCreating, shared, turn, TakeTurn, Owns, TurnInv,
       TurnIsOwned, TurnHasAddress, CreatedForTab
  <2>6. StoppedByOwner'
    BY <1>4, <2>1, <2>3, AloneInTurn DEF StartCreating, shared, TakeTurn, StoppedByOwner
  <2> QED
    BY <1>0, <1>4, <2>4, <2>5, <2>6 DEF StartCreating, shared, registry, requests, agenda, IInv,
       TypeOK, TurnInv, RegistryTypes, RequestTypes, AgendaTypes, WatchersAgree
<1>5. CASE CreateSubscription(p)
  <2>1. t \in Tabs /\ a \in Addresses /\ args[p].enable \subseteq Kinds /\ Owns(p)
    BY <1>0, <1>5, TurnArguments DEF CreateSubscription, TurnInv, CreatedForTab, TurnIsOwned
  <2>2. subscriptions' = [subscriptions EXCEPT ![a] = "running"]
    BY <1>5 DEF CreateSubscription
  <2>3. \A b \in Addresses : subscriptions'[b] = "stopping" => subscriptions[b] = "stopping"
    BY <1>0, <2>1, <2>2 DEF RegistryTypes
  <2>4. TurnTypes' /\ TurnInv'
    BY <1>5, <2>1, <2>3, QuietEnd, ContinuationType DEF CreateSubscription, Finish
  <2>5. RegistryTypes' /\ WatchersAgree'
    BY <1>5, <2>1, <2>2, WatchStep DEF CreateSubscription
  <2> QED
    BY <1>0, <1>5, <2>4, <2>5 DEF CreateSubscription, requests, agenda, IInv, TypeOK,
       RequestTypes, AgendaTypes
<1>6. CASE CreationFails(p)
  <2>1. TurnTypes' /\ TurnInv'
    BY <1>0, <1>6, QuietEnd DEF CreationFails, shared, TurnInv, TurnIsOwned
  <2> QED
    BY <1>0, <1>6, <2>1 DEF CreationFails, shared, registry, requests, agenda, IInv, TypeOK,
       RegistryTypes, RequestTypes, AgendaTypes, WatchersAgree
<1>7. CASE LeaveUnused(p)
  <2>1. a \in Addresses
    BY <1>7, TurnArguments DEF LeaveUnused, TakeTurn
  <2>2. /\ subscriptions' \in [Addresses -> {"none", "running", "stopping"}]
        /\ TurnTypes' /\ TurnInv'
        /\ \A b \in Addresses : subscriptions[b] = "running" =>
             subscriptions'[b] = "running" \/ (b = a /\ subscriptionTabs[a] = {})
    <3>1. TakeTurn(p) /\ TryUnsubscribe(p, a, subscriptionTabs[a])
      BY <1>7 DEF LeaveUnused
    <3> HIDE DEF a
    <3> QED
      BY <2>1, <3>1, TryUnsubscribeStep DEF a
  <2>3. RegistryTypes' /\ WatchersAgree'
    BY <1>0, <1>7, <2>1, <2>2 DEF LeaveUnused, registry, RegistryTypes, WatchersAgree
  <2> QED
    BY <1>0, <1>7, <2>2, <2>3 DEF LeaveUnused, requests, agenda, IInv, TypeOK,
       RequestTypes, AgendaTypes
<1>8. CASE EndStop(p)
  <2>1. a \in Addresses /\ Owns(p) /\ subscriptions[a] = "stopping"
    BY <1>0, <1>8, TurnArguments DEF EndStop, TurnInv, TurnIsOwned, StoppedByOwner
  <2>2. subscriptions' = [subscriptions EXCEPT ![a] = "none"]
    BY <1>8 DEF EndStop
  <2>3. /\ TurnTypes'
        /\ TurnIsOwned' /\ TurnHasAddress' /\ CreatedForTab'
        /\ \A q \in Processes : pc'[q] # "stopping"
    BY <1>8, <2>1, ContinuationType, EndOfTurn DEF EndStop, Finish, TurnTypes
  <2>4. \A b \in Addresses : subscriptions'[b] # "stopping"
    BY <1>0, <2>1, <2>2, AloneInTurn DEF RegistryTypes
  <2>5. RegistryTypes' /\ WatchersAgree'
    BY <1>0, <1>8, <2>1, <2>2 DEF EndStop, registry, RegistryTypes, WatchersAgree
  <2>6. RequestTypes'
    BY <1>0, <1>8 DEF EndStop, requests, RequestTypes
  <2> QED
    BY <1>0, <1>8, <2>3, <2>4, <2>5, <2>6 DEF EndStop, agenda, IInv, TypeOK, TurnInv,
       StoppedByOwner, AgendaTypes
<1> QED
  BY <1>1, <1>2, <1>3, <1>4, <1>5, <1>6, <1>7, <1>8 DEF TurnStep

(***************************************************************************)
(* The steps outside a turn: the subscriptions and their tabs stay as they *)
(* are, and a process queues for the mutex or does something of its own.   *)
(***************************************************************************)

Outside == Places \ {"creating", "stopping"}

(* A process outside the critical section goes on outside it, or queues. *)
LEMMA OutsideStep ==
  ASSUME IInv, NEW p \in Processes, pc[p] \in Outside,
         NEW place \in Outside, Goto(p, place),
         NEW arguments \in Arguments, args' = [args EXCEPT ![p] = arguments],
         place = "queued" => arguments.address \in Addresses,
         \/ UNCHANGED subscriptionsMutex
         \/ subscriptionsMutex' = Append(subscriptionsMutex, p),
         UNCHANGED shared
  PROVE  RegistryTypes' /\ TurnTypes' /\ TurnInv' /\ WatchersAgree'
<1>0. RegistryTypes /\ TurnTypes /\ TurnInv /\ WatchersAgree
  BY DEF IInv, TypeOK
<1>1. /\ subscriptionsMutex' \in Seq(Processes)
      /\ \A q : Owns(q) => Owns(q)'
  BY <1>0, QueueKeepsOwner DEF TurnTypes, Owns
<1>2. /\ pc' \in [Processes -> Places] /\ args' \in [Processes -> Arguments]
      /\ pc'[p] = place /\ args'[p] = arguments
      /\ \A q \in Processes \ {p} : pc'[q] = pc[q] /\ args'[q] = args[q]
  BY <1>0 DEF Goto, TurnTypes, Outside
<1>3. TurnTypes'
  BY <1>1, <1>2 DEF TurnTypes
<1>4. TurnIsOwned'
  BY <1>0, <1>1, <1>2 DEF TurnInv, TurnIsOwned, Outside
<1>5. TurnHasAddress'
  BY <1>0, <1>2 DEF TurnInv, TurnHasAddress, Outside
<1>6. CreatedForTab'
  BY <1>0, <1>2 DEF TurnInv, CreatedForTab, Outside, shared
<1>7. StoppedByOwner'
  BY <1>0, <1>2 DEF TurnInv, StoppedByOwner, Outside, shared
<1> QED
  BY <1>0, <1>3, <1>4, <1>5, <1>6, <1>7
  DEF TurnInv, shared, registry, RegistryTypes, WatchersAgree

(* The same for a step that leaves the arguments and the mutex alone. *)
LEMMA LocalStep ==
  ASSUME IInv, NEW p \in Processes, pc[p] \in Outside,
         NEW place \in Outside \ {"queued"}, Goto(p, place), UNCHANGED <<turn, shared>>
  PROVE  RegistryTypes' /\ TurnTypes' /\ TurnInv' /\ WatchersAgree'
<1>1. args[p] \in Arguments /\ args' = [args EXCEPT ![p] = args[p]]
  BY DEF IInv, TypeOK, TurnTypes, turn
<1> QED
  BY <1>1, OutsideStep DEF turn, shared, registry

(* ... and for one that queues for the mutex. *)
LEMMA QueueStep ==
  ASSUME IInv, NEW p \in Processes, pc[p] \in Outside,
         NEW arguments \in Arguments, arguments.address \in Addresses,
         Queue(p, arguments), Goto(p, "queued"), UNCHANGED shared
  PROVE  RegistryTypes' /\ TurnTypes' /\ TurnInv' /\ WatchersAgree'
<1>1. "queued" \in Outside
  BY DEF Outside, Places
<1> QED
  BY <1>1, OutsideStep DEF Queue, shared, registry

(* The arguments that the calls are made with are of their type. *)
LEMMA ArgumentTypes ==
  /\ NoArguments \in Arguments
  /\ \A t \in Tabs, a \in Addresses, enable, disable \in SUBSET Kinds :
       Subscribe(t, a, enable, disable) \in Arguments
  /\ \A t \in Tabs : [NoArguments EXCEPT !.tab = t] \in Arguments
  /\ \A a \in Addresses : TryUnsubscribeOf(a) \in Arguments /\ TryUnsubscribeOf(a).address = a
  BY DEF NoArguments, Arguments, Subscribe, TryUnsubscribeOf

(* Calling subscribeToContract() keeps the invariant, ... *)
LEMMA CallSubscribeStep ==
  ASSUME IInv, NEW p \in Calls, CallSubscribe(p)
  PROVE  IInv'
<1>1. PICK t \in Tabs, a \in Addresses, enable \in SUBSET Kinds, disable \in SUBSET Kinds :
        Queue(p, Subscribe(t, a, enable, disable))
  BY DEF CallSubscribe
<1>2. /\ p \in Processes
      /\ Subscribe(t, a, enable, disable) \in Arguments
      /\ Subscribe(t, a, enable, disable).address = a
  BY ArgumentTypes DEF Processes, Subscribe
<1>3. RegistryTypes' /\ TurnTypes' /\ TurnInv' /\ WatchersAgree'
  BY <1>1, <1>2, QueueStep DEF CallSubscribe, Outside, Places
<1> QED
  BY <1>3 DEF CallSubscribe, requests, agenda, IInv, TypeOK, RequestTypes, AgendaTypes

(* ... and so does calling unsubscribeFromAllContracts(). *)
LEMMA CallLeaveStep ==
  ASSUME IInv, NEW p \in Calls, CallLeave(p)
  PROVE  IInv'
<1>0. p \in Processes /\ RegistryTypes /\ RequestTypes /\ AgendaTypes
  BY DEF Processes, IInv, TypeOK
<1>1. PICK t \in tabs : /\ toLeave' = [toLeave EXCEPT ![p] = {t}]
                        /\ args' = [args EXCEPT ![p] = [NoArguments EXCEPT !.tab = t]]
  BY DEF CallLeave
<1>2. t \in Tabs /\ [NoArguments EXCEPT !.tab = t] \in Arguments
  BY <1>0, ArgumentTypes DEF RegistryTypes
<1>3. RegistryTypes' /\ TurnTypes' /\ TurnInv' /\ WatchersAgree'
  <2>1. pc[p] \in Outside /\ "leaving" \in Outside /\ Goto(p, "leaving")
    BY DEF CallLeave, Outside, Places
  <2>2. UNCHANGED shared /\ UNCHANGED subscriptionsMutex
    BY DEF CallLeave
  <2> QED
    BY <1>0, <1>1, <1>2, <2>1, <2>2, OutsideStep
<1>4. AgendaTypes'
  BY <1>0, <1>1, <1>2 DEF CallLeave, AgendaTypes
<1> QED
  BY <1>0, <1>3, <1>4 DEF CallLeave, requests, IInv, TypeOK, RequestTypes

(* A process that leaves a tab has that tab among its arguments. *)
LEMMA LeaveStepIInv ==
  ASSUME IInv, NEW p \in Calls \cup Stoppers, LeaveStep(p)
  PROVE  IInv'
<1>0. p \in Processes /\ RegistryTypes /\ RequestTypes /\ TurnTypes /\ AgendaTypes
  BY DEF Processes, IInv, TypeOK
<1>1. CASE LeaveAddress(p)
  <2>1. PICK a \in Addresses : Queue(p, UnsubscribeOf(args[p].tab, a))
    BY <1>1 DEF LeaveAddress
  <2>2. UnsubscribeOf(args[p].tab, a) \in Arguments
        /\ UnsubscribeOf(args[p].tab, a).address = a
    BY <1>0 DEF TurnTypes, Arguments, UnsubscribeOf, Subscribe
  <2>3. RegistryTypes' /\ TurnTypes' /\ TurnInv' /\ WatchersAgree'
    BY <1>0, <1>1, <2>1, <2>2, QueueStep DEF LeaveAddress, Outside, Places
  <2> QED
    BY <1>0, <1>1, <2>3 DEF LeaveAddress, requests, agenda, IInv, TypeOK, RequestTypes,
       AgendaTypes
<1>2. CASE LeaveTab(p)
  <2>1. /\ toLeave' = [toLeave EXCEPT ![p] = @ \ {args[p].tab}]
        /\ AgendaTypes'
        /\ toLeave'[p] \subseteq Tabs
    BY <1>0, <1>2 DEF LeaveTab, AgendaTypes
  <2>2. RegistryTypes' /\ TurnTypes' /\ TurnInv' /\ WatchersAgree'
    <3>1. CASE toLeave'[p] = {}
      <4>1. PICK place \in {"clearing", "idle"} : Goto(p, place)
        BY <1>2, <3>1 DEF LeaveTab
      <4>2. args' = [args EXCEPT ![p] = NoArguments]
        BY <1>2, <3>1 DEF LeaveTab
      <4>3. place \in Outside /\ place # "queued" /\ pc[p] \in Outside
        BY <1>2, <4>1 DEF LeaveTab, Outside, Places
      <4> QED
        BY <1>0, <1>2, <4>1, <4>2, <4>3, OutsideStep, ArgumentTypes DEF LeaveTab
    <3>2. CASE toLeave'[p] # {}
      <4>1. PICK t \in toLeave'[p] : args' = [args EXCEPT ![p].tab = t]
        BY <1>2, <3>2 DEF LeaveTab
      <4>2. /\ [args[p] EXCEPT !.tab = t] \in Arguments
            /\ args' = [args EXCEPT ![p] = [args[p] EXCEPT !.tab = t]]
        BY <1>0, <2>1, <4>1 DEF TurnTypes, Arguments
      <4>3. Goto(p, "leaving") /\ pc[p] \in Outside /\ "leaving" \in Outside
        BY <1>0, <1>2, <3>2 DEF LeaveTab, Goto, TurnTypes, Outside, Places
      <4> QED
        BY <1>0, <1>2, <4>2, <4>3, OutsideStep DEF LeaveTab
    <3> QED
      BY <3>1, <3>2
  <2> QED
    BY <1>0, <1>2, <2>1, <2>2 DEF LeaveTab, requests, IInv, TypeOK, RequestTypes
<1> QED
  BY <1>1, <1>2 DEF LeaveStep

(***************************************************************************)
(* The requests.                                                           *)
(***************************************************************************)

(* Deleting a request leaves the maps of requests well-typed. *)
LEMMA RequestsDeleted ==
  ASSUME RequestTypes, NEW m \in Messages, DeleteRequest(m), Settle(m), UNCHANGED held
  PROVE  RequestTypes'
<1>1. To[m] \in Addresses
  BY ConstantsAssumption DEF ConstantsAssumption
<1>2. Detach({To[m]}) \in [Messages -> {"nothing", "absent", "current", "replaced"}]
  BY DEF Detach, RequestTypes
<1>3. sendMessageRequests' \in [Addresses -> SUBSET Messages]
  BY <1>1 DEF DeleteRequest, RequestTypes
<1>4. seen' = Detach({To[m]}) \/ seen' = seen
  BY DEF DeleteRequest
<1>5. promise' \in [Messages -> {"none", "pending", "settled"}]
  BY DEF Settle, RequestTypes
<1> QED
  BY <1>2, <1>3, <1>4, <1>5 DEF RequestTypes

(* The steps of sendMessage() and of a report keep the invariant. *)
LEMMA MessageStepIInv ==
  ASSUME IInv, NEW m \in Messages, ReadRequests(m) \/ MessageStep(m)
  PROVE  IInv'
<1>0. m \in Processes /\ RegistryTypes /\ RequestTypes /\ TurnTypes /\ AgendaTypes
  BY DEF Processes, IInv, TypeOK
<1>1. To[m] \in Addresses /\ From[m] \in Tabs /\ {"state"} \subseteq Kinds
  BY ConstantsAssumption DEF ConstantsAssumption
<1>2. TryUnsubscribeOf(To[m]) \in Arguments /\ TryUnsubscribeOf(To[m]).address = To[m]
  BY <1>1, ArgumentTypes
<1>3. CASE ReadRequests(m)
  <2>1. RegistryTypes' /\ TurnTypes' /\ TurnInv' /\ WatchersAgree'
    BY <1>0, <1>3, LocalStep DEF ReadRequests, Outside, Places
  <2>2. RequestTypes'
    BY <1>0, <1>3 DEF ReadRequests, RequestTypes
  <2> QED
    BY <1>0, <1>3, <2>1, <2>2 DEF ReadRequests, agenda, IInv, TypeOK, AgendaTypes
<1>4. CASE Register(m)
  <2>1. /\ Subscribe(From[m], To[m], {"state"}, {}) \in Arguments
        /\ Subscribe(From[m], To[m], {"state"}, {}).address = To[m]
    BY <1>1, ArgumentTypes DEF Subscribe
  <2>2. pc[m] \in Outside
    BY <1>4 DEF Register, Outside, Places
  <2>3. RegistryTypes' /\ TurnTypes' /\ TurnInv' /\ WatchersAgree'
    BY <1>0, <1>1, <1>4, <2>1, <2>2, QueueStep DEF Register
  <2>4. Detach({To[m]}) \in [Messages -> {"nothing", "absent", "current", "replaced"}]
    BY <1>0 DEF Detach, RequestTypes
  <2>5. RequestTypes'
    <3>1. /\ promise' = [promise EXCEPT ![m] = "pending"]
          /\ UNCHANGED held
          /\ \/ sendMessageRequests' = [sendMessageRequests EXCEPT ![To[m]] = {m}]
             \/ sendMessageRequests' = [sendMessageRequests EXCEPT ![To[m]] = @ \cup {m}]
             \/ UNCHANGED sendMessageRequests
          /\ \/ seen' = [Detach({To[m]}) EXCEPT ![m] = "nothing"]
             \/ seen' = [seen EXCEPT ![m] = "nothing"]
      BY <1>4 DEF Register
    <3>2. sendMessageRequests' \in [Addresses -> SUBSET Messages]
      BY <1>0, <1>1, <3>1 DEF RequestTypes
    <3>3. seen' \in [Messages -> {"nothing", "absent", "current", "replaced"}]
      BY <1>0, <2>4, <3>1 DEF RequestTypes
    <3> QED
      BY <1>0, <3>1, <3>2, <3>3 DEF RequestTypes
  <2> QED
    BY <1>0, <1>4, <2>3, <2>5 DEF Register, agenda, IInv, TypeOK, AgendaTypes
<1>5. CASE TakeSubscription(m)
  <2>1. PICK place \in {"sending", "failed"} : Goto(m, place)
    BY <1>5 DEF TakeSubscription
  <2>2. place \in Outside \ {"queued"} /\ pc[m] \in Outside
    BY <1>5 DEF TakeSubscription, Outside, Places
  <2>3. RegistryTypes' /\ TurnTypes' /\ TurnInv' /\ WatchersAgree'
    BY <1>0, <1>5, <2>1, <2>2, LocalStep DEF TakeSubscription
  <2>4. RequestTypes'
    BY <1>0, <1>5 DEF TakeSubscription, requests, RequestTypes
  <2> QED
    BY <1>0, <1>5, <2>3, <2>4 DEF TakeSubscription, agenda, IInv, TypeOK, AgendaTypes
<1>6. CASE Send(m) \/ SendFails(m)
  <2>1. PICK place \in {"sent", "failed"} : Goto(m, place)
    BY <1>6 DEF Send, SendFails
  <2>2. place \in Outside \ {"queued"} /\ pc[m] \in Outside /\ UNCHANGED <<turn, shared>>
    BY <1>6 DEF Send, SendFails, Outside, Places
  <2>3. RegistryTypes' /\ TurnTypes' /\ TurnInv' /\ WatchersAgree'
    BY <1>0, <2>1, <2>2, LocalStep
  <2> QED
    BY <1>0, <1>6, <2>3 DEF Send, SendFails, requests, agenda, IInv, TypeOK, RequestTypes,
       AgendaTypes
<1>7. ASSUME pc[m] \in Outside, SettleRequest(m), UNCHANGED <<shared, agenda, held>>
      PROVE  IInv'
  <2>1. RegistryTypes' /\ TurnTypes' /\ TurnInv' /\ WatchersAgree'
    BY <1>0, <1>1, <1>2, <1>7, QueueStep DEF SettleRequest
  <2>2. RequestTypes'
    BY <1>0, <1>7, RequestsDeleted DEF SettleRequest
  <2> QED
    BY <1>0, <1>7, <2>1, <2>2 DEF agenda, IInv, TypeOK, AgendaTypes
<1>8. ASSUME pc[m] \in Outside, Goto(m, "finished"), RequestTypes',
             UNCHANGED <<shared, turn, agenda>>
      PROVE  IInv'
  <2>1. RegistryTypes' /\ TurnTypes' /\ TurnInv' /\ WatchersAgree'
    BY <1>0, <1>8, LocalStep DEF Outside, Places
  <2> QED
    BY <1>0, <1>8, <2>1 DEF agenda, IInv, TypeOK, AgendaTypes
<1>9. CASE Reject(m)
  <2>1. pc[m] \in Outside
    BY <1>9 DEF Reject, Outside, Places
  <2>2. CASE Registered(m)
    BY <1>7, <1>9, <2>1, <2>2 DEF Reject
  <2>3. CASE ~Registered(m)
    <3>1. RequestTypes'
      BY <1>0, <1>9, <2>3 DEF Reject, Settle, RequestTypes
    <3> QED
      BY <1>8, <1>9, <2>1, <2>3, <3>1 DEF Reject
  <2> QED
    BY <2>2, <2>3
<1>10. CASE Report(m)
  <2>1. pc[m] \in Outside
    BY <1>10 DEF Report, Outside, Places
  <2>2. CASE Registered(m)
    BY <1>7, <1>10, <2>1, <2>2 DEF Report
  <2>3. CASE ~Registered(m)
    <3>1. RequestTypes'
      BY <1>0, <1>10, <2>3 DEF Report, requests, RequestTypes
    <3> QED
      BY <1>8, <1>10, <2>1, <2>3, <3>1 DEF Report
  <2> QED
    BY <2>2, <2>3
<1> QED
  BY <1>3, <1>4, <1>5, <1>6, <1>9, <1>10 DEF MessageStep

(***************************************************************************)
(* stopSubscriptions().                                                    *)
(***************************************************************************)

(* Calling stopSubscriptions() keeps the invariant, ... *)
LEMMA CallStopStep ==
  ASSUME IInv, NEW p \in Stoppers, CallStop(p)
  PROVE  IInv'
<1>0. p \in Processes /\ RegistryTypes /\ RequestTypes /\ TurnTypes /\ AgendaTypes
  BY DEF Processes, IInv, TypeOK
<1>1. pc[p] \in Outside /\ {"clearing", "leaving"} \subseteq Outside \ {"queued"}
  BY DEF CallStop, Outside, Places
<1>2. RegistryTypes' /\ TurnTypes' /\ TurnInv' /\ WatchersAgree'
  <2>1. CASE tabs = {}
    BY <1>0, <1>1, <2>1, LocalStep DEF CallStop, turn
  <2>2. CASE tabs # {}
    <3>1. PICK t \in tabs : args' = [args EXCEPT ![p] = [NoArguments EXCEPT !.tab = t]]
      BY <2>2 DEF CallStop
    <3>2. [NoArguments EXCEPT !.tab = t] \in Arguments
      BY <1>0, ArgumentTypes DEF RegistryTypes
    <3>3. Goto(p, "leaving") /\ UNCHANGED shared /\ UNCHANGED subscriptionsMutex
      BY <2>2 DEF CallStop
    <3> QED
      BY <1>0, <1>1, <3>1, <3>2, <3>3, OutsideStep
  <2> QED
    BY <2>1, <2>2
<1>3. AgendaTypes'
  BY <1>0 DEF CallStop, RegistryTypes, AgendaTypes
<1> QED
  BY <1>0, <1>2, <1>3 DEF CallStop, requests, IInv, TypeOK, RequestTypes

(* ... rejecting one request does, ... *)
LEMMA RejectOneStep ==
  ASSUME IInv, NEW p \in Stoppers, pc[p] \in Outside, NEW m \in Messages,
         NEW addresses \in SUBSET Addresses, NEW messages \in SUBSET Messages,
         RejectOne(p, m, addresses, messages), UNCHANGED <<shared, toLeave, held>>
  PROVE  IInv'
<1>0. p \in Processes /\ RegistryTypes /\ RequestTypes /\ TurnTypes /\ AgendaTypes
  BY DEF Processes, IInv, TypeOK
<1>1. To[m] \in Addresses
  BY ConstantsAssumption DEF ConstantsAssumption
<1>2. RegistryTypes' /\ TurnTypes' /\ TurnInv' /\ WatchersAgree'
  BY <1>0, <1>1, QueueStep, ArgumentTypes DEF RejectOne
<1>3. RequestTypes'
  BY <1>0, RequestsDeleted DEF RejectOne
<1>4. AgendaTypes'
  BY <1>0 DEF RejectOne, AgendaTypes
<1> QED
  BY <1>2, <1>3, <1>4 DEF IInv, TypeOK

(* ... each stretch of _clearSendMessageRequests() between two awaits does, ... *)
LEMMA ClearPreserves ==
  ASSUME IInv, NEW p \in Stoppers, pc[p] \in Outside,
         NEW addresses \in SUBSET Addresses, NEW messages \in SUBSET Messages,
         Clear(p, addresses, messages), UNCHANGED <<shared, toLeave, held>>
  PROVE  IInv'
<1>0. p \in Processes /\ RegistryTypes /\ RequestTypes /\ TurnTypes /\ AgendaTypes
  BY DEF Processes, IInv, TypeOK
<1>1. ASSUME NEW m \in messages, RejectOne(p, m, addresses, messages)
      PROVE  IInv'
  BY <1>1, RejectOneStep
<1>2. ASSUME NEW a \in addresses, NEW m \in sendMessageRequests[a],
             RejectOne(p, m, addresses \ {a}, sendMessageRequests[a])
      PROVE  IInv'
  <2>1. /\ m \in Messages
        /\ sendMessageRequests[a] \in SUBSET Messages
        /\ addresses \ {a} \in SUBSET Addresses
    BY <1>0 DEF RequestTypes
  <2> QED
    BY <1>2, <2>1, RejectOneStep
<1>3. ASSUME NEW place \in {"failed", "finished"}, Goto(p, place), UNCHANGED <<turn, toClear>>,
             RequestTypes'
      PROVE  IInv'
  <2>1. place \in Outside \ {"queued"}
    BY DEF Outside, Places
  <2>2. RegistryTypes' /\ TurnTypes' /\ TurnInv' /\ WatchersAgree'
    BY <1>0, <1>3, <2>1, LocalStep
  <2> QED
    BY <1>0, <1>3, <2>2 DEF IInv, TypeOK, AgendaTypes
<1>4. ASSUME Goto(p, "failed"), UNCHANGED <<requests, turn, toClear>>
      PROVE  IInv'
  BY <1>0, <1>3, <1>4 DEF requests, RequestTypes
<1>5. ASSUME sendMessageRequests' = [a \in Addresses |-> {}], seen' = Detach(Addresses),
             Goto(p, "finished"), UNCHANGED <<promise, turn, toClear>>
      PROVE  IInv'
  <2>1. RequestTypes'
    BY <1>0, <1>5 DEF RequestTypes, Detach
  <2> QED
    BY <1>3, <1>5, <2>1
<1> QED
  BY <1>1, <1>2, <1>4, <1>5 DEF Clear

(* ... and so do its first stretch and the later ones. *)
LEMMA ClearStepIInv ==
  ASSUME IInv, NEW p \in Stoppers, ClearStep(p)
  PROVE  IInv'
<1>1. CASE StartClearing(p)
  BY <1>1, ClearPreserves DEF StartClearing, Outside, Places
<1>2. CASE ContinueClearing(p)
  <2>1. toClear[p].addresses \in SUBSET Addresses /\ toClear[p].messages \in SUBSET Messages
    BY DEF IInv, TypeOK, AgendaTypes
  <2> QED
    BY <1>2, <2>1, ClearPreserves DEF ContinueClearing, Outside, Places
<1> QED
  BY <1>1, <1>2 DEF ClearStep

(***************************************************************************)
(* The specification.                                                      *)
(***************************************************************************)

(* Every step of every process keeps the invariant. *)
LEMMA NextIInv ==
  ASSUME IInv, [Next]_vars
  PROVE  IInv'
<1>1. CASE \E p \in Processes : TurnStep(p)
  BY <1>1, TurnStepIInv
<1>2. CASE \E p \in Calls : CallSubscribe(p) \/ CallLeave(p)
  BY <1>2, CallSubscribeStep, CallLeaveStep
<1>3. CASE \E p \in Calls \cup Stoppers : LeaveStep(p)
  BY <1>3, LeaveStepIInv
<1>4. CASE \E m \in Messages : ReadRequests(m) \/ MessageStep(m)
  BY <1>4, MessageStepIInv
<1>5. CASE \E p \in Stoppers : CallStop(p) \/ ClearStep(p)
  BY <1>5, CallStopStep, ClearStepIInv
<1>6. CASE UNCHANGED vars
  BY <1>6 DEF vars, shared, registry, requests, turn, agenda, IInv, TypeOK, RegistryTypes,
     RequestTypes, TurnTypes, AgendaTypes, TurnInv, TurnIsOwned, TurnHasAddress, CreatedForTab,
     StoppedByOwner, WatchersAgree, Owns
<1> QED
  BY <1>1, <1>2, <1>3, <1>4, <1>5, <1>6 DEF Next

(* The inductive invariant holds of every behaviour. *)
THEOREM Invariant == Spec => []IInv
  BY InitIInv, NextIInv, PTL DEF Spec

(* The variables keep their types, whatever the calls do: no tab ends up    *)
(* where an address belongs, no process in a place it has no code for.     *)
THEOREM TypeCorrect == Spec => []TypeOK
<1>1. IInv => TypeOK
  BY DEF IInv
<1> QED
  BY Invariant, <1>1, PTL

(* A tab that is told of an address has a running subscription for it: the  *)
(* turns of _tryUnsubscribe() and _createSubscription() leave none without. *)
THEOREM Watched == Spec => []WatchedIsRunning
<1>1. IInv => WatchedIsRunning
  BY DEF IInv, WatchersAgree, WatchedIsRunning
<1> QED
  BY Invariant, <1>1, PTL

(* subscribeToContract() creates a subscription only for an address that    *)
(* has none, not even one that is being stopped.                           *)
THEOREM Once == Spec => []NeverTwice
<1>1. IInv => NeverTwice
  BY DEF IInv, TurnInv, CreatedForTab, NeverTwice
<1> QED
  BY Invariant, <1>1, PTL

(***************************************************************************)
(* No subscription is left over.                                           *)
(***************************************************************************)

(* Who is about to look whether the subscription of an address is unused. *)
Leaving(p, a) == pc[p] = "queued" /\ args[p].tab = None /\ args[p].address = a

Direct(a) == subscriptionTabs[a] # {} \/ sendMessageRequests[a] # {}

(* Why a subscription runs: a tab watches it, a message is unanswered, or   *)
(* somebody is about to leave it; or stopSubscriptions() has ended, which    *)
(* drops the requests made meanwhile.                                        *)
Wanted(a) ==
    \/ Direct(a)
    \/ \E p \in Processes : Leaving(p, a)
    \/ \E s \in Stoppers : pc[s] = "finished"

WantedInv == \A a \in Addresses : subscriptions[a] = "running" => Wanted(a)

(* A step of one process keeps the reasons when it gives one itself where   *)
(* it takes one away.                                                        *)
LEMMA ReasonsStay ==
  ASSUME WantedInv, NEW p \in Processes, pc[p] # "finished",
         \A q \in Processes \ {p} : pc'[q] = pc[q] /\ args'[q] = args[q],
         \A a \in Addresses : subscriptions'[a] = "running" =>
            \/ Direct(a)' \/ Leaving(p, a)' \/ (p \in Stoppers /\ pc'[p] = "finished")
            \/ subscriptions[a] = "running" /\ ~Direct(a) /\ ~Leaving(p, a)
  PROVE  WantedInv'
<1> SUFFICES ASSUME NEW a \in Addresses, subscriptions'[a] = "running" PROVE Wanted(a)'
  BY DEF WantedInv
<1>1. CASE Direct(a)' \/ Leaving(p, a)' \/ (p \in Stoppers /\ pc'[p] = "finished")
  BY <1>1 DEF Wanted
<1>2. CASE subscriptions[a] = "running" /\ ~Direct(a) /\ ~Leaving(p, a)
  <2>1. CASE \E q \in Processes : Leaving(q, a)
    BY <1>2, <2>1 DEF Wanted, Leaving
  <2>2. CASE \E s \in Stoppers : pc[s] = "finished"
    BY <2>2 DEF Wanted, Processes
  <2> QED
    BY <1>2, <2>1, <2>2 DEF WantedInv, Wanted
<1> QED
  BY <1>1, <1>2

(* A process that is not in the queue touches neither the subscriptions nor *)
(* the requests of any address but, perhaps, to register one of its own.     *)
LEMMA ReasonsUntouched ==
  ASSUME WantedInv, NEW p \in Processes, pc[p] \notin {"queued", "finished"},
         \A q \in Processes \ {p} : pc'[q] = pc[q] /\ args'[q] = args[q],
         UNCHANGED <<subscriptions, subscriptionTabs>>,
         \A a \in Addresses : sendMessageRequests'[a] = {} => sendMessageRequests[a] = {}
  PROVE  WantedInv'
<1>1. \A a \in Addresses : subscriptions'[a] = "running" =>
         \/ Direct(a)'
         \/ subscriptions[a] = "running" /\ ~Direct(a) /\ ~Leaving(p, a)
  BY DEF Direct, Leaving
<1> QED
  BY <1>1, ReasonsStay

(* A process that takes a request out of its map queues to see whether the  *)
(* subscription is unused then.                                              *)
LEMMA ReasonsDeleted ==
  ASSUME IInv, WantedInv, NEW p \in Processes, pc[p] \notin {"queued", "finished"},
         NEW m \in Messages, DeleteRequest(m), Queue(p, TryUnsubscribeOf(To[m])),
         Goto(p, "queued"), UNCHANGED shared
  PROVE  WantedInv'
<1>1. /\ pc'[p] = "queued" /\ args'[p] = TryUnsubscribeOf(To[m])
      /\ \A q \in Processes \ {p} : pc'[q] = pc[q] /\ args'[q] = args[q]
  BY DEF IInv, TypeOK, TurnTypes, Goto, Queue
<1>2. Leaving(p, To[m])'
  BY <1>1 DEF Leaving, TryUnsubscribeOf, NoArguments
<1>3. \A a \in Addresses : a # To[m] => sendMessageRequests'[a] = sendMessageRequests[a]
  BY DEF DeleteRequest, IInv, TypeOK, RequestTypes
<1>4. \A a \in Addresses : subscriptions'[a] = "running" =>
         \/ Direct(a)' \/ Leaving(p, a)'
         \/ subscriptions[a] = "running" /\ ~Direct(a) /\ ~Leaving(p, a)
  BY <1>2, <1>3 DEF Direct, Leaving, shared, registry
<1> QED
  BY <1>1, <1>4, ReasonsStay

(* The end of a turn touches no other process. *)
LEMMA OthersInTurn ==
  ASSUME TurnTypes, NEW p \in Processes, NEW place, GoBack(p, place)
  PROVE  \A q \in Processes \ {p} : pc'[q] = pc[q] /\ args'[q] = args[q]
  BY DEF TurnTypes, GoBack, Goto

(* After _tryUnsubscribe() a subscription that still runs has its reason. *)
LEMMA TryKeepsReasons ==
  ASSUME IInv, WantedInv, NEW p \in Processes, TakeTurn(p), NEW a \in Addresses,
         args[p].address = a, TryUnsubscribe(p, a, subscriptionTabs'[a]),
         \A b \in Addresses \ {a} : subscriptionTabs'[b] = subscriptionTabs[b],
         UNCHANGED sendMessageRequests
  PROVE  WantedInv'
<1>0. RegistryTypes /\ TurnTypes /\ pc[p] = "queued"
  BY DEF IInv, TypeOK, TakeTurn
<1>1. \A q \in Processes \ {p} : pc'[q] = pc[q] /\ args'[q] = args[q]
  <2>1. CASE Unused(a, subscriptionTabs'[a]) /\ subscriptions[a] = "running"
    BY <1>0, <2>1 DEF TryUnsubscribe, Goto, turn, TurnTypes
  <2>2. CASE ~(Unused(a, subscriptionTabs'[a]) /\ subscriptions[a] = "running")
    BY <1>0, <2>2, OthersInTurn DEF TryUnsubscribe, Finish
  <2> QED
    BY <2>1, <2>2
<1>2. subscriptions'[a] = "running" => Direct(a)'
  BY <1>0 DEF TryUnsubscribe, Unused, Direct, RegistryTypes
<1>3. \A b \in Addresses \ {a} : /\ subscriptions'[b] = subscriptions[b]
                                 /\ Direct(b)' <=> Direct(b)
                                 /\ ~Leaving(p, b)
  BY <1>0 DEF TryUnsubscribe, Direct, Leaving, RegistryTypes
<1>4. \A b \in Addresses : subscriptions'[b] = "running" =>
         \/ Direct(b)'
         \/ subscriptions[b] = "running" /\ ~Direct(b) /\ ~Leaving(p, b)
  BY <1>2, <1>3
<1> QED
  BY <1>0, <1>1, <1>4, ReasonsStay

(* The tab that begins to watch an address is its reason. *)
LEMMA WatchKeepsReasons ==
  ASSUME IInv, WantedInv, NEW p \in Processes, pc[p] # "finished", Watch(p), Finish(p),
         args[p].tab # None, NEW a \in Addresses, args[p].address = a,
         \A b \in Addresses : b # a => subscriptions'[b] = subscriptions[b],
         UNCHANGED sendMessageRequests
  PROVE  WantedInv'
<1>0. RegistryTypes /\ TurnTypes
  BY DEF IInv, TypeOK
<1>1. subscriptionTabs' = [subscriptionTabs EXCEPT ![a] = @ \cup {args[p].tab}]
  BY DEF Watch
<1>2. Direct(a)' /\ \A b \in Addresses : b # a => (Direct(b)' <=> Direct(b))
  BY <1>0, <1>1 DEF Direct, RegistryTypes
<1>3. \A b \in Addresses : subscriptions'[b] = "running" =>
         \/ Direct(b)'
         \/ subscriptions[b] = "running" /\ ~Direct(b) /\ ~Leaving(p, b)
  BY <1>2 DEF Leaving
<1>4. \A q \in Processes \ {p} : pc'[q] = pc[q] /\ args'[q] = args[q]
  BY <1>0, OthersInTurn DEF Finish
<1> QED
  BY <1>3, <1>4, ReasonsStay

(* The steps of a turn keep the reasons. *)
LEMMA TurnStepWanted ==
  ASSUME IInv, WantedInv, NEW p \in Processes, TurnStep(p)
  PROVE  WantedInv'
<1>0. RegistryTypes /\ RequestTypes /\ TurnTypes /\ TurnInv
  BY DEF IInv, TypeOK
<1>1. ASSUME pc[p] # "finished", args[p].tab # None \/ pc[p] # "queued",
             NEW place, GoBack(p, place), UNCHANGED <<shared, sendMessageRequests>>
      PROVE  WantedInv'
  <2>1. \A a \in Addresses : subscriptions'[a] = "running" =>
           \/ Direct(a)'
           \/ subscriptions[a] = "running" /\ ~Direct(a) /\ ~Leaving(p, a)
    BY <1>1 DEF Direct, Leaving, shared, registry
  <2> QED
    BY <1>0, <1>1, <2>1, OthersInTurn, ReasonsStay
<1>2. CASE Query(p)
  BY <1>1, <1>2 DEF Query, TakeTurn, Finish, requests
<1>3. CASE Unsubscribe(p)
  <2>1. args[p].tab \in Tabs /\ args[p].address \in Addresses /\ TakeTurn(p)
    BY <1>3, TurnArguments DEF Unsubscribe, TakeTurn
  <2>2. /\ subscriptionTabs' = [subscriptionTabs EXCEPT ![args[p].address] = @ \ {args[p].tab}]
        /\ TryUnsubscribe(p, args[p].address, subscriptionTabs[args[p].address] \ {args[p].tab})
        /\ UNCHANGED sendMessageRequests
    BY <1>3 DEF Unsubscribe, requests
  <2>3. /\ subscriptionTabs'[args[p].address] = subscriptionTabs[args[p].address] \ {args[p].tab}
        /\ \A b \in Addresses \ {args[p].address} : subscriptionTabs'[b] = subscriptionTabs[b]
    BY <1>0, <2>1, <2>2 DEF RegistryTypes
  <2>4. TryUnsubscribe(p, args[p].address, subscriptionTabs'[args[p].address])
    BY <2>2, <2>3
  <2> QED
    BY <2>1, <2>2, <2>3, <2>4, TryKeepsReasons
<1>4. CASE JoinSubscription(p)
  <2>1. /\ args[p].tab # None /\ args[p].address \in Addresses /\ pc[p] = "queued"
    BY <1>4, TurnArguments DEF JoinSubscription, TakeTurnToWatch, TakeTurn
  <2> QED
    BY <1>4, <2>1, WatchKeepsReasons DEF JoinSubscription, requests
<1>5. CASE StartCreating(p)
  <2>1. /\ pc[p] = "queued" /\ args[p].tab # None
        /\ \A q \in Processes \ {p} : pc'[q] = pc[q] /\ args'[q] = args[q]
    BY <1>0, <1>5 DEF StartCreating, TakeTurnToWatch, TakeTurn, Goto, TurnTypes, turn
  <2>2. \A a \in Addresses : subscriptions'[a] = "running" =>
           \/ Direct(a)'
           \/ subscriptions[a] = "running" /\ ~Direct(a) /\ ~Leaving(p, a)
    BY <1>5, <2>1 DEF StartCreating, Direct, Leaving, shared, registry, requests
  <2> QED
    BY <2>1, <2>2, ReasonsStay
<1>6. CASE CreateSubscription(p)
  <2>1. /\ args[p].tab # None /\ args[p].address \in Addresses /\ pc[p] = "creating"
    BY <1>0, <1>6, ConstantsAssumption, TurnArguments
       DEF ConstantsAssumption, CreateSubscription, TurnInv, CreatedForTab
  <2>2. \A b \in Addresses : b # args[p].address => subscriptions'[b] = subscriptions[b]
    BY <1>0, <1>6 DEF CreateSubscription, RegistryTypes
  <2> QED
    BY <1>6, <2>1, <2>2, WatchKeepsReasons DEF CreateSubscription, requests
<1>7. CASE CreationFails(p)
  BY <1>1, <1>7 DEF CreationFails, requests
<1>8. CASE LeaveUnused(p)
  <2>1. args[p].address \in Addresses /\ TakeTurn(p) /\ subscriptionTabs' = subscriptionTabs
    BY <1>8, TurnArguments DEF LeaveUnused, TakeTurn, registry
  <2> QED
    BY <1>8, <2>1, TryKeepsReasons DEF LeaveUnused, requests
<1>9. CASE EndStop(p)
  <2>1. \A q \in Processes \ {p} : pc'[q] = pc[q] /\ args'[q] = args[q]
    BY <1>0, <1>9, OthersInTurn DEF EndStop, Finish
  <2>2. \A a \in Addresses : subscriptions'[a] = "running" => subscriptions[a] = "running"
    BY <1>0, <1>9 DEF EndStop, RegistryTypes
  <2>3. \A a \in Addresses : subscriptions'[a] = "running" =>
           \/ Direct(a)'
           \/ subscriptions[a] = "running" /\ ~Direct(a) /\ ~Leaving(p, a)
    BY <1>9, <2>2 DEF EndStop, Direct, Leaving, registry, requests
  <2> QED
    BY <1>9, <2>1, <2>3, ReasonsStay DEF EndStop
<1> QED
  BY <1>2, <1>3, <1>4, <1>5, <1>6, <1>7, <1>8, <1>9 DEF TurnStep

(* So do the calls made for a tab, ... *)
LEMMA CallStepWanted ==
  ASSUME IInv, WantedInv, NEW p \in Calls \cup Stoppers,
         CallSubscribe(p) \/ CallLeave(p) \/ LeaveStep(p) \/ CallStop(p)
  PROVE  WantedInv'
<1>1. p \in Processes /\ TurnTypes
  BY DEF Processes, IInv, TypeOK
<1>2. /\ pc[p] \notin {"queued", "finished"}
      /\ UNCHANGED <<subscriptions, subscriptionTabs, sendMessageRequests>>
  BY DEF CallSubscribe, CallLeave, LeaveStep, LeaveAddress, LeaveTab, CallStop, shared,
     registry, requests
<1>3. \A q \in Processes \ {p} : pc'[q] = pc[q] /\ args'[q] = args[q]
  BY <1>1 DEF CallSubscribe, CallLeave, LeaveStep, LeaveAddress, LeaveTab, CallStop, Queue,
     Goto, TurnTypes
<1> QED
  BY <1>1, <1>2, <1>3, ReasonsUntouched

(* ... those of sendMessage(), ... *)
LEMMA MessageStepWanted ==
  ASSUME IInv, WantedInv, NEW m \in Messages, ReadRequests(m) \/ MessageStep(m)
  PROVE  WantedInv'
<1>0. m \in Processes /\ RequestTypes /\ TurnTypes
  BY DEF Processes, IInv, TypeOK
<1>1. ASSUME pc[m] \notin {"queued", "finished"}, NEW place, Goto(m, place),
             UNCHANGED <<shared, sendMessageRequests, turn>>
      PROVE  WantedInv'
  <2>1. \A q \in Processes \ {m} : pc'[q] = pc[q] /\ args'[q] = args[q]
    BY <1>0, <1>1 DEF Goto, turn, TurnTypes
  <2> QED
    BY <1>0, <1>1, <2>1, ReasonsUntouched DEF shared, registry
<1>2. CASE ReadRequests(m)
  BY <1>1, <1>2 DEF ReadRequests
<1>3. CASE Register(m)
  <2>1. \A q \in Processes \ {m} : pc'[q] = pc[q] /\ args'[q] = args[q]
    BY <1>0, <1>3 DEF Register, Queue, Goto, TurnTypes
  <2>2. \A a \in Addresses : sendMessageRequests'[a] = {} => sendMessageRequests[a] = {}
    BY <1>0, <1>3 DEF Register, RequestTypes
  <2> QED
    BY <1>0, <1>3, <2>1, <2>2, ReasonsUntouched DEF Register, shared, registry
<1>4. CASE TakeSubscription(m) \/ Send(m) \/ SendFails(m)
  <2>1. PICK place : Goto(m, place)
    BY <1>4 DEF TakeSubscription, Send, SendFails
  <2> QED
    BY <1>1, <1>4, <2>1 DEF TakeSubscription, Send, SendFails, requests
<1>5. CASE Reject(m) \/ Report(m)
  <2>1. CASE Registered(m)
    BY <1>0, <1>5, <2>1, ReasonsDeleted DEF Reject, Report, SettleRequest
  <2>2. CASE ~Registered(m)
    BY <1>1, <1>5, <2>2 DEF Reject, Report, requests
  <2> QED
    BY <2>1, <2>2
<1> QED
  BY <1>2, <1>3, <1>4, <1>5 DEF MessageStep

(* ... and those of stopSubscriptions(), but for its end. *)
LEMMA ClearStepWanted ==
  ASSUME IInv, WantedInv, NEW p \in Stoppers, ClearStep(p)
  PROVE  WantedInv'
<1>0. p \in Processes /\ RequestTypes /\ TurnTypes
  BY DEF Processes, IInv, TypeOK
<1>1. PICK addresses, messages :
        /\ Clear(p, addresses, messages)
        /\ addresses \subseteq Addresses /\ messages \subseteq Messages
  <2>1. {a \in Addresses : sendMessageRequests[a] # {}} \subseteq Addresses /\ {} \subseteq Messages
    OBVIOUS
  <2>2. toClear[p].addresses \subseteq Addresses /\ toClear[p].messages \subseteq Messages
    BY DEF IInv, TypeOK, AgendaTypes
  <2> QED
    BY <2>1, <2>2 DEF ClearStep, StartClearing, ContinueClearing
<1>2. pc[p] \notin {"queued", "finished"} /\ UNCHANGED shared
  BY DEF ClearStep, StartClearing, ContinueClearing
<1>3. ASSUME NEW m \in Messages, NEW A, NEW M, RejectOne(p, m, A, M)
      PROVE  WantedInv'
  BY <1>0, <1>2, <1>3, ReasonsDeleted DEF RejectOne
<1>4. ASSUME Goto(p, "failed"), UNCHANGED <<requests, turn, toClear>>
      PROVE  WantedInv'
  <2>1. \A q \in Processes \ {p} : pc'[q] = pc[q] /\ args'[q] = args[q]
    BY <1>0, <1>4 DEF Goto, turn, TurnTypes
  <2> QED
    BY <1>0, <1>2, <1>4, <2>1, ReasonsUntouched DEF shared, registry, requests
<1>5. ASSUME Goto(p, "finished") PROVE WantedInv'
  <2>1. pc'[p] = "finished"
    BY <1>0, <1>5 DEF Goto, TurnTypes
  <2> QED
    BY <2>1 DEF WantedInv, Wanted
<1>6. \A a \in addresses : sendMessageRequests[a] \subseteq Messages
  BY <1>0, <1>1 DEF RequestTypes
<1> QED
  BY <1>1, <1>3, <1>4, <1>5, <1>6 DEF Clear

(* When nothing is under way and no stopSubscriptions() has ended, every    *)
(* subscription is there for a tab or for an unanswered message, for any     *)
(* tabs, addresses, calls and messages: none keeps the connection in use for *)
(* nobody.  A stopSubscriptions() ends by dropping all the requests, those   *)
(* made while it waited included, without looking at their subscriptions.    *)
THEOREM NothingLeftOver ==
  Spec => []((\A s \in Stoppers : pc[s] # "finished") => NoneLeftOver)
<1>1. Init => WantedInv
  BY DEF Init, WantedInv
<1>2. IInv /\ WantedInv /\ [Next]_vars => WantedInv'
  <2> SUFFICES ASSUME IInv, WantedInv, [Next]_vars PROVE WantedInv'
    OBVIOUS
  <2>1. CASE \E p \in Processes : TurnStep(p)
    BY <2>1, TurnStepWanted
  <2>2. CASE \/ \E p \in Calls : CallSubscribe(p) \/ CallLeave(p)
             \/ \E p \in Calls \cup Stoppers : LeaveStep(p)
             \/ \E p \in Stoppers : CallStop(p)
    BY <2>2, CallStepWanted
  <2>3. CASE \E m \in Messages : ReadRequests(m) \/ MessageStep(m)
    BY <2>3, MessageStepWanted
  <2>4. CASE \E p \in Stoppers : ClearStep(p)
    BY <2>4, ClearStepWanted
  <2>5. CASE UNCHANGED vars
    BY <2>5 DEF vars, shared, registry, requests, turn, WantedInv, Wanted, Direct, Leaving
  <2> QED
    BY <2>1, <2>2, <2>3, <2>4, <2>5 DEF Next
<1>3. IInv /\ WantedInv => ((\A s \in Stoppers : pc[s] # "finished") => NoneLeftOver)
  <2> SUFFICES ASSUME IInv, WantedInv, \A s \in Stoppers : pc[s] # "finished",
                      NEW a \in Addresses, subscriptions[a] # "none",
                      \A p \in Processes : pc[p] \in {"idle", "sent", "finished"}
               PROVE  Direct(a)
    BY DEF NoneLeftOver, Direct
  <2>1. subscriptions[a] = "running"
    BY DEF IInv, TypeOK, RegistryTypes, TurnInv, StoppedByOwner
  <2> QED
    BY <2>1 DEF WantedInv, Wanted, Leaving
<1> QED
  BY <1>1, <1>2, <1>3, Invariant, PTL DEF Spec

(* The step of a turn is one of SharedSubscription, or none. *)
LEMMA TurnStepShares ==
  ASSUME IInv, NEW p \in Processes, TurnStep(p)
  PROVE  Sharing!Next \/ UNCHANGED Sharing!vars
<1> DEFINE t == args[p].tab
           a == args[p].address
<1>0. RegistryTypes /\ RequestTypes
  BY DEF IInv, TypeOK
<1>1. CASE Query(p) \/ StartCreating(p) \/ CreationFails(p)
  BY <1>1 DEF Query, StartCreating, CreationFails, shared, registry, requests, Sharing!vars
<1>2. CASE Unsubscribe(p)
  <2>1. t \in Tabs /\ a \in Addresses
    BY <1>2, TurnArguments DEF Unsubscribe, TakeTurn
  <2>2. /\ subscriptionTabs' = [subscriptionTabs EXCEPT ![a] = @ \ {t}]
        /\ TryUnsubscribe(p, a, subscriptionTabs[a] \ {t})
        /\ UNCHANGED sendMessageRequests
    BY <1>2 DEF Unsubscribe, requests
  <2>3. Sharing!Leave(a, t)
    BY <1>0, <2>1, <2>2 DEF TryUnsubscribe, Unused, RegistryTypes, Sharing!Leave,
       Sharing!Become
  <2> QED
    BY <2>1, <2>3 DEF Sharing!Next
<1>3. CASE JoinSubscription(p)
  <2>1. t \in Tabs /\ a \in Addresses
    BY <1>3, TurnArguments DEF JoinSubscription, TakeTurnToWatch, TakeTurn
  <2>2. Sharing!Join(a, t)
    BY <1>3 DEF JoinSubscription, Watch, requests, Sharing!Join, Sharing!Watch
  <2> QED
    BY <2>1, <2>2 DEF Sharing!Next
<1>4. CASE CreateSubscription(p)
  <2>1. t \in Tabs /\ a \in Addresses /\ subscriptions[a] = "none"
    BY <1>4, TurnArguments DEF CreateSubscription, IInv, TurnInv, CreatedForTab
  <2>2. Sharing!Open(a, t)
    BY <1>4, <2>1 DEF CreateSubscription, Watch, requests, Sharing!Open, Sharing!Watch,
       Sharing!Become
  <2> QED
    BY <2>1, <2>2 DEF Sharing!Next
<1>5. CASE LeaveUnused(p)
  <2>1. /\ a \in Addresses
        /\ TryUnsubscribe(p, a, subscriptionTabs[a])
        /\ UNCHANGED <<subscriptionTabs, sendMessageRequests>>
    BY <1>5, TurnArguments DEF LeaveUnused, TakeTurn, registry, requests
  <2>2. CASE Unused(a, subscriptionTabs[a]) /\ subscriptions[a] = "running"
    <3>1. Sharing!Close(a)
      BY <2>1, <2>2 DEF TryUnsubscribe, Unused, Sharing!Close, Sharing!Become
    <3> QED
      BY <2>1, <3>1 DEF Sharing!Next
  <2>3. CASE ~(Unused(a, subscriptionTabs[a]) /\ subscriptions[a] = "running")
    BY <2>1, <2>3 DEF TryUnsubscribe, Sharing!vars
  <2> QED
    BY <2>2, <2>3
<1>6. CASE EndStop(p)
  <2>1. a \in Addresses /\ subscriptions[a] = "stopping"
    BY <1>6, TurnArguments DEF EndStop, IInv, TurnInv, StoppedByOwner
  <2>2. Sharing!Closed(a)
    BY <1>6, <2>1 DEF EndStop, registry, requests, Sharing!Closed, Sharing!Become
  <2> QED
    BY <2>1, <2>2 DEF Sharing!Next
<1> QED
  BY <1>1, <1>2, <1>3, <1>4, <1>5, <1>6 DEF TurnStep

(* All other steps leave the subscriptions and their tabs alone. *)
LEMMA NextShares ==
  ASSUME IInv, IInv', [Next]_vars
  PROVE  Sharing!Next \/ UNCHANGED Sharing!vars
<1>1. CASE \E p \in Processes : TurnStep(p)
  BY <1>1, TurnStepShares
<1>2. ASSUME UNCHANGED shared
      PROVE  Sharing!Next
  BY <1>2 DEF shared, registry, IInv, TypeOK, RequestTypes, Sharing!Next, Sharing!Ask
<1>3. CASE \E p \in Calls : CallSubscribe(p) \/ CallLeave(p)
  BY <1>2, <1>3 DEF CallSubscribe, CallLeave
<1>4. CASE \E p \in Calls \cup Stoppers : LeaveStep(p)
  BY <1>2, <1>4 DEF LeaveStep, LeaveAddress, LeaveTab
<1>5. CASE \E m \in Messages : ReadRequests(m) \/ MessageStep(m)
  BY <1>2, <1>5 DEF MessageStep, ReadRequests, Register, TakeSubscription, Send, SendFails,
     Reject, Report
<1>6. CASE \E p \in Stoppers : CallStop(p) \/ ClearStep(p)
  BY <1>2, <1>6 DEF CallStop, ClearStep, StartClearing, ContinueClearing
<1>7. CASE UNCHANGED vars
  BY <1>2, <1>7 DEF vars
<1> QED
  BY <1>1, <1>3, <1>4, <1>5, <1>6, <1>7 DEF Next

(* The controller is a SharedSubscription to its tabs and messages: it is   *)
(* opened for a tab, stopped only when no tab watches it and no message to *)
(* it is unanswered, and opened anew only after its stop has ended.        *)
THEOREM Implements == Spec => SharesAsPromised
<1>1. Init => Sharing!Init
  BY DEF Init, Sharing!Init
<1>2. IInv /\ IInv' /\ [Next]_vars => [Sharing!Next]_(Sharing!vars)
  BY NextShares
<1> QED
  BY Invariant, <1>1, <1>2, PTL DEF Spec, SharesAsPromised, Sharing!Spec
=============================================================================
