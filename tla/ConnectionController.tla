------------------------ MODULE ConnectionController ------------------------
(***************************************************************************)
(* The connection controller of the background page: the one transport of  *)
(* the wallet, the mutex that keeps a network switch apart from the code   *)
(* that uses the transport, and the loop that tries the networks of a      *)
(* group until one answers.                                                *)
(*                                                                         *)
(* JavaScript runs a job to completion, so an action is the code between   *)
(* two awaits.  A user is one call of use() or acquire(); a switcher is one *)
(* call of trySwitchingNetwork(), and Sync is the call initialSync() makes  *)
(* while the background page loads.                                        *)
(***************************************************************************)
EXTENDS Naturals, Sequences, FiniteSets

CONSTANTS
    Users,          \* callers of use() and acquire()
    Switchers,      \* callers of trySwitchingNetwork()
    Sync,           \* the switcher of initialSync()
    Networks,       \* the connection ids of NETWORK_PRESETS
    Default,        \* the preset of makeDefaultState()
    Group,          \* the network group of a preset
    Local,          \* the presets that are connected to without a test
    SaveMayFail,    \* whether browser.storage.local.set() may reject
    None            \* undefined

ASSUME ConstantsAssumption ==
    /\ Sync \in Switchers
    /\ Users \cap Switchers = {}
    /\ IsFiniteSet(Users)
    /\ Networks \subseteq Nat
    /\ Default \in Networks
    /\ Local \subseteq Networks
    /\ SaveMayFail \in BOOLEAN
    /\ None \notin Networks \cup Users

VARIABLES
    initializedConnection,      \* the network whose transport is alive, or None
    selectedConnection,         \* the network the state shows to the user
    pendingConnection,          \* the network being connected to, or None
    selectedConnectionId,       \* the id in browser.storage.local, or None
    networkMutex,               \* the FIFO of _networkMutex, its head owns it
    release,                    \* the user whose mutex turn _release ends, or None
    acquiredConnectionCounter,
    testConnection,             \* the promise of the running connection test
    booted,                     \* whether initialSync() has returned
    userPc, userKind, held,     \* users: where, by which method, what they hold
    switchPc, candidate, untried \* switchers: where, the network and the rest

connVars == <<initializedConnection, selectedConnection, pendingConnection,
              selectedConnectionId>>
mutexVars == <<networkMutex, release, acquiredConnectionCounter>>
userVars == <<userPc, userKind, held>>
switchVars == <<switchPc, candidate, untried>>
vars == <<connVars, mutexVars, testConnection, booted, userVars, switchVars>>

OptionalNetwork == Networks \cup {None}

ConnTypes ==
    /\ initializedConnection \in OptionalNetwork
    /\ selectedConnection \in Networks
    /\ pendingConnection \in OptionalNetwork
    /\ selectedConnectionId \in OptionalNetwork
    /\ testConnection \in {"none", "open", "done", "cancelled", "failed"}
    /\ booted \in BOOLEAN

MutexTypes ==
    /\ networkMutex \in Seq(Users \cup Switchers)
    /\ release \in Users \cup {None}
    /\ acquiredConnectionCounter \in Nat

UserTypes ==
    /\ userPc \in [Users -> {"idle", "waiting", "passing", "holding", "leaked"}]
    /\ userKind \in [Users -> {"use", "acquire"}]
    /\ held \in [Users -> {"none", "live", "freed"}]

SwitchTypes ==
    /\ switchPc \in [Switchers -> {"load", "idle", "queued", "granted",
                                   "connecting", "testing", "saving", "next"}]
    /\ candidate \in [Switchers -> OptionalNetwork]
    /\ untried \in [Switchers -> SUBSET Networks]
    /\ \A s \in Switchers : switchPc[s] \in {"load", "idle"} \/ candidate[s] # None

TypeOK == ConnTypes /\ MutexTypes /\ UserTypes /\ SwitchTypes

Init ==
    /\ initializedConnection = None
    /\ selectedConnection = Default
    /\ pendingConnection = None
    /\ selectedConnectionId = None
    /\ networkMutex = <<>>
    /\ release = None
    /\ acquiredConnectionCounter = 0
    /\ testConnection = "none"
    /\ booted = FALSE
    /\ userPc = [u \in Users |-> "idle"]
    /\ userKind = [u \in Users |-> "use"]
    /\ held = [u \in Users |-> "none"]
    /\ switchPc = [s \in Switchers |-> IF s = Sync THEN "load" ELSE "idle"]
    /\ candidate = [s \in Switchers |-> None]
    /\ untried = [s \in Switchers |-> {}]

(* Mutant: a mutex that admits whoever waits. *)
OwnsOrWaits(p) == \E i \in 1..Len(networkMutex) : networkMutex[i] = p

Owns(p) == Len(networkMutex) > 0 /\ networkMutex[1] = p

(* Mutant: the mutex is never given back. *)
KeepMutex == UNCHANGED networkMutex

GiveMutexBack == networkMutex' = Tail(networkMutex)

(***************************************************************************)
(* Users.                                                                  *)
(***************************************************************************)

(* Mutant: every user takes itself for the first. *)
CountAsFirst == acquiredConnectionCounter' = 1

CountUser == acquiredConnectionCounter' = acquiredConnectionCounter + 1

(* Mutant: off by one, the mutex goes back under the last user. *)
LastButOneUser == acquiredConnectionCounter <= 2

LastUser == acquiredConnectionCounter <= 1

(* use() and acquire() up to their first await, with a connection present; *)
(* without one requireInitializedConnection throws and nothing changes.    *)
(* Only a caller that finds the counter at zero takes the mutex.           *)
Acquire(u, kind) ==
    /\ booted
    /\ userPc[u] = "idle"
    /\ initializedConnection # None
    /\ CountUser
    /\ userKind' = [userKind EXCEPT ![u] = kind]
    /\ IF acquiredConnectionCounter > 0 \/ release # None
         THEN /\ userPc' = [userPc EXCEPT ![u] = "passing"]
              /\ UNCHANGED networkMutex
         ELSE /\ userPc' = [userPc EXCEPT ![u] = "waiting"]
              /\ networkMutex' = Append(networkMutex, u)
    /\ UNCHANGED <<connVars, release, testConnection, booted, held, switchVars>>

(* What acquire() and use() do once _acquireConnection() has returned: they *)
(* read _initializedConnection again.  Without one, the destructuring of   *)
(* acquire()'s result throws in the caller, whose release function is lost *)
(* (a callback of use() that is not async throws likewise); an async       *)
(* callback rejects, and use() then releases as usual.                     *)
ReadConnection(u) ==
    /\ userPc' = [userPc EXCEPT ![u] =
                    IF initializedConnection = None /\ userKind[u] = "acquire"
                      THEN "leaked" ELSE "holding"]
    /\ held' = [held EXCEPT ![u] =
                    IF initializedConnection = None THEN "none" ELSE "live"]

(* The continuation of a caller that waited for the mutex. *)
AcquireMutex(u) ==
    /\ userPc[u] = "waiting"
    /\ Owns(u)
    /\ release' = u
    /\ ReadConnection(u)
    /\ UNCHANGED <<connVars, networkMutex, acquiredConnectionCounter,
                   testConnection, booted, userKind, switchVars>>

(* The continuation of a caller that only counted itself. *)
PassMutex(u) ==
    /\ userPc[u] = "passing"
    /\ ReadConnection(u)
    /\ UNCHANGED <<connVars, mutexVars, testConnection, booted, userKind,
                   switchVars>>

(* _releaseConnection(): the last user gives the mutex back. *)
Release(u) ==
    /\ userPc[u] = "holding"
    /\ acquiredConnectionCounter' = acquiredConnectionCounter - 1
    /\ IF LastUser
         THEN /\ IF release # None THEN GiveMutexBack ELSE UNCHANGED networkMutex
              /\ release' = None
         ELSE UNCHANGED <<networkMutex, release>>
    /\ userPc' = [userPc EXCEPT ![u] = "idle"]
    /\ userKind' = [userKind EXCEPT ![u] = "use"]
    /\ held' = [held EXCEPT ![u] = "none"]
    /\ UNCHANGED <<connVars, testConnection, booted, switchVars>>

(***************************************************************************)
(* Switchers.                                                              *)
(***************************************************************************)

(* makeAvailableNetworksGroup(first) is first and these, by ascending id. *)
OthersOfGroup(first) == {n \in Networks \ {first} : Group[n] = Group[first]}

(* startSwitchingNetwork() up to its await: a running connection test is   *)
(* cancelled before the caller queues for the mutex.                       *)
StartSwitching(s) ==
    /\ testConnection' = IF testConnection = "open" THEN "cancelled"
                                                   ELSE testConnection
    /\ networkMutex' = Append(networkMutex, s)
    /\ switchPc' = [switchPc EXCEPT ![s] = "queued"]

LoadedConnection ==
    IF selectedConnectionId = None THEN Default ELSE selectedConnectionId

(* initialSync(): the stored network, or the default one, is selected and  *)
(* connected to.                                                           *)
InitialSync ==
    /\ switchPc[Sync] = "load"
    /\ selectedConnection' = LoadedConnection
    /\ pendingConnection' = None
    /\ candidate' = [candidate EXCEPT ![Sync] = LoadedConnection]
    /\ untried' = [untried EXCEPT ![Sync] = OthersOfGroup(LoadedConnection)]
    /\ StartSwitching(Sync)
    /\ UNCHANGED <<initializedConnection, selectedConnectionId, release,
                   acquiredConnectionCounter, booted, userVars>>

(* trySwitchingNetwork(first, true), the call of changeNetwork(). *)
TrySwitching(s, first) ==
    /\ booted
    /\ switchPc[s] = "idle"
    /\ s # Sync
    /\ candidate' = [candidate EXCEPT ![s] = first]
    /\ untried' = [untried EXCEPT ![s] = OthersOfGroup(first)]
    /\ StartSwitching(s)
    /\ UNCHANGED <<connVars, release, acquiredConnectionCounter, booted, userVars>>

(* The mutex is acquired: the switch handle announces the network. *)
CreateHandle(s) ==
    /\ switchPc[s] = "queued"
    /\ Owns(s)
    /\ pendingConnection' = candidate[s]
    /\ switchPc' = [switchPc EXCEPT ![s] = "granted"]
    /\ UNCHANGED <<initializedConnection, selectedConnection, selectedConnectionId,
                   mutexVars, testConnection, booted, userVars, candidate, untried>>

(* switch() calls _connect(), which first frees the old transport under    *)
(* whoever still holds it.                                                 *)
FreeConnection(s) ==
    /\ switchPc[s] = "granted"
    /\ initializedConnection' = None
    /\ held' = [u \in Users |-> IF held[u] = "live" THEN "freed" ELSE held[u]]
    /\ switchPc' = [switchPc EXCEPT ![s] = "connecting"]
    /\ UNCHANGED <<selectedConnection, pendingConnection, selectedConnectionId,
                   mutexVars, testConnection, booted, userPc, userKind, candidate,
                   untried>>

(* The new transport exists: a local network is used at once, any other is *)
(* tested first.                                                           *)
OpenTransport(s) ==
    /\ switchPc[s] = "connecting"
    /\ IF candidate[s] \in Local
         THEN /\ initializedConnection' = candidate[s]
              /\ switchPc' = [switchPc EXCEPT ![s] = "saving"]
              /\ UNCHANGED testConnection
         ELSE /\ testConnection' = "open"
              /\ switchPc' = [switchPc EXCEPT ![s] = "testing"]
              /\ UNCHANGED initializedConnection
    /\ UNCHANGED <<selectedConnection, pendingConnection, selectedConnectionId,
                   mutexVars, booted, userVars, candidate, untried>>

(* The account state of the test arrives, its request fails, or the ten    *)
(* seconds of its timer pass.                                              *)
SettleTest(s) ==
    /\ switchPc[s] = "testing"
    /\ testConnection = "open"
    /\ testConnection' \in {"done", "failed"}
    /\ UNCHANGED <<connVars, mutexVars, booted, userVars, switchVars>>

(* _connect() goes on after a test that answered. *)
UseTested(s) ==
    /\ switchPc[s] = "testing"
    /\ testConnection = "done"
    /\ testConnection' = "none"
    /\ initializedConnection' = candidate[s]
    /\ switchPc' = [switchPc EXCEPT ![s] = "saving"]
    /\ UNCHANGED <<selectedConnection, pendingConnection, selectedConnectionId,
                   mutexVars, booted, userVars, candidate, untried>>

(* Mutant: the network of the call's start is shown. *)
KeepSelected(s) == UNCHANGED selectedConnection

SelectCandidate(s) == selectedConnection' = candidate[s]

(* The fulfilled branch of switch(), and the return of trySwitchingNetwork. *)
SwitchSucceeds(s) ==
    /\ SelectCandidate(s)
    /\ pendingConnection' = None
    /\ GiveMutexBack
    /\ switchPc' = [switchPc EXCEPT ![s] = "idle"]
    /\ candidate' = [candidate EXCEPT ![s] = None]
    /\ untried' = [untried EXCEPT ![s] = {}]
    /\ booted' = (booted \/ s = Sync)
    /\ UNCHANGED <<release, acquiredConnectionCounter, userVars>>

(* A cancelled test frees the new connection and _connect() returns without *)
(* one, as if it had succeeded.                                            *)
CancelledTest(s) ==
    /\ switchPc[s] = "testing"
    /\ testConnection = "cancelled"
    /\ testConnection' = "none"
    /\ SwitchSucceeds(s)
    /\ UNCHANGED <<initializedConnection, selectedConnectionId>>

(* _saveSelectedConnectionId() is done, and with it the switch. *)
SaveSelected(s) ==
    /\ switchPc[s] = "saving"
    /\ selectedConnectionId' = candidate[s]
    /\ SwitchSucceeds(s)
    /\ UNCHANGED <<initializedConnection, testConnection>>

ClearPending == pendingConnection' = None

(* The rejected branch of switch(): the transport could not be created, its *)
(* test failed, or the id could not be saved (and the transport stays).    *)
SwitchFails(s) ==
    /\ \/ switchPc[s] = "connecting"
       \/ switchPc[s] = "testing" /\ testConnection = "failed"
       \/ switchPc[s] = "saving" /\ SaveMayFail
    /\ testConnection' = "none"
    /\ ClearPending
    /\ GiveMutexBack
    /\ switchPc' = [switchPc EXCEPT ![s] = "next"]
    /\ UNCHANGED <<initializedConnection, selectedConnection, selectedConnectionId,
                   release, acquiredConnectionCounter, booted, userVars, candidate,
                   untried>>

(* The loop of trySwitchingNetwork() goes on with the next network. *)
TryNext(s) ==
    /\ switchPc[s] = "next"
    /\ \E n \in untried[s] :
         /\ \A m \in untried[s] : n <= m
         /\ candidate' = [candidate EXCEPT ![s] = n]
         /\ untried' = [untried EXCEPT ![s] = @ \ {n}]
    /\ StartSwitching(s)
    /\ UNCHANGED <<connVars, release, acquiredConnectionCounter, booted, userVars>>

(* Every network failed: trySwitchingNetwork() throws; initialSync() starts *)
(* again five seconds later.                                               *)
GiveUp(s) ==
    /\ switchPc[s] = "next"
    /\ untried[s] = {}
    /\ switchPc' = [switchPc EXCEPT ![s] = IF s = Sync THEN "load" ELSE "idle"]
    /\ candidate' = [candidate EXCEPT ![s] = None]
    /\ UNCHANGED <<connVars, mutexVars, testConnection, booted, userVars, untried>>

(* The browser restarts the background page: storage is all that is left. *)
Restart ==
    /\ initializedConnection' = None
    /\ selectedConnection' = Default
    /\ pendingConnection' = None
    /\ networkMutex' = <<>>
    /\ release' = None
    /\ acquiredConnectionCounter' = 0
    /\ testConnection' = "none"
    /\ booted' = FALSE
    /\ userPc' = [u \in Users |-> "idle"]
    /\ userKind' = [u \in Users |-> "use"]
    /\ held' = [u \in Users |-> "none"]
    /\ switchPc' = [s \in Switchers |-> IF s = Sync THEN "load" ELSE "idle"]
    /\ candidate' = [s \in Switchers |-> None]
    /\ untried' = [s \in Switchers |-> {}]
    /\ UNCHANGED selectedConnectionId

UserStep(u) == AcquireMutex(u) \/ PassMutex(u)

SwitchStep(s) ==
    \/ CreateHandle(s)
    \/ FreeConnection(s)
    \/ OpenTransport(s)
    \/ SettleTest(s)
    \/ UseTested(s)
    \/ CancelledTest(s)
    \/ SaveSelected(s)
    \/ SwitchFails(s)
    \/ TryNext(s)
    \/ GiveUp(s)

Next ==
    \/ \E u \in Users, kind \in {"use", "acquire"} : Acquire(u, kind)
    \/ \E u \in Users : UserStep(u)
    \/ \E u \in Users : Release(u)
    \/ InitialSync
    \/ \E s \in Switchers, first \in Networks : TrySwitching(s, first)
    \/ \E s \in Switchers : SwitchStep(s)
    \/ Restart

Spec == Init /\ [][Next]_vars

(* Jobs that are ready run, requests are answered or time out, storage     *)
(* calls end; the callback of a use() ends.  Nothing is assumed of the     *)
(* holders of acquire(), which keep the transport as long as they live.    *)
Fairness ==
    /\ \A u \in Users : WF_vars(UserStep(u))
    /\ \A u \in Users : WF_vars(userKind[u] = "use" /\ Release(u))
    /\ \A s \in Switchers : WF_vars(SwitchStep(s))
    /\ WF_vars(InitialSync)

FairSpec == Spec /\ Fairness

-----------------------------------------------------------------------------

Counted == {u \in Users : userPc[u] # "idle"}
QueuedUsers == {i \in 1..Len(networkMutex) : networkMutex[i] \in Users}
Switching(s) == switchPc[s] \in {"granted", "connecting", "testing", "saving"}

(* Every call of use() or acquire() that has not released is counted once, *)
(* the ones still waiting for the mutex and the ones whose release was lost *)
(* included (_acquireConnection, _releaseConnection).                      *)
UsersAreCounted == acquiredConnectionCounter = Cardinality(Counted)

(* The users together have one place in the queue of the mutex, exactly     *)
(* while the counter is above zero.  _release is set only once that place   *)
(* is the first, so the branch that warns "mutex is already acquired" is    *)
(* never taken; until then the user of the place, and no other, is waiting. *)
UsersShareOneTurn ==
    /\ \A i, j \in QueuedUsers : i = j
    /\ acquiredConnectionCounter > 0 <=> QueuedUsers # {}
    /\ release # None => 1 \in QueuedUsers /\ networkMutex[1] = release
    /\ \A i \in QueuedUsers : release = None => userPc[networkMutex[i]] = "waiting"
    /\ \A u \in Users : userPc[u] = "waiting" =>
          release = None /\ \E i \in QueuedUsers : networkMutex[i] = u

(* From its handle to the end of switch() a switcher owns the mutex: two   *)
(* switches, or a switch and a user that holds the mutex, never overlap.   *)
SwitcherOwnsMutex == \A s \in Switchers : Switching(s) => Owns(s)

(* While a user owns the mutex no step replaces or frees the transport     *)
(* ("Used to prevent network switch during some working subscriptions").   *)
KeptWhileReleaseIsSet ==
    [][release # None /\ release' # None => UNCHANGED initializedConnection]_vars

(* Between switches a live transport is the network that is shown and the   *)
(* one that a restart will load, when storage does not fail (the order of  *)
(* the updates in _connect and switch()).                                  *)
SettledNetwork ==
    (\A s \in Switchers : ~Switching(s)) /\ initializedConnection # None =>
        /\ selectedConnection = initializedConnection
        /\ selectedConnectionId = initializedConnection

(* A switch that was asked for ends, unless the users never leave the      *)
(* connection all at once: a switch is not blocked by other switches, by   *)
(* failing networks or by cancelled tests.                                 *)
SwitchesEnd ==
    []<>(acquiredConnectionCounter = 0) =>
        \A s \in Switchers \ {Sync} : (switchPc[s] = "queued") ~> (switchPc[s] = "idle")

(* A caller that waits for the connection gets its turn, whatever switches *)
(* are under way before it.                                                *)
UsersAreServed == \A u \in Users : (userPc[u] = "waiting") ~> (userPc[u] # "waiting")

(* "Must be called after all connection usages are gone", says the comment *)
(* on switch(): no user still holds a transport that was freed.            *)
NoUsageDuringSwitch == \A u \in Users : held[u] # "freed"

(* requireInitializedConnection asserts that a connection is there before  *)
(* use() and acquire() go on: what they hand out is a connection.          *)
HandsOutConnection ==
    \A u \in Users : userPc[u] \in {"holding", "leaked"} => held[u] # "none"
=============================================================================
