---------------------- MODULE TokenWalletSubscription ----------------------
(***************************************************************************)
(* The subscription to one token wallet: the loop that waits for a timer   *)
(* and refreshes the wallet under its mutex, the calls that use the wallet *)
(* under the same mutex, and stop(), which ends the loop, frees the wallet *)
(* and gives the connection back.                                          *)
(***************************************************************************)
EXTENDS Naturals, Sequences

CONSTANTS Users, Loop, MaxRefreshes    \* MaxRefreshes bounds the behaviour

ASSUME TokenAssumption == Loop \notin Users /\ MaxRefreshes \in Nat

VARIABLES
    loop,           \* where the loop is
    isRunning,      \* _isRunning
    timer,          \* _refreshTimer is set
    tokenMutex,     \* the FIFO of _tokenWalletMutex
    using,          \* where each call of use() is
    stopping,       \* where stop() is
    wallet,         \* the token wallet: "none", "there" or "freed"
    connection,     \* whether the subscription holds the connection
    refreshes

tokenVars == <<loop, isRunning, timer, tokenMutex, using, stopping, wallet, connection, refreshes>>

LoopPlaces == {"none", "waiting", "woken", "queued", "refreshing", "finished"}

(* Every variable of the subscription has its type. *)
TokenTypeOK ==
    /\ loop \in LoopPlaces /\ isRunning \in BOOLEAN /\ timer \in BOOLEAN
    /\ tokenMutex \in Seq(Users \cup {Loop})
    /\ using \in [Users -> {"idle", "queued", "inside", "done", "failed"}]
    /\ stopping \in {"no", "awaiting", "freeing", "done"}
    /\ wallet \in {"none", "there", "freed"} /\ connection \in BOOLEAN
    /\ refreshes \in Nat

TokenInit ==
    /\ loop = "none" /\ isRunning = FALSE /\ timer = FALSE /\ tokenMutex = <<>>
    /\ using = [u \in Users |-> "idle"] /\ stopping = "no"
    /\ wallet = "none" /\ connection = TRUE /\ refreshes = 0

(* subscribe(): a failure gives the connection back. *)
SubscribeToken ==
    /\ wallet = "none" /\ connection
    /\ \/ wallet' = "there" /\ UNCHANGED connection
       \/ connection' = FALSE /\ UNCHANGED wallet
    /\ UNCHANGED <<loop, isRunning, timer, tokenMutex, using, stopping, refreshes>>

StartToken ==
    /\ wallet = "there" /\ loop = "none" /\ stopping = "no"
    /\ isRunning' = TRUE /\ loop' = "waiting" /\ timer' = TRUE
    /\ UNCHANGED <<tokenMutex, using, stopping, wallet, connection, refreshes>>

SkipRefreshTimer ==
    /\ timer' = FALSE
    /\ loop' = IF timer THEN "woken" ELSE loop

(* The timer fires, or a change of polling skips it. *)
TimerFires ==
    /\ timer /\ refreshes < MaxRefreshes
    /\ SkipRefreshTimer
    /\ UNCHANGED <<isRunning, tokenMutex, using, stopping, wallet, connection, refreshes>>

Wake ==
    /\ loop = "woken"
    /\ IF isRunning
         THEN loop' = "queued" /\ tokenMutex' = Append(tokenMutex, Loop)
         ELSE loop' = "finished" /\ UNCHANGED tokenMutex
    /\ UNCHANGED <<isRunning, timer, using, stopping, wallet, connection, refreshes>>

BeginRefresh ==
    /\ loop = "queued" /\ tokenMutex[1] = Loop
    /\ loop' = "refreshing" /\ refreshes' = refreshes + 1
    /\ UNCHANGED <<isRunning, timer, tokenMutex, using, stopping, wallet, connection>>

(* The refresh succeeds or fails; either way the loop goes on. *)
EndRefresh ==
    /\ loop = "refreshing"
    /\ tokenMutex' = Tail(tokenMutex)
    /\ loop' = IF isRunning THEN "waiting" ELSE "finished"
    /\ timer' = isRunning
    /\ UNCHANGED <<isRunning, using, stopping, wallet, connection, refreshes>>

CallUse(u) ==
    /\ using[u] = "idle" /\ wallet = "there"
    /\ using' = [using EXCEPT ![u] = "queued"]
    /\ tokenMutex' = Append(tokenMutex, u)
    /\ UNCHANGED <<loop, isRunning, timer, stopping, wallet, connection, refreshes>>

(* A user whose turn comes after stop() finds the wallet freed. *)
BeginUse(u) ==
    /\ using[u] = "queued" /\ tokenMutex[1] = u
    /\ IF wallet = "there"
         THEN using' = [using EXCEPT ![u] = "inside"] /\ UNCHANGED tokenMutex
         ELSE using' = [using EXCEPT ![u] = "failed"] /\ tokenMutex' = Tail(tokenMutex)
    /\ UNCHANGED <<loop, isRunning, timer, stopping, wallet, connection, refreshes>>

EndUse(u) ==
    /\ using[u] = "inside"
    /\ using' = [using EXCEPT ![u] = "done"]
    /\ tokenMutex' = Tail(tokenMutex)
    /\ UNCHANGED <<loop, isRunning, timer, stopping, wallet, connection, refreshes>>

(* Mutant: stop() ends the loop and does not wait for it. *)
PauseAndGoOn ==
    /\ stopping = "no" /\ wallet = "there"
    /\ isRunning' = FALSE /\ SkipRefreshTimer
    /\ stopping' = "freeing"
    /\ UNCHANGED <<tokenMutex, using, wallet, connection, refreshes>>

(* Mutant: stop() leaves the timer running. *)
PauseOnly ==
    /\ stopping = "no" /\ wallet = "there"
    /\ isRunning' = FALSE /\ UNCHANGED <<timer, loop>>
    /\ stopping' = IF isRunning THEN "awaiting" ELSE "freeing"
    /\ UNCHANGED <<tokenMutex, using, wallet, connection, refreshes>>

(* stop() calls pause(), which returns at once when the loop does not run. *)
PauseToken ==
    /\ stopping = "no" /\ wallet = "there"
    /\ isRunning' = FALSE
    /\ IF isRunning
         THEN SkipRefreshTimer /\ stopping' = "awaiting"
         ELSE UNCHANGED <<timer, loop>> /\ stopping' = "freeing"
    /\ UNCHANGED <<tokenMutex, using, wallet, connection, refreshes>>

LoopEnds ==
    /\ stopping = "awaiting" /\ loop = "finished"
    /\ stopping' = "freeing"
    /\ UNCHANGED <<loop, isRunning, timer, tokenMutex, using, wallet, connection, refreshes>>

FreeToken ==
    /\ stopping = "freeing"
    /\ stopping' = "done" /\ wallet' = "freed" /\ connection' = FALSE
    /\ UNCHANGED <<loop, isRunning, timer, tokenMutex, using, refreshes>>

TokenProgress ==
    \/ Wake \/ BeginRefresh \/ EndRefresh \/ LoopEnds \/ FreeToken
    \/ \E u \in Users : BeginUse(u) \/ EndUse(u)

TokenNext ==
    \/ SubscribeToken \/ StartToken \/ TimerFires \/ PauseToken \/ TokenProgress
    \/ \E u \in Users : CallUse(u)

TokenSpec == TokenInit /\ [][TokenNext]_tokenVars

(* The loop never refreshes a wallet that stop() has freed, nor after the   *)
(* connection was given back; it refreshes under the mutex only.            *)
RefreshesLiveWallet ==
    loop \in {"queued", "refreshing"} =>
        /\ wallet = "there" /\ connection
        /\ loop = "refreshing" => tokenMutex[1] = Loop /\ \A u \in Users : using[u] # "inside"

(* stop() always ends and gives the connection back, whatever the timer:    *)
(* the loop is woken, and the refresh under way and the calls before it end.*)
TokenStopEnds == stopping # "no" ~> ~connection
=============================================================================
