------------------------ MODULE ContractSubscription ------------------------
(***************************************************************************)
(* A subscription to one contract: the loop that polls it, by a timer while *)
(* nothing is pending and block by block while a message is, the mutex that *)
(* serialises the calls into the contract, the senders of messages, and    *)
(* stop().                                                                 *)
(*                                                                         *)
(* An action is the code between two awaits.  The contract object and the  *)
(* chain are libraries and services: a refresh sees every block up to the  *)
(* head it read, handling a block sees that block alone, and a pending     *)
(* message that is not found by the time its deadline has passed is         *)
(* reported expired.                                                       *)
(***************************************************************************)
EXTENDS Naturals, Sequences, FiniteSets

CONSTANTS
    Senders,            \* calls of sendMessage(), one message each
    Loop, Stopper,      \* the polling loop and the call of stop()
    Simple,             \* whether the transport is not a GqlConnection
    Concurrent,         \* whether a message is sent before the last one is settled
    MaxBlock,           \* bound on the number of blocks
    Lifetime,           \* blocks a message can still be included in
    None                \* undefined

ASSUME ConstantsAssumption ==
    /\ Simple \in BOOLEAN
    /\ Concurrent \in BOOLEAN
    /\ MaxBlock \in Nat
    /\ Lifetime \in Nat
    /\ Loop # Stopper
    /\ Loop \notin Senders /\ Stopper \notin Senders
    /\ None \notin Nat

VARIABLES
    isRunning, refreshTimer, currentPollingMethod, currentBlockId, suggestedBlockId,
    contractMutex,      \* the FIFO of _contractMutex, its head owns it
    loopPc, stopPc, sendPc,
    response,           \* what the request each process awaits has returned
    head,               \* the last block of the chain
    landed,             \* the block a message was included in, or None
    deadline,           \* the last block it can be included in, or None
    pending,            \* the messages the contract is waiting for
    outcome             \* what the handler of the subscription was told

blockVars == <<currentPollingMethod, currentBlockId, suggestedBlockId>>
loopVars == <<isRunning, refreshTimer, blockVars, loopPc>>
chainVars == <<head, landed, deadline>>
messageVars == <<pending, outcome>>
worldVars == <<chainVars, messageVars>>
vars == <<loopVars, contractMutex, stopPc, sendPc, response, worldVars>>

Blocks == 0..MaxBlock
Processes == Senders \cup {Loop, Stopper}
OptionalBlock == Blocks \cup {None}

LoopTypes ==
    /\ isRunning \in BOOLEAN
    /\ refreshTimer \in {"none", "armed", "fired"}
    /\ currentPollingMethod \in {"manual", "reliable"}
    /\ currentBlockId \in OptionalBlock
    /\ suggestedBlockId \in OptionalBlock
    /\ loopPc \in {"off", "waiting", "refreshing", "refreshed", "latest", "next",
                   "handling", "finished"}

ProcessTypes ==
    /\ contractMutex \in Seq(Processes)
    /\ stopPc \in {"none", "pausing", "reading", "stopped"}
    /\ sendPc \in [Senders -> {"idle", "preparing", "prepared", "queued", "sending",
                               "sent", "failed"}]
    /\ response \in [Processes -> OptionalBlock]

ChainTypes ==
    /\ head \in Blocks
    /\ landed \in [Senders -> OptionalBlock]
    /\ deadline \in [Senders -> Nat \cup {None}]
    /\ pending \subseteq Senders
    /\ outcome \in [Senders -> {"none", "sent", "expired"}]

TypeOK == LoopTypes /\ ProcessTypes /\ ChainTypes

Init ==
    /\ isRunning = FALSE
    /\ refreshTimer = "none"
    /\ currentPollingMethod = "manual"
    /\ currentBlockId = None
    /\ suggestedBlockId = None
    /\ loopPc = "off"
    /\ contractMutex = <<>>
    /\ stopPc = "none"
    /\ sendPc = [m \in Senders |-> "idle"]
    /\ response = [p \in Processes |-> None]
    /\ head = 0
    /\ landed = [m \in Senders |-> None]
    /\ deadline = [m \in Senders |-> None]
    /\ pending = {}
    /\ outcome = [m \in Senders |-> "none"]

Owns(p) == Len(contractMutex) > 0 /\ contractMutex[1] = p
Queue(p) == contractMutex' = Append(contractMutex, p)

(* Mutant: the mutex is not given back. *)
StayLocked == UNCHANGED contractMutex

Unlock == contractMutex' = Tail(contractMutex)
Answer(p, b) == response' = [response EXCEPT ![p] = b]

(***************************************************************************)
(* The contract object.                                                    *)
(***************************************************************************)

(* stop() frees the contract and releases the connection as its last step. *)
Freed == stopPc = "stopped"

PollingMethod(waitedFor) == IF waitedFor = {} THEN "manual" ELSE "reliable"

(* The contract looks at some blocks, of which last is the latest. *)
Observe(blocks, last) ==
    LET found == {m \in pending : landed[m] \in blocks}
        expired == {m \in pending \ found : last > deadline[m]}
    IN  /\ pending' = pending \ (found \cup expired)
        /\ outcome' = [m \in Senders |-> IF m \in found THEN "sent"
                                         ELSE IF m \in expired THEN "expired"
                                         ELSE outcome[m]]

(***************************************************************************)
(* The loop.                                                               *)
(***************************************************************************)

(* Mutant: the loop waits once more before it notices that it is stopped. *)
KeepsRunning == TRUE

Running == isRunning

(* The block a reliable iteration goes on from: when the method has just   *)
(* changed, the one that was the latest before the message was sent.       *)
StartBlock(method, current) ==
    IF currentPollingMethod # method /\ suggestedBlockId # None
      THEN suggestedBlockId ELSE current

(* The condition of the loop and what an iteration does before it awaits,  *)
(* the last iteration having ended with this polling method and block.     *)
Iterate(method, current) ==
    /\ currentPollingMethod' = method
    /\ \/ /\ ~Running
          /\ loopPc' = "finished"
          /\ currentBlockId' = current
          /\ UNCHANGED <<refreshTimer, suggestedBlockId>>
       \/ /\ Running
          /\ Simple \/ method = "manual"
          /\ loopPc' = "waiting"
          /\ currentBlockId' = None
          /\ refreshTimer' = "armed"
          /\ UNCHANGED suggestedBlockId
       \/ /\ Running
          /\ ~Simple /\ method = "reliable"
          /\ loopPc' = IF StartBlock(method, current) = None THEN "latest" ELSE "next"
          /\ currentBlockId' = StartBlock(method, current)
          /\ suggestedBlockId' = None
          /\ UNCHANGED refreshTimer

(* start(): the loop runs up to its first await. *)
Start ==
    /\ loopPc = "off"
    /\ stopPc = "none"
    /\ isRunning' = TRUE
    /\ loopPc' = "waiting"
    /\ refreshTimer' = "armed"
    /\ UNCHANGED <<blockVars, contractMutex, stopPc, sendPc, response, worldVars>>

(* The polling interval is over, or the popup skips the rest of it. *)
FireTimer ==
    /\ refreshTimer = "armed"
    /\ refreshTimer' = "fired"
    /\ UNCHANGED <<isRunning, blockVars, loopPc, contractMutex, stopPc, sendPc,
                   response, worldVars>>

AfterTimer ==
    /\ loopPc = "waiting"
    /\ refreshTimer = "fired"
    /\ refreshTimer' = "none"
    /\ IF isRunning
         THEN loopPc' = "refreshing" /\ Queue(Loop)
         ELSE loopPc' = "finished" /\ UNCHANGED contractMutex
    /\ UNCHANGED <<isRunning, blockVars, stopPc, sendPc, response, worldVars>>

(* refresh() reads the account as of the head of the chain ... *)
ReadAccount ==
    /\ loopPc = "refreshing"
    /\ Owns(Loop)
    /\ Answer(Loop, head)
    /\ loopPc' = "refreshed"
    /\ UNCHANGED <<isRunning, refreshTimer, blockVars, contractMutex, stopPc, sendPc,
                   worldVars>>

(* ... and reports what it found; the loop takes over the polling method.  *)
Refresh ==
    /\ loopPc = "refreshed"
    /\ Observe(0..response[Loop], response[Loop])
    /\ Answer(Loop, None)
    /\ Unlock
    /\ Iterate(PollingMethod(pending'), currentBlockId)
    /\ UNCHANGED <<isRunning, stopPc, sendPc, chainVars>>

(* Mutant: off by one, a block that does not exist yet is waited for no more. *)
NextBlockAssumed == currentBlockId <= head

NextBlockExists == currentBlockId < head

(* The block to handle arrives; the loop queues for the contract. *)
WaitForNextBlock ==
    /\ loopPc = "next"
    /\ NextBlockExists
    /\ Answer(Loop, currentBlockId + 1)
    /\ Queue(Loop)
    /\ loopPc' = "handling"
    /\ UNCHANGED <<isRunning, refreshTimer, blockVars, stopPc, sendPc, worldVars>>

(* The request fails or times out: the loop tries again. *)
BlockRequestFails ==
    /\ loopPc = "next"
    /\ Iterate(currentPollingMethod, currentBlockId)
    /\ UNCHANGED <<isRunning, contractMutex, stopPc, sendPc, response, worldVars>>

HandleBlock ==
    /\ loopPc = "handling"
    /\ Owns(Loop)
    /\ Observe({response[Loop]}, response[Loop])
    /\ Answer(Loop, None)
    /\ Unlock
    /\ Iterate(PollingMethod(pending'), response[Loop])
    /\ UNCHANGED <<isRunning, stopPc, sendPc, chainVars>>

(* Mutant: a block that could not be handled is passed over. *)
PassedBlock == response[Loop]

RetriedBlock == currentBlockId

(* The refresh, or the handling of the block, throws. *)
IterationFails ==
    /\ loopPc \in {"refreshing", "refreshed", "handling"}
    /\ Owns(Loop)
    /\ Answer(Loop, None)
    /\ Unlock
    /\ Iterate(currentPollingMethod, RetriedBlock)
    /\ UNCHANGED <<isRunning, stopPc, sendPc, worldVars>>

(***************************************************************************)
(* pause() and stop().                                                     *)
(***************************************************************************)

SkipRefreshTimer == refreshTimer' = IF refreshTimer = "armed" THEN "fired" ELSE refreshTimer

Stop ==
    /\ stopPc = "none"
    /\ loopPc # "off"
    /\ isRunning' = FALSE
    /\ SkipRefreshTimer
    /\ stopPc' = "pausing"
    /\ UNCHANGED <<blockVars, loopPc, contractMutex, sendPc, response, worldVars>>

(* Mutant: pause() does not wait for the loop. *)
LoopAbandoned == TRUE

LoopEnded == loopPc = "finished"

(* The loop has ended: pause() queues to read the polling method. *)
AwaitLoop ==
    /\ stopPc = "pausing"
    /\ LoopEnded
    /\ Queue(Stopper)
    /\ stopPc' = "reading"
    /\ UNCHANGED <<loopVars, sendPc, response, worldVars>>

MethodAfterPause == PollingMethod(pending)

FinishStop ==
    /\ stopPc = "reading"
    /\ Owns(Stopper)
    /\ Unlock
    /\ currentPollingMethod' = MethodAfterPause
    /\ currentBlockId' = None
    /\ suggestedBlockId' = None
    /\ stopPc' = "stopped"
    /\ UNCHANGED <<isRunning, refreshTimer, loopPc, sendPc, response, worldVars>>

(***************************************************************************)
(* Senders.                                                                *)
(***************************************************************************)

Settled(m) == sendPc[m] \in {"idle", "failed"} \/ outcome[m] # "none"

(* sendMessage() asks for the latest block before it sends (a JRPC         *)
(* transport has none to ask for).                                         *)
Prepare(m) ==
    /\ sendPc[m] = "idle"
    /\ Concurrent \/ \A n \in Senders : Settled(n)
    /\ head + Lifetime + 1 < MaxBlock
    /\ loopPc # "off"
    /\ stopPc = "none"
    /\ IF Simple
         THEN sendPc' = [sendPc EXCEPT ![m] = "queued"] /\ Queue(m)
         ELSE sendPc' = [sendPc EXCEPT ![m] = "preparing"] /\ UNCHANGED contractMutex
    /\ UNCHANGED <<loopVars, stopPc, response, worldVars>>

AskLatestBlock(m) ==
    /\ sendPc[m] = "preparing"
    /\ Answer(m, head)
    /\ sendPc' = [sendPc EXCEPT ![m] = "prepared"]
    /\ UNCHANGED <<loopVars, contractMutex, stopPc, worldVars>>

SuggestBlock(m) ==
    /\ sendPc[m] = "prepared"
    /\ suggestedBlockId' = response[m]
    /\ Answer(m, None)
    /\ sendPc' = [sendPc EXCEPT ![m] = "queued"]
    /\ Queue(m)
    /\ UNCHANGED <<isRunning, refreshTimer, currentPollingMethod, currentBlockId,
                   loopPc, stopPc, worldVars>>

PrepareFails(m) ==
    /\ sendPc[m] = "preparing"
    /\ sendPc' = [sendPc EXCEPT ![m] = "failed"]
    /\ UNCHANGED <<loopVars, contractMutex, stopPc, response, worldVars>>

(* contract.sendMessage() waits for the message from before the request    *)
(* leaves; a contract that was freed throws.                               *)
Send(m) ==
    /\ sendPc[m] = "queued"
    /\ Owns(m)
    /\ ~Freed
    /\ pending' = pending \cup {m}
    /\ deadline' = [deadline EXCEPT ![m] = head + Lifetime]
    /\ sendPc' = [sendPc EXCEPT ![m] = "sending"]
    /\ UNCHANGED <<loopVars, contractMutex, stopPc, response, head, landed, outcome>>

SendToFreed(m) ==
    /\ sendPc[m] = "queued"
    /\ Owns(m)
    /\ Freed
    /\ Unlock
    /\ sendPc' = [sendPc EXCEPT ![m] = "failed"]
    /\ UNCHANGED <<loopVars, stopPc, response, worldVars>>

(* The node accepted the message: the loop is woken up. *)
Sent(m) ==
    /\ sendPc[m] = "sending"
    /\ SkipRefreshTimer
    /\ Unlock
    /\ sendPc' = [sendPc EXCEPT ![m] = "sent"]
    /\ UNCHANGED <<isRunning, blockVars, loopPc, stopPc, response, worldVars>>

SendFails(m) ==
    /\ sendPc[m] = "sending"
    /\ Unlock
    /\ pending' = pending \ {m}
    /\ sendPc' = [sendPc EXCEPT ![m] = "failed"]
    /\ UNCHANGED <<loopVars, stopPc, response, chainVars, outcome>>

(***************************************************************************)
(* The chain.                                                              *)
(***************************************************************************)

(* A block includes some of the messages that are still valid.  The bound   *)
(* keeps enough blocks for the deadline of a message about to be sent.     *)
NewBlock ==
    /\ head < MaxBlock
    /\ head + Lifetime + 1 >= MaxBlock =>
          \A m \in Senders : sendPc[m] \notin {"preparing", "prepared", "queued"}
    /\ head' = head + 1
    /\ \E included \in SUBSET {m \in Senders : deadline[m] # None /\ landed[m] = None} :
         /\ \A m \in included : head + 1 <= deadline[m]
         /\ landed' = [m \in Senders |-> IF m \in included THEN head + 1 ELSE landed[m]]
    /\ UNCHANGED <<loopVars, contractMutex, stopPc, sendPc, response, deadline,
                   messageVars>>

LoopStep ==
    \/ AfterTimer
    \/ ReadAccount
    \/ Refresh
    \/ WaitForNextBlock
    \/ BlockRequestFails
    \/ HandleBlock
    \/ IterationFails

StopStep == AwaitLoop \/ FinishStop

SendStep(m) ==
    \/ AskLatestBlock(m)
    \/ SuggestBlock(m)
    \/ PrepareFails(m)
    \/ Send(m)
    \/ SendToFreed(m)
    \/ Sent(m)
    \/ SendFails(m)

Next ==
    \/ Start
    \/ FireTimer
    \/ LoopStep
    \/ Stop
    \/ StopStep
    \/ \E m \in Senders : Prepare(m)
    \/ \E m \in Senders : SendStep(m)
    \/ NewBlock

Spec == Init /\ [][Next]_vars

(* Timers fire, requests end, ready jobs run, the chain goes on; and the    *)
(* network does not fail for ever: a request made again and again succeeds. *)
Fairness ==
    /\ WF_vars(FireTimer) /\ WF_vars(LoopStep) /\ WF_vars(StopStep)
    /\ WF_vars(NewBlock)
    /\ \A m \in Senders : WF_vars(SendStep(m))
    /\ SF_vars(ReadAccount) /\ SF_vars(Refresh)
    /\ SF_vars(WaitForNextBlock) /\ SF_vars(HandleBlock)

FairSpec == Spec /\ Fairness

-----------------------------------------------------------------------------

(* The contract is freed and the connection released only after the loop   *)
(* has ended and while no sender is inside a call of the contract (stop()  *)
(* awaits pause(), which awaits the loop and the mutex).                   *)
FreedWhenUnused ==
    Freed => loopPc = "finished" /\ \A m \in Senders : sendPc[m] # "sending"

(* Once it is asked to stop, the subscription never waits for its polling  *)
(* timer (pause() clears _isRunning before it skips the timer).            *)
StopSkipsTimer == stopPc # "none" => refreshTimer # "armed"

(* A message that a block includes is never reported expired: from the     *)
(* block suggested before it was sent, no block goes unseen.               *)
NoFalseExpiry ==
    \A m \in Senders : outcome[m] = "expired" => landed[m] = None

(* stop() ends, whatever request or call is under way when it is called. *)
StopEnds == (stopPc = "pausing") ~> (stopPc = "stopped")

(* A message the contract waits for is reported sent or expired, unless    *)
(* the subscription is stopped.                                            *)
MessageSettles ==
    \A m \in Senders :
      (m \in pending) ~> (outcome[m] # "none" \/ sendPc[m] = "failed" \/ stopPc # "none")

(* What a subscription promises to its senders: a message is reported sent  *)
(* only once a block includes it and expired only if none ever will.       *)
Delivery == INSTANCE MessageDelivery WITH
    status <- [m \in Senders |->
                 IF outcome[m] # "none" THEN outcome[m]
                 ELSE IF m \in pending THEN "pending"
                 ELSE IF sendPc[m] = "failed" THEN "failed"
                 ELSE "new"],
    included <- {m \in Senders : landed[m] # None}

DeliversMessages == Delivery!Spec
=============================================================================
