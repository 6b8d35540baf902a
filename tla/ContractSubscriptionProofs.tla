---------------------- MODULE ContractSubscriptionProofs ----------------------
(***************************************************************************)
(* What holds of a contract subscription for every set of senders and every *)
(* chain: types, that the contract is freed only when nobody uses it, and  *)
(* that stop() never waits for the polling timer; and, where the messages  *)
(* do not overlap, that each is reported as MessageDelivery promises.      *)
(***************************************************************************)
EXTENDS ContractSubscription, SequenceTheorems, TLAPS

(* A call into the contract is made by the owner of its mutex. *)
CallsOwnMutex ==
    /\ loopPc = "refreshed" => Owns(Loop)
    /\ \A m \in Senders : sendPc[m] = "sending" => Owns(m)

(* Past the wait of pause() the loop has ended. *)
StopFollowsLoop == stopPc \in {"reading", "stopped"} => loopPc = "finished"

StopClearsRunning == stopPc # "none" => ~isRunning /\ refreshTimer # "armed"

NextIsKnown == loopPc = "next" => currentBlockId # None

IInv ==
    /\ TypeOK
    /\ CallsOwnMutex
    /\ StopFollowsLoop
    /\ StopClearsRunning
    /\ NextIsKnown
    /\ FreedWhenUnused

(***************************************************************************)
(* The mutex.                                                              *)
(***************************************************************************)

(* Queueing takes the mutex from nobody. *)
LEMMA QueueKeepsOwner ==
  ASSUME ProcessTypes, NEW p \in Processes, Queue(p)
  PROVE  /\ contractMutex' \in Seq(Processes)
         /\ \A q : Owns(q) => Owns(q)'
  BY AppendProperties, LenProperties DEF ProcessTypes, Queue, Owns

(* Only one process owns the mutex, and gives back one that is not empty. *)
LEMMA UnlockTypes ==
  ASSUME ProcessTypes, NEW p, Owns(p), Unlock
  PROVE  /\ contractMutex' \in Seq(Processes)
         /\ \A q : Owns(q) => q = p
  BY HeadTailProperties, EmptySeq DEF ProcessTypes, Unlock, Owns

(***************************************************************************)
(* The loop.                                                               *)
(***************************************************************************)

(* A new iteration of the loop keeps the types and the stop under way. *)
LEMMA IterateKeeps ==
  ASSUME LoopTypes, NEW method \in {"manual", "reliable"}, NEW current \in OptionalBlock,
         Iterate(method, current), UNCHANGED isRunning
  PROVE  /\ LoopTypes'
         /\ NextIsKnown'
         /\ loopPc' # "refreshed"
         /\ refreshTimer' = "armed" => isRunning \/ refreshTimer = "armed"
<1> USE DEF LoopTypes, OptionalBlock, Iterate, Running, StartBlock
<1>1. CASE ~isRunning
  BY <1>1 DEF NextIsKnown
<1>2. CASE isRunning /\ (Simple \/ method = "manual")
  BY <1>2 DEF NextIsKnown
<1>3. CASE isRunning /\ ~Simple /\ method = "reliable"
  BY <1>3 DEF NextIsKnown
<1> QED
  BY <1>1, <1>2, <1>3

(* The polling method is one of the two. *)
LEMMA PollingMethodType ==
  ASSUME NEW waitedFor PROVE PollingMethod(waitedFor) \in {"manual", "reliable"}
  BY DEF PollingMethod

(* What the contract reports of a message is of its type. *)
LEMMA ObserveTypes ==
  ASSUME ChainTypes, NEW blocks, NEW last, Observe(blocks, last), UNCHANGED chainVars
  PROVE  ChainTypes'
  BY DEF ChainTypes, Observe, chainVars

(* So is the answer of a request. *)
LEMMA AnswerTypes ==
  ASSUME ProcessTypes, NEW p \in Processes, NEW b \in OptionalBlock, Answer(p, b)
  PROVE  response' \in [Processes -> OptionalBlock]
  BY DEF ProcessTypes, Answer

(***************************************************************************)
(* The steps.                                                              *)
(***************************************************************************)

(* The subscription starts in the invariant. *)
LEMMA InitIInv == Init => IInv
<1> SUFFICES ASSUME Init PROVE IInv
  OBVIOUS
<1> USE ConstantsAssumption DEF Init, ConstantsAssumption, Blocks, OptionalBlock
<1>1. LoopTypes
  BY DEF LoopTypes
<1>2. ProcessTypes
  BY EmptySeq DEF ProcessTypes
<1>3. ChainTypes
  BY DEF ChainTypes
<1>4. CallsOwnMutex /\ StopFollowsLoop /\ StopClearsRunning /\ NextIsKnown /\ FreedWhenUnused
  BY DEF CallsOwnMutex, StopFollowsLoop, StopClearsRunning, NextIsKnown,
     FreedWhenUnused, Freed
<1> QED
  BY <1>1, <1>2, <1>3, <1>4 DEF IInv, TypeOK

(* A step of the loop that ends an iteration gives the mutex back. *)
LEMMA EndOfIteration ==
  ASSUME IInv, Owns(Loop), loopPc # "finished", Unlock, Answer(Loop, None),
         NEW method \in {"manual", "reliable"}, NEW current \in OptionalBlock,
         Iterate(method, current), UNCHANGED <<isRunning, stopPc, sendPc>>, ChainTypes'
  PROVE  IInv'
<1>0. LoopTypes /\ ProcessTypes
  BY DEF IInv, TypeOK
<1>1. LoopTypes' /\ NextIsKnown' /\ loopPc' # "refreshed"
      /\ (refreshTimer' = "armed" => isRunning \/ refreshTimer = "armed")
  BY <1>0, IterateKeeps
<1>2. ProcessTypes'
  BY <1>0, UnlockTypes, AnswerTypes DEF ProcessTypes, Processes, OptionalBlock
<1>3. \A m \in Senders : sendPc[m] # "sending"
  BY <1>0, UnlockTypes, ConstantsAssumption DEF IInv, CallsOwnMutex, ConstantsAssumption
<1>4. stopPc \notin {"reading", "stopped"}
  BY DEF IInv, StopFollowsLoop
<1>5. CallsOwnMutex' /\ StopFollowsLoop' /\ FreedWhenUnused'
  BY <1>1, <1>3, <1>4 DEF CallsOwnMutex, StopFollowsLoop, FreedWhenUnused, Freed
<1>6. StopClearsRunning'
  BY <1>1 DEF IInv, StopClearsRunning
<1> QED
  BY <1>1, <1>2, <1>5, <1>6 DEF IInv, TypeOK

(* The steps of the loop keep the invariant. *)
LEMMA StepLoop == IInv /\ (Start \/ FireTimer \/ LoopStep) => IInv'
<1> SUFFICES ASSUME IInv, Start \/ FireTimer \/ LoopStep PROVE IInv'
  OBVIOUS
<1>0. LoopTypes /\ ProcessTypes /\ ChainTypes
  BY DEF IInv, TypeOK
<1> USE DEF chainVars, messageVars, worldVars, blockVars
<1>1. CASE Start
  <2>1. LoopTypes' /\ NextIsKnown'
    BY <1>0, <1>1 DEF Start, LoopTypes, NextIsKnown
  <2>2. ProcessTypes' /\ ChainTypes'
    BY <1>0, <1>1 DEF Start, ProcessTypes, ChainTypes
  <2>3. CallsOwnMutex' /\ StopFollowsLoop' /\ StopClearsRunning' /\ FreedWhenUnused'
    BY <1>1 DEF IInv, Start, CallsOwnMutex, Owns, StopFollowsLoop, StopClearsRunning,
       FreedWhenUnused, Freed
  <2> QED
    BY <2>1, <2>2, <2>3 DEF IInv, TypeOK
<1>2. CASE FireTimer
  <2>1. LoopTypes' /\ NextIsKnown'
    BY <1>0, <1>2 DEF IInv, FireTimer, LoopTypes, NextIsKnown
  <2>2. ProcessTypes' /\ ChainTypes'
    BY <1>0, <1>2 DEF FireTimer, ProcessTypes, ChainTypes
  <2>3. CallsOwnMutex' /\ StopFollowsLoop' /\ StopClearsRunning' /\ FreedWhenUnused'
    BY <1>2 DEF IInv, FireTimer, CallsOwnMutex, Owns, StopFollowsLoop,
       StopClearsRunning, FreedWhenUnused, Freed
  <2> QED
    BY <2>1, <2>2, <2>3 DEF IInv, TypeOK
<1>3. CASE AfterTimer
  <2>1. LoopTypes' /\ NextIsKnown'
    BY <1>0, <1>3 DEF AfterTimer, LoopTypes, NextIsKnown
  <2>2. contractMutex' \in Seq(Processes) /\ \A q : Owns(q) => Owns(q)'
    BY <1>0, <1>3, QueueKeepsOwner DEF AfterTimer, Processes, Owns, ProcessTypes
  <2>3. ProcessTypes' /\ ChainTypes'
    BY <1>0, <1>3, <2>2 DEF AfterTimer, ProcessTypes, ChainTypes
  <2>4. CallsOwnMutex' /\ StopFollowsLoop' /\ StopClearsRunning' /\ FreedWhenUnused'
    BY <1>3, <2>2 DEF IInv, AfterTimer, CallsOwnMutex, StopFollowsLoop,
       StopClearsRunning, FreedWhenUnused, Freed
  <2> QED
    BY <2>1, <2>3, <2>4 DEF IInv, TypeOK
<1>4. CASE ReadAccount
  <2>1. LoopTypes' /\ NextIsKnown'
    BY <1>0, <1>4 DEF ReadAccount, LoopTypes, NextIsKnown
  <2>2. response' \in [Processes -> OptionalBlock]
    BY <1>0, <1>4, AnswerTypes DEF ReadAccount, ChainTypes, OptionalBlock, Processes
  <2>3. ProcessTypes' /\ ChainTypes'
    BY <1>0, <1>4, <2>2 DEF ReadAccount, ProcessTypes, ChainTypes
  <2>4. CallsOwnMutex' /\ StopFollowsLoop' /\ StopClearsRunning' /\ FreedWhenUnused'
    BY <1>4 DEF IInv, ReadAccount, CallsOwnMutex, Owns, StopFollowsLoop,
       StopClearsRunning, FreedWhenUnused, Freed
  <2> QED
    BY <2>1, <2>3, <2>4 DEF IInv, TypeOK
<1>5. CASE Refresh
  <2>1. Owns(Loop) /\ ChainTypes'
    BY <1>0, <1>5, ObserveTypes DEF IInv, Refresh, CallsOwnMutex
  <2> QED
    BY <1>0, <1>5, <2>1, EndOfIteration, PollingMethodType DEF Refresh, LoopTypes
<1>6. CASE WaitForNextBlock
  <2>1. currentBlockId + 1 \in OptionalBlock
    <3>1. currentBlockId \in Blocks /\ currentBlockId < head /\ head \in Blocks
      BY <1>0, <1>6 DEF IInv, WaitForNextBlock, NextBlockExists, NextIsKnown, LoopTypes,
         ChainTypes, OptionalBlock
    <3> QED
      BY <3>1, ConstantsAssumption DEF Blocks, OptionalBlock, ConstantsAssumption
  <2>2. response' \in [Processes -> OptionalBlock]
    BY <1>0, <1>6, <2>1, AnswerTypes DEF WaitForNextBlock, Processes
  <2>3. contractMutex' \in Seq(Processes) /\ \A q : Owns(q) => Owns(q)'
    BY <1>0, <1>6, QueueKeepsOwner DEF WaitForNextBlock, Processes
  <2>4. LoopTypes' /\ NextIsKnown'
    BY <1>0, <1>6 DEF WaitForNextBlock, LoopTypes, NextIsKnown,
       ChainTypes, OptionalBlock
  <2>5. ProcessTypes' /\ ChainTypes'
    BY <1>0, <1>6, <2>2, <2>3 DEF WaitForNextBlock, ProcessTypes, ChainTypes
  <2>6. CallsOwnMutex' /\ StopFollowsLoop' /\ StopClearsRunning' /\ FreedWhenUnused'
    BY <1>6, <2>3 DEF IInv, WaitForNextBlock, CallsOwnMutex,
       StopFollowsLoop, StopClearsRunning, FreedWhenUnused, Freed
  <2> QED
    BY <2>4, <2>5, <2>6 DEF IInv, TypeOK
<1>7. CASE BlockRequestFails
  <2>1. LoopTypes' /\ NextIsKnown' /\ loopPc' # "refreshed"
        /\ (refreshTimer' = "armed" => isRunning \/ refreshTimer = "armed")
    BY <1>0, <1>7, IterateKeeps DEF BlockRequestFails, LoopTypes
  <2>2. ProcessTypes' /\ ChainTypes'
    BY <1>0, <1>7 DEF BlockRequestFails, ProcessTypes, ChainTypes
  <2>3. CallsOwnMutex' /\ StopFollowsLoop' /\ StopClearsRunning' /\ FreedWhenUnused'
    BY <1>7, <2>1 DEF IInv, BlockRequestFails, CallsOwnMutex, Owns, StopFollowsLoop,
       StopClearsRunning, FreedWhenUnused, Freed
  <2> QED
    BY <2>1, <2>2, <2>3 DEF IInv, TypeOK
<1>8. CASE HandleBlock
  <2>1. ChainTypes' /\ response[Loop] \in OptionalBlock
    BY <1>0, <1>8, ObserveTypes DEF HandleBlock, ProcessTypes, Processes
  <2> QED
    BY <1>0, <1>8, <2>1, EndOfIteration, PollingMethodType DEF HandleBlock
<1>9. CASE IterationFails
  <2>1. ChainTypes'
    BY <1>0, <1>9 DEF IterationFails, ChainTypes
  <2> QED
    BY <1>0, <1>9, <2>1, EndOfIteration DEF IterationFails, RetriedBlock, LoopTypes
<1> QED
  BY <1>1, <1>2, <1>3, <1>4, <1>5, <1>6, <1>7, <1>8, <1>9 DEF LoopStep

(* So do those of stop(), ... *)
LEMMA StepStop == IInv /\ (Stop \/ StopStep) => IInv'
<1> SUFFICES ASSUME IInv, Stop \/ StopStep PROVE IInv'
  OBVIOUS
<1>0. LoopTypes /\ ProcessTypes /\ ChainTypes
  BY DEF IInv, TypeOK
<1> USE DEF chainVars, messageVars, worldVars, blockVars
<1>1. CASE Stop
  <2>1. LoopTypes' /\ NextIsKnown'
    BY <1>0, <1>1 DEF IInv, Stop, SkipRefreshTimer, LoopTypes, NextIsKnown
  <2>2. ProcessTypes' /\ ChainTypes'
    BY <1>0, <1>1 DEF Stop, ProcessTypes, ChainTypes
  <2>3. CallsOwnMutex' /\ StopFollowsLoop' /\ StopClearsRunning' /\ FreedWhenUnused'
    BY <1>0, <1>1 DEF IInv, Stop, SkipRefreshTimer, LoopTypes, CallsOwnMutex, Owns,
       StopFollowsLoop, StopClearsRunning, FreedWhenUnused, Freed
  <2> QED
    BY <2>1, <2>2, <2>3 DEF IInv, TypeOK
<1>2. CASE AwaitLoop
  <2>1. contractMutex' \in Seq(Processes) /\ \A q : Owns(q) => Owns(q)'
    BY <1>0, <1>2, QueueKeepsOwner DEF AwaitLoop, Processes
  <2>2. LoopTypes' /\ ProcessTypes' /\ ChainTypes'
    BY <1>0, <1>2, <2>1 DEF AwaitLoop, loopVars, LoopTypes, ProcessTypes, ChainTypes
  <2>3. CallsOwnMutex' /\ StopFollowsLoop' /\ StopClearsRunning' /\ NextIsKnown'
        /\ FreedWhenUnused'
    BY <1>2, <2>1 DEF IInv, AwaitLoop, LoopEnded, loopVars, CallsOwnMutex,
       StopFollowsLoop, StopClearsRunning, NextIsKnown, FreedWhenUnused, Freed
  <2> QED
    BY <2>2, <2>3 DEF IInv, TypeOK
<1>3. CASE FinishStop
  <2>0. loopPc = "finished"
    BY <1>3 DEF IInv, FinishStop, MethodAfterPause, StopFollowsLoop
  <2>1. contractMutex' \in Seq(Processes) /\ \A q : Owns(q) => q = Stopper
    BY <1>0, <1>3, UnlockTypes DEF FinishStop
  <2>2. \A m \in Senders : sendPc[m] # "sending"
    BY <2>1, ConstantsAssumption DEF IInv, CallsOwnMutex, ConstantsAssumption
  <2>3. LoopTypes'
    BY <1>0, <1>3, PollingMethodType DEF FinishStop, MethodAfterPause, LoopTypes, OptionalBlock
  <2>4. ProcessTypes' /\ ChainTypes'
    BY <1>0, <1>3, <2>1 DEF FinishStop, MethodAfterPause, ProcessTypes, ChainTypes
  <2>5. CallsOwnMutex' /\ StopFollowsLoop' /\ StopClearsRunning' /\ NextIsKnown'
        /\ FreedWhenUnused'
    BY <1>3, <2>0, <2>2 DEF IInv, FinishStop, MethodAfterPause, CallsOwnMutex, StopFollowsLoop,
       StopClearsRunning, NextIsKnown, FreedWhenUnused, Freed
  <2> QED
    BY <2>3, <2>4, <2>5 DEF IInv, TypeOK
<1> QED
  BY <1>1, <1>2, <1>3 DEF StopStep

(* ... those of the senders, ... *)
LEMMA StepSend ==
  ASSUME IInv, NEW m \in Senders, Prepare(m) \/ SendStep(m)
  PROVE  IInv'
<1>0. LoopTypes /\ ProcessTypes /\ ChainTypes /\ m \in Processes
  BY DEF IInv, TypeOK, Processes
<1> USE DEF loopVars, chainVars, messageVars, worldVars, blockVars
<1>1. CASE Prepare(m) \/ SuggestBlock(m)
  <2>1. contractMutex' \in Seq(Processes) /\ \A q : Owns(q) => Owns(q)'
    BY <1>0, <1>1, QueueKeepsOwner DEF Prepare, SuggestBlock, ProcessTypes, Owns
  <2>2. response' \in [Processes -> OptionalBlock] /\ response[m] \in OptionalBlock
    BY <1>0, <1>1, AnswerTypes DEF Prepare, SuggestBlock, ProcessTypes, OptionalBlock
  <2>3. LoopTypes' /\ NextIsKnown'
    BY <1>0, <1>1, <2>2 DEF IInv, Prepare, SuggestBlock, LoopTypes, NextIsKnown
  <2>4. ProcessTypes' /\ ChainTypes'
    BY <1>0, <1>1, <2>1, <2>2 DEF Prepare, SuggestBlock, ProcessTypes, ChainTypes
  <2>5. \A n \in Senders : sendPc'[n] = "sending" => sendPc[n] = "sending"
    BY <1>0, <1>1 DEF Prepare, SuggestBlock, ProcessTypes
  <2>6. CallsOwnMutex' /\ StopFollowsLoop' /\ StopClearsRunning' /\ FreedWhenUnused'
    BY <1>1, <2>1, <2>5 DEF IInv, Prepare, SuggestBlock, CallsOwnMutex, StopFollowsLoop,
       StopClearsRunning, FreedWhenUnused, Freed
  <2> QED
    BY <2>3, <2>4, <2>6 DEF IInv, TypeOK
<1>2. CASE AskLatestBlock(m) \/ PrepareFails(m)
  <2>1. response' \in [Processes -> OptionalBlock]
    BY <1>0, <1>2, AnswerTypes DEF AskLatestBlock, PrepareFails, ProcessTypes, ChainTypes,
       OptionalBlock
  <2>2. LoopTypes' /\ NextIsKnown' /\ ProcessTypes' /\ ChainTypes'
    BY <1>0, <1>2, <2>1 DEF IInv, AskLatestBlock, PrepareFails, LoopTypes, NextIsKnown,
       ProcessTypes, ChainTypes
  <2>3. \A n \in Senders : sendPc'[n] = "sending" => sendPc[n] = "sending"
    BY <1>0, <1>2 DEF AskLatestBlock, PrepareFails, ProcessTypes
  <2>4. CallsOwnMutex' /\ StopFollowsLoop' /\ StopClearsRunning' /\ FreedWhenUnused'
    BY <1>2, <2>3 DEF IInv, AskLatestBlock, PrepareFails, CallsOwnMutex, Owns,
       StopFollowsLoop, StopClearsRunning, FreedWhenUnused, Freed
  <2> QED
    BY <2>2, <2>4 DEF IInv, TypeOK
<1>3. CASE Send(m)
  <2>1. head + Lifetime \in Nat
    BY <1>0, ConstantsAssumption DEF ChainTypes, Blocks, ConstantsAssumption
  <2>2. LoopTypes' /\ NextIsKnown'
    BY <1>0, <1>3 DEF IInv, Send, LoopTypes, NextIsKnown
  <2>3. ProcessTypes' /\ ChainTypes'
    BY <1>0, <1>3, <2>1 DEF Send, ProcessTypes, ChainTypes
  <2>4. \A n \in Senders : sendPc'[n] = "sending" => sendPc[n] = "sending" \/ n = m
    BY <1>0, <1>3 DEF Send, ProcessTypes
  <2>5. CallsOwnMutex' /\ StopFollowsLoop' /\ StopClearsRunning' /\ FreedWhenUnused'
    BY <1>3, <2>4 DEF IInv, Send, CallsOwnMutex, Owns, StopFollowsLoop,
       StopClearsRunning, FreedWhenUnused, Freed
  <2> QED
    BY <2>2, <2>3, <2>5 DEF IInv, TypeOK
<1>4. CASE SendToFreed(m) \/ Sent(m) \/ SendFails(m)
  <2>1. Owns(m) /\ Unlock
    BY <1>4 DEF IInv, SendToFreed, Sent, SendFails, CallsOwnMutex
  <2>2. contractMutex' \in Seq(Processes) /\ \A q : Owns(q) => q = m
    BY <1>0, <2>1, UnlockTypes
  <2>3. loopPc # "refreshed" /\ \A n \in Senders : sendPc[n] = "sending" => n = m
    BY <2>2, ConstantsAssumption DEF IInv, CallsOwnMutex, ConstantsAssumption
  <2>4. \A n \in Senders : sendPc'[n] # "sending"
    BY <1>0, <1>4, <2>3 DEF SendToFreed, Sent, SendFails, ProcessTypes
  <2>5. LoopTypes' /\ NextIsKnown'
    BY <1>0, <1>4 DEF IInv, SendToFreed, Sent, SendFails, SkipRefreshTimer, LoopTypes,
       NextIsKnown
  <2>6. ProcessTypes' /\ ChainTypes'
    BY <1>0, <1>4, <2>2 DEF SendToFreed, Sent, SendFails, ProcessTypes, ChainTypes
  <2>7. CallsOwnMutex' /\ StopFollowsLoop' /\ FreedWhenUnused'
    BY <1>4, <2>3, <2>4 DEF IInv, SendToFreed, Sent, SendFails, CallsOwnMutex,
       StopFollowsLoop, FreedWhenUnused, Freed
  <2>8. StopClearsRunning'
    BY <1>4 DEF IInv, SendToFreed, Sent, SendFails, SkipRefreshTimer, StopClearsRunning
  <2> QED
    BY <2>5, <2>6, <2>7, <2>8 DEF IInv, TypeOK
<1> QED
  BY <1>1, <1>2, <1>3, <1>4 DEF SendStep

(* ... and those of the chain. *)
LEMMA StepChain == IInv /\ (NewBlock \/ UNCHANGED vars) => IInv'
<1> SUFFICES ASSUME IInv, NewBlock \/ UNCHANGED vars PROVE IInv'
  OBVIOUS
<1> USE DEF loopVars, messageVars, worldVars, blockVars
<1>1. LoopTypes' /\ ProcessTypes'
  BY DEF IInv, TypeOK, NewBlock, vars, LoopTypes, ProcessTypes
<1>2. ChainTypes'
  <2>1. CASE NewBlock
    <3>1. head' \in Blocks /\ head + 1 \in OptionalBlock
      BY <2>1, ConstantsAssumption DEF IInv, TypeOK, NewBlock, ChainTypes, Blocks,
         OptionalBlock, ConstantsAssumption
    <3> QED
      BY <2>1, <3>1 DEF IInv, TypeOK, NewBlock, ChainTypes
  <2>2. CASE UNCHANGED vars
    BY <2>2 DEF IInv, TypeOK, vars, chainVars, ChainTypes
  <2> QED
    BY <2>1, <2>2
<1>3. CallsOwnMutex' /\ StopFollowsLoop' /\ StopClearsRunning' /\ NextIsKnown'
      /\ FreedWhenUnused'
  BY DEF IInv, NewBlock, vars, CallsOwnMutex, Owns, StopFollowsLoop, StopClearsRunning,
     NextIsKnown, FreedWhenUnused, Freed
<1> QED
  BY <1>1, <1>2, <1>3 DEF IInv, TypeOK

(***************************************************************************)
(* The theorems.                                                           *)
(***************************************************************************)

(* The invariants below are inductive together. *)
THEOREM Invariant == Spec => []IInv
<1>1. IInv /\ [Next]_vars => IInv'
  BY StepLoop, StepStop, StepSend, StepChain DEF Next
<1> QED
  BY <1>1, InitIInv, PTL DEF Spec

(* The variables keep their types. *)
THEOREM TypeCorrect == Spec => []TypeOK
<1>1. IInv => TypeOK
  BY DEF IInv
<1> QED
  BY <1>1, Invariant, PTL

(* The contract is freed only after the loop has ended and while no call    *)
(* into it is under way.                                                   *)
THEOREM FreedSafely == Spec => []FreedWhenUnused
<1>1. IInv => FreedWhenUnused
  BY DEF IInv
<1> QED
  BY <1>1, Invariant, PTL

(* From the call of stop() on no polling timer is armed. *)
THEOREM StopIsPrompt == Spec => []StopSkipsTimer
<1>1. IInv => StopSkipsTimer
  BY DEF IInv, StopClearsRunning, StopSkipsTimer
<1> QED
  BY <1>1, Invariant, PTL

(***************************************************************************)
(* Messages that do not overlap are reported as MessageDelivery promises.  *)
(***************************************************************************)

(* What the contract waits for is under way or sent; what is reported was    *)
(* sent, and only what has left can be included, in time.                    *)
MessageInv ==
    \A m \in Senders :
      /\ m \in pending => /\ sendPc[m] \in {"sending", "sent"}
                          /\ outcome[m] = "none"
                          /\ deadline[m] # None
      /\ sendPc[m] \in {"sending", "sent"} => m \in pending \/ outcome[m] # "none"
      /\ outcome[m] # "none" => sendPc[m] = "sent"
      /\ deadline[m] # None => sendPc[m] \in {"sending", "sent", "failed"}
      /\ landed[m] # None => /\ deadline[m] # None
                             /\ landed[m] <= deadline[m]
                             /\ landed[m] <= head
      /\ outcome[m] = "expired" => deadline[m] # None /\ deadline[m] < head

(* The loop handles blocks that exist, one after the other. *)
AnswerInv ==
    /\ loopPc \in {"refreshed", "handling"} =>
          response[Loop] \in Blocks /\ response[Loop] <= head
    /\ loopPc \in {"next", "handling"} => currentBlockId \in Blocks /\ currentBlockId <= head
    /\ loopPc = "handling" => response[Loop] = currentBlockId + 1

(* Messages that do not overlap: one at a time is not settled. *)
OneUnsettled == \A m, n \in Senders : ~Settled(m) /\ ~Settled(n) => m = n

(* The loop polls block by block only for a message that has left. *)
MethodInv ==
    /\ currentPollingMethod = "reliable" =>
          pending # {} /\ \A m \in Senders : sendPc[m] # "sending"
    /\ loopPc \in {"next", "handling"} => currentPollingMethod = "reliable" /\ ~Simple
    /\ loopPc \in {"waiting", "refreshing", "refreshed"} =>
          Simple \/ currentPollingMethod = "manual"
    /\ loopPc = "off" => currentPollingMethod = "manual"

Beyond(m, block) == landed[m] = None \/ landed[m] > block

(* A message is included after the block suggested before it was sent, until *)
(* the loop takes that block, and after the block the loop is at from then on. *)
BlockInv ==
    \A m \in Senders :
      /\ sendPc[m] = "prepared" => response[m] \in Blocks /\ response[m] <= head
      /\ /\ ~Simple /\ currentPollingMethod = "manual" /\ stopPc # "stopped"
         /\ sendPc[m] \in {"queued", "sending"} \/ m \in pending
         => /\ suggestedBlockId \in Blocks /\ suggestedBlockId <= head
            /\ Beyond(m, suggestedBlockId)
      /\ loopPc \in {"next", "handling"} /\ m \in pending => Beyond(m, currentBlockId)

DeliveryInv ==
    MessageInv /\ AnswerInv /\ OneUnsettled /\ MethodInv /\ BlockInv /\ NoFalseExpiry

(* The subscription starts with nothing sent, nothing reported. *)
LEMMA InitDelivery == Init => DeliveryInv
  BY ConstantsAssumption DEF ConstantsAssumption, Init, DeliveryInv, MessageInv, AnswerInv,
     OneUnsettled, Settled, MethodInv, BlockInv, NoFalseExpiry

(* What neither sends nor reports nor adds a block leaves the messages alone. *)
LEMMA MessagesAside ==
  ASSUME DeliveryInv, UNCHANGED <<sendPc, worldVars>>
  PROVE  MessageInv' /\ OneUnsettled' /\ NoFalseExpiry'
  BY DEF DeliveryInv, MessageInv, OneUnsettled, Settled, NoFalseExpiry, worldVars, chainVars,
     messageVars

(* The contract sees every block up to the last one, or the next one only     *)
(* and has seen those before: it reports what it should.                      *)
LEMMA ObserveReports ==
  ASSUME IInv, DeliveryInv, NEW blocks, NEW last \in Blocks, last <= head,
         \A m \in pending : landed[m] # None => landed[m] \in blocks \/ landed[m] > last,
         Observe(blocks, last), UNCHANGED <<sendPc, chainVars>>, Owns(Loop)
  PROVE  /\ MessageInv' /\ OneUnsettled' /\ NoFalseExpiry'
         /\ pending' \subseteq pending
         /\ \A m \in pending' : landed'[m] \notin blocks
         /\ \A m \in Senders : sendPc'[m] # "sending"
<1>1. /\ pending \subseteq Senders /\ head \in Nat /\ last \in Nat
      /\ landed \in [Senders -> OptionalBlock] /\ deadline \in [Senders -> Nat \cup {None}]
  BY ConstantsAssumption DEF IInv, TypeOK, ChainTypes, Blocks, ConstantsAssumption
<1>2. \A m \in Senders : landed[m] # None => landed[m] \in Nat
  BY <1>1, ConstantsAssumption DEF OptionalBlock, Blocks, ConstantsAssumption
<1>3. \A m \in Senders : sendPc[m] # "sending"
  BY ConstantsAssumption DEF IInv, CallsOwnMutex, Owns, ConstantsAssumption
<1> DEFINE found == {m \in pending : landed[m] \in blocks}
           expired == {m \in pending \ found : last > deadline[m]}
<1>4. /\ pending' = pending \ (found \cup expired)
      /\ outcome' = [m \in Senders |-> IF m \in found THEN "sent"
                                       ELSE IF m \in expired THEN "expired"
                                       ELSE outcome[m]]
  BY DEF Observe
<1>5. \A m \in expired : landed[m] = None /\ deadline[m] # None /\ deadline[m] < head
  <2> SUFFICES ASSUME NEW m \in expired
               PROVE  landed[m] = None /\ deadline[m] # None /\ deadline[m] < head
    OBVIOUS
  <2>1. m \in Senders /\ m \in pending /\ landed[m] \notin blocks /\ last > deadline[m]
    BY <1>1
  <2>2. deadline[m] \in Nat
    BY <1>1, <2>1 DEF DeliveryInv, MessageInv
  <2>3. landed[m] # None => landed[m] <= deadline[m] /\ landed[m] > last
    BY <2>1 DEF DeliveryInv, MessageInv
  <2> QED
    BY <1>1, <1>2, <2>1, <2>2, <2>3 DEF DeliveryInv, MessageInv
<1>6. UNCHANGED <<sendPc, landed, deadline, head>>
  BY DEF chainVars
<1> HIDE DEF expired, found
<1>7. found \subseteq pending /\ expired \subseteq pending
  BY DEF found, expired
<1>8. \A m \in Senders : outcome'[m] = outcome[m] \/ (m \in pending /\ outcome[m] = "none")
  BY <1>4, <1>7 DEF DeliveryInv, MessageInv
<1>9. MessageInv'
  <2> SUFFICES ASSUME NEW m \in Senders PROVE MessageInv!(m)'
    BY DEF MessageInv
  <2> QED
    BY <1>3, <1>4, <1>5, <1>6, <1>7 DEF DeliveryInv, MessageInv
<1>10. OneUnsettled'
  BY <1>6, <1>8 DEF DeliveryInv, OneUnsettled, Settled
<1>11. NoFalseExpiry'
  BY <1>4, <1>5, <1>6 DEF DeliveryInv, NoFalseExpiry
<1>12. \A m \in pending' : landed'[m] \notin blocks
  BY <1>4, <1>6 DEF found
<1> QED
  BY <1>3, <1>4, <1>6, <1>9, <1>10, <1>11, <1>12

(* A message on its way is not settled, and the only one that is not. *)
LEMMA UnderWay ==
  ASSUME DeliveryInv, NEW m \in Senders, NEW n \in pending, n \in Senders,
         sendPc[m] \in {"preparing", "prepared", "queued"}
  PROVE  FALSE
<1>1. outcome[m] = "none"
  BY DEF DeliveryInv, MessageInv
<1>2. ~Settled(m) /\ ~Settled(n) /\ sendPc[m] # sendPc[n]
  BY <1>1 DEF DeliveryInv, MessageInv, Settled
<1> QED
  BY <1>2 DEF DeliveryInv, OneUnsettled

(* The loop goes on after it has reported: from the block suggested to it if  *)
(* a message has appeared, from the one that it has seen otherwise.           *)
LEMMA GoesOn ==
  ASSUME IInv, DeliveryInv, NEW current, Iterate(PollingMethod(pending'), current),
         Answer(Loop, None), loopPc # "off", stopPc # "stopped",
         UNCHANGED <<stopPc, sendPc, chainVars>>, pending' \subseteq pending,
         \A m \in Senders : sendPc'[m] # "sending",
         ~Simple /\ currentPollingMethod = "reliable" =>
             /\ current \in Blocks /\ current <= head
             /\ \A m \in pending' : landed'[m] = None \/ landed'[m] > current
  PROVE  AnswerInv' /\ MethodInv' /\ BlockInv'
<1>1. /\ pending \subseteq Senders /\ response \in [Processes -> OptionalBlock]
      /\ currentPollingMethod \in {"manual", "reliable"}
      /\ None \notin Blocks /\ Loop \notin Senders
  BY ConstantsAssumption DEF IInv, TypeOK, ChainTypes, ProcessTypes, LoopTypes, Blocks,
     ConstantsAssumption
<1>2. /\ currentPollingMethod' = IF pending' = {} THEN "manual" ELSE "reliable"
      /\ loopPc' \in {"finished", "waiting", "latest", "next"}
      /\ loopPc' = "waiting" => Simple \/ pending' = {}
      /\ loopPc' = "next" => ~Simple /\ pending' # {}
  BY DEF Iterate, PollingMethod
<1>3. MethodInv'
  BY <1>2 DEF MethodInv
<1>4. ASSUME loopPc' \in {"latest", "next"}
      PROVE  /\ loopPc' = "next" /\ currentBlockId' \in Blocks /\ currentBlockId' <= head
             /\ \A m \in pending' : Beyond(m, currentBlockId)'
  <2>1. ~Simple /\ pending' # {} /\ PollingMethod(pending') = "reliable"
        /\ currentBlockId' = StartBlock("reliable", current)
        /\ loopPc' = IF StartBlock("reliable", current) = None THEN "latest" ELSE "next"
    BY <1>4 DEF Iterate, PollingMethod
  <2>2. CASE currentPollingMethod = "reliable"
    BY <1>1, <2>1, <2>2 DEF StartBlock, Beyond
  <2>3. CASE currentPollingMethod = "manual"
    <3>1. \A m \in pending' : /\ suggestedBlockId \in Blocks /\ suggestedBlockId <= head
                              /\ Beyond(m, suggestedBlockId)
      BY <1>1, <2>1, <2>3 DEF DeliveryInv, BlockInv
    <3>2. StartBlock("reliable", current) = suggestedBlockId
      BY <1>1, <2>1, <2>3, <3>1 DEF StartBlock
    <3> QED
      BY <1>1, <2>1, <3>1, <3>2 DEF Beyond, chainVars
  <2> QED
    BY <1>1, <2>2, <2>3
<1>5. AnswerInv'
  BY <1>2, <1>4 DEF AnswerInv, chainVars
<1>6. BlockInv'
  <2> SUFFICES ASSUME NEW m \in Senders PROVE BlockInv!(m)'
    BY DEF BlockInv
  <2>1. sendPc'[m] = "prepared" => response'[m] \in Blocks /\ response'[m] <= head'
    BY <1>1 DEF Answer, DeliveryInv, BlockInv, chainVars, Processes
  <2>2. ASSUME ~Simple, currentPollingMethod' = "manual",
               sendPc'[m] \in {"queued", "sending"} \/ m \in pending'
        PROVE  /\ suggestedBlockId' \in Blocks /\ suggestedBlockId' <= head'
               /\ Beyond(m, suggestedBlockId)'
    <3>1. pending' = {} /\ sendPc[m] = "queued"
      BY <1>2, <2>2
    <3>2. pending = {}
      BY <1>1, <3>1, UnderWay
    <3>3. currentPollingMethod = "manual"
      BY <1>1, <3>2 DEF DeliveryInv, MethodInv
    <3>4. suggestedBlockId' = suggestedBlockId
      BY <3>1 DEF Iterate, PollingMethod
    <3> QED
      BY <2>2, <3>1, <3>3, <3>4 DEF DeliveryInv, BlockInv, Beyond, chainVars
  <2>3. loopPc' \in {"next", "handling"} /\ m \in pending' => Beyond(m, currentBlockId)'
    BY <1>2, <1>4
  <2> QED
    BY <2>1, <2>2, <2>3
<1> QED
  BY <1>3, <1>5, <1>6

(* Nor does a failed iteration lose a block. *)
LEMMA TriesAgain ==
  ASSUME IInv, DeliveryInv, Iterate(currentPollingMethod, currentBlockId),
         loopPc \in {"refreshing", "refreshed", "next", "handling"},
         Answer(Loop, None) \/ UNCHANGED response, UNCHANGED <<stopPc, sendPc, worldVars>>
  PROVE  DeliveryInv'
<1>1. /\ pending \subseteq Senders /\ response \in [Processes -> OptionalBlock]
      /\ currentPollingMethod \in {"manual", "reliable"}
      /\ None \notin Blocks /\ Loop \notin Senders
  BY ConstantsAssumption DEF IInv, TypeOK, ChainTypes, ProcessTypes, LoopTypes, Blocks,
     ConstantsAssumption
<1>2. CASE loopPc \in {"next", "handling"}
  <2>1. /\ currentPollingMethod = "reliable" /\ currentPollingMethod' = "reliable" /\ ~Simple
        /\ currentBlockId' = currentBlockId /\ currentBlockId \in Blocks /\ currentBlockId <= head
        /\ loopPc' \in {"finished", "next"}
    BY <1>1, <1>2 DEF Iterate, StartBlock, DeliveryInv, MethodInv, AnswerInv
  <2>2. AnswerInv' /\ MethodInv'
    BY <2>1 DEF DeliveryInv, AnswerInv, MethodInv, worldVars, chainVars, messageVars
  <2>3. BlockInv'
    BY <1>1, <1>2, <2>1 DEF DeliveryInv, BlockInv, Beyond, worldVars, chainVars, messageVars,
       Answer, Processes
  <2> QED
    BY <2>2, <2>3, MessagesAside DEF DeliveryInv
<1>3. CASE loopPc \in {"refreshing", "refreshed"}
  <2>1. Simple \/ currentPollingMethod = "manual"
    BY <1>3 DEF DeliveryInv, MethodInv
  <2>2. /\ currentPollingMethod' = currentPollingMethod
        /\ loopPc' \in {"finished", "waiting"}
        /\ suggestedBlockId' = suggestedBlockId
    BY <1>1, <2>1 DEF Iterate
  <2>3. AnswerInv' /\ MethodInv'
    BY <2>1, <2>2 DEF DeliveryInv, AnswerInv, MethodInv, worldVars, chainVars, messageVars
  <2>4. BlockInv'
    BY <1>1, <2>2 DEF DeliveryInv, BlockInv, Beyond, worldVars, chainVars, messageVars,
       Answer, Processes
  <2> QED
    BY <2>3, <2>4, MessagesAside DEF DeliveryInv
<1> QED
  BY <1>2, <1>3

(* The steps of the loop keep the promise, ... *)
LEMMA LoopDelivers ==
  ASSUME IInv, DeliveryInv, Start \/ FireTimer \/ LoopStep
  PROVE  DeliveryInv'
<1>0. /\ pending \subseteq Senders /\ response \in [Processes -> OptionalBlock]
      /\ currentPollingMethod \in {"manual", "reliable"} /\ head \in Blocks
      /\ None \notin Blocks /\ Loop \notin Senders /\ Blocks \subseteq Nat /\ Loop \in Processes
  BY ConstantsAssumption DEF IInv, TypeOK, ChainTypes, ProcessTypes, LoopTypes, Blocks, Processes,
     ConstantsAssumption
<1>1. CASE Start \/ FireTimer \/ AfterTimer
  <2>1. /\ UNCHANGED <<sendPc, worldVars, blockVars, response, stopPc>>
        /\ loopPc' = loopPc \/ loopPc' \in {"waiting", "refreshing", "finished"}
        /\ loopPc' = loopPc \/ loopPc \in {"off", "waiting"}
    BY <1>1 DEF Start, FireTimer, AfterTimer
  <2>2. AnswerInv' /\ MethodInv'
    BY <2>1 DEF DeliveryInv, AnswerInv, MethodInv, blockVars, worldVars, chainVars, messageVars
  <2>3. BlockInv'
    BY <2>1 DEF DeliveryInv, BlockInv, Beyond, blockVars, worldVars, chainVars, messageVars
  <2> QED
    BY <2>1, <2>2, <2>3, MessagesAside DEF DeliveryInv
<1>2. CASE ReadAccount
  <2>1. /\ UNCHANGED <<sendPc, worldVars, blockVars, stopPc>>
        /\ loopPc = "refreshing" /\ loopPc' = "refreshed"
        /\ response' = [response EXCEPT ![Loop] = head]
    BY <1>2 DEF ReadAccount, Answer
  <2>2. AnswerInv' /\ MethodInv'
    BY <1>0, <2>1 DEF DeliveryInv, AnswerInv, MethodInv, blockVars, worldVars, chainVars, messageVars
  <2>3. BlockInv'
    BY <1>0, <2>1 DEF DeliveryInv, BlockInv, Beyond, blockVars, worldVars, chainVars, messageVars
  <2> QED
    BY <2>1, <2>2, <2>3, MessagesAside DEF DeliveryInv
<1>3. CASE Refresh
  <2>1. /\ Observe(0..response[Loop], response[Loop]) /\ Answer(Loop, None)
        /\ Iterate(PollingMethod(pending'), currentBlockId)
        /\ loopPc = "refreshed" /\ UNCHANGED <<stopPc, sendPc, chainVars>>
    BY <1>3 DEF Refresh
  <2>2. Owns(Loop) /\ stopPc # "stopped"
    BY <2>1 DEF IInv, CallsOwnMutex, StopFollowsLoop
  <2>3. response[Loop] \in Blocks /\ response[Loop] <= head
    BY <2>1 DEF DeliveryInv, AnswerInv
  <2>4. \A m \in pending :
           landed[m] # None => landed[m] \in 0..response[Loop] \/ landed[m] > response[Loop]
    <3>1. \A m \in Senders : landed[m] # None => landed[m] \in Nat
      BY <1>0 DEF IInv, TypeOK, ChainTypes, OptionalBlock
    <3>2. \A r, b \in Nat : b \in 0..r \/ b > r
      OBVIOUS
    <3>3. response[Loop] \in Nat
      BY <1>0, <2>3
    <3> QED
      BY <1>0, <3>1, <3>2, <3>3
  <2>5. /\ MessageInv' /\ OneUnsettled' /\ NoFalseExpiry' /\ pending' \subseteq pending
        /\ \A m \in Senders : sendPc'[m] # "sending"
    BY <2>1, <2>2, <2>3, <2>4, ObserveReports
  <2>6. Simple \/ currentPollingMethod = "manual"
    BY <2>1 DEF DeliveryInv, MethodInv
  <2>7. AnswerInv' /\ MethodInv' /\ BlockInv'
    BY <2>1, <2>2, <2>5, <2>6, GoesOn
  <2> QED
    BY <2>5, <2>7 DEF DeliveryInv
<1>4. CASE WaitForNextBlock
  <2>1. /\ UNCHANGED <<sendPc, worldVars, blockVars, stopPc>>
        /\ loopPc = "next" /\ loopPc' = "handling" /\ currentBlockId < head
        /\ response' = [response EXCEPT ![Loop] = currentBlockId + 1]
    BY <1>4 DEF WaitForNextBlock, Answer, NextBlockExists
  <2>2. currentBlockId \in Blocks /\ currentBlockId + 1 \in Blocks /\ currentBlockId + 1 <= head
    BY <1>0, <2>1, ConstantsAssumption DEF DeliveryInv, AnswerInv, Blocks, ConstantsAssumption
  <2>3. AnswerInv' /\ MethodInv'
    BY <1>0, <2>1, <2>2
       DEF DeliveryInv, AnswerInv, MethodInv, blockVars, worldVars, chainVars, messageVars
  <2>4. BlockInv'
    BY <1>0, <2>1 DEF DeliveryInv, BlockInv, Beyond, blockVars, worldVars, chainVars, messageVars
  <2> QED
    BY <2>1, <2>3, <2>4, MessagesAside DEF DeliveryInv
<1>5. CASE BlockRequestFails
  BY <1>5, TriesAgain DEF BlockRequestFails
<1>6. CASE HandleBlock
  <2> DEFINE last == response[Loop]
  <2>1. /\ Observe({last}, last) /\ Answer(Loop, None) /\ Owns(Loop)
        /\ Iterate(PollingMethod(pending'), last)
        /\ loopPc = "handling" /\ UNCHANGED <<stopPc, sendPc, chainVars>>
    BY <1>6 DEF HandleBlock
  <2>2. /\ last \in Blocks /\ last <= head /\ stopPc # "stopped"
        /\ currentBlockId \in Blocks /\ last = currentBlockId + 1
    BY <2>1 DEF DeliveryInv, AnswerInv, IInv, StopFollowsLoop
  <2>3. \A m \in pending : landed[m] # None => landed[m] \in Nat /\ landed[m] > currentBlockId
    BY <1>0, <2>1 DEF DeliveryInv, BlockInv, Beyond, IInv, TypeOK, ChainTypes, OptionalBlock
  <2> HIDE DEF last
  <2>4. \A m \in pending : landed[m] # None => landed[m] \in {last} \/ landed[m] > last
    BY <1>0, <2>2, <2>3
  <2>5. /\ MessageInv' /\ OneUnsettled' /\ NoFalseExpiry' /\ pending' \subseteq pending
        /\ \A m \in pending' : landed'[m] \notin {last}
        /\ \A m \in Senders : sendPc'[m] # "sending"
    BY <2>1, <2>2, <2>4, ObserveReports
  <2>6. \A m \in pending' : landed'[m] = None \/ landed'[m] > last
    BY <2>1, <2>4, <2>5 DEF chainVars
  <2>7. AnswerInv' /\ MethodInv' /\ BlockInv'
    <3>1. last \in Blocks /\ last <= head /\ \A m \in pending' : landed'[m] = None \/ landed'[m] > last
      BY <2>2, <2>6
    <3> QED
      BY <1>0, <2>1, <2>2, <2>5, <3>1, GoesOn
  <2> QED
    BY <2>5, <2>7 DEF DeliveryInv
<1>7. CASE IterationFails
  BY <1>7, TriesAgain DEF IterationFails, RetriedBlock
<1> QED
  BY <1>1, <1>2, <1>3, <1>4, <1>5, <1>6, <1>7 DEF LoopStep


(* ... those of stop(), ... *)
LEMMA StopDelivers ==
  ASSUME IInv, DeliveryInv, Stop \/ StopStep
  PROVE  DeliveryInv'
<1>0. pending \subseteq Senders /\ Stopper \notin Senders
  BY ConstantsAssumption DEF IInv, TypeOK, ChainTypes, ConstantsAssumption
<1>1. CASE Stop \/ AwaitLoop
  <2>1. /\ UNCHANGED <<sendPc, worldVars, blockVars, response, loopPc>>
        /\ stopPc' # "stopped" /\ stopPc # "stopped"
    BY <1>1 DEF Stop, AwaitLoop, loopVars
  <2>2. AnswerInv' /\ MethodInv'
    BY <2>1 DEF DeliveryInv, AnswerInv, MethodInv, blockVars, worldVars, chainVars, messageVars
  <2>3. BlockInv'
    BY <2>1 DEF DeliveryInv, BlockInv, Beyond, blockVars, worldVars, chainVars, messageVars
  <2> QED
    BY <2>1, <2>2, <2>3, MessagesAside DEF DeliveryInv
<1>2. CASE FinishStop
  <2>1. /\ UNCHANGED <<sendPc, worldVars, response, loopPc>> /\ Owns(Stopper)
        /\ currentPollingMethod' = PollingMethod(pending)
        /\ loopPc = "finished" /\ stopPc' = "stopped"
    BY <1>2 DEF IInv, FinishStop, MethodAfterPause, StopFollowsLoop
  <2>2. \A m \in Senders : sendPc[m] # "sending"
    BY <1>0, <2>1 DEF IInv, CallsOwnMutex, Owns
  <2>3. AnswerInv' /\ MethodInv'
    BY <2>1, <2>2 DEF AnswerInv, MethodInv, PollingMethod, worldVars, chainVars, messageVars
  <2>4. BlockInv'
    BY <2>1 DEF DeliveryInv, BlockInv, worldVars, chainVars, messageVars
  <2> QED
    BY <2>1, <2>3, <2>4, MessagesAside DEF DeliveryInv
<1> QED
  BY <1>1, <1>2 DEF StopStep

(* A sender whose message has not left is the only one that is not settled, *)
(* and the loop is not at any block.                                        *)
LEMMA NothingPending ==
  ASSUME IInv, DeliveryInv, NEW m \in Senders,
         sendPc[m] \in {"preparing", "prepared", "queued"}
  PROVE  /\ pending = {} /\ currentPollingMethod = "manual"
         /\ loopPc \notin {"next", "handling"}
         /\ \A n \in Senders \ {m} : sendPc[n] \notin {"preparing", "prepared", "queued", "sending"}
<1>1. pending \subseteq Senders /\ currentPollingMethod \in {"manual", "reliable"}
  BY DEF IInv, TypeOK, ChainTypes, LoopTypes
<1>2. pending = {}
  BY <1>1, UnderWay
<1>3. \A n \in Senders : sendPc[n] \in {"preparing", "prepared", "queued", "sending"} => ~Settled(n)
  BY DEF DeliveryInv, MessageInv, Settled
<1> QED
  BY <1>1, <1>2, <1>3 DEF DeliveryInv, OneUnsettled, MethodInv

(* ... those of the senders, as long as one message is settled before the   *)
(* next is prepared, ...                                                     *)
LEMMA SendDelivers ==
  ASSUME ~Concurrent, IInv, DeliveryInv, NEW m \in Senders, Prepare(m) \/ SendStep(m)
  PROVE  DeliveryInv'
<1>0. /\ pending \subseteq Senders /\ response \in [Processes -> OptionalBlock]
      /\ currentPollingMethod \in {"manual", "reliable"} /\ head \in Blocks
      /\ None \notin Blocks /\ Loop \notin Senders /\ Blocks \subseteq Nat /\ Loop # m
      /\ Loop \in Processes /\ Senders \subseteq Processes /\ head + Lifetime \in Nat
      /\ deadline \in [Senders -> Nat \cup {None}] /\ landed \in [Senders -> OptionalBlock]
  BY ConstantsAssumption DEF IInv, TypeOK, ChainTypes, ProcessTypes, LoopTypes, Blocks, Processes,
     ConstantsAssumption
<1>00. sendPc \in [Senders -> {"idle", "preparing", "prepared", "queued", "sending", "sent",
                                 "failed"}]
  BY DEF IInv, TypeOK, ProcessTypes
<1> USE DEF loopVars, blockVars, worldVars, chainVars, messageVars
<1>1. CASE Prepare(m)
  <2>1. /\ UNCHANGED <<loopVars, stopPc, response, worldVars>> /\ sendPc[m] = "idle"
        /\ sendPc' = [sendPc EXCEPT ![m] = IF Simple THEN "queued" ELSE "preparing"]
        /\ \A n \in Senders : Settled(n)
    BY <1>1 DEF Prepare
  <2>2. MessageInv' /\ AnswerInv' /\ MethodInv' /\ NoFalseExpiry'
    BY <1>00, <2>1 DEF DeliveryInv, MessageInv, AnswerInv, MethodInv, NoFalseExpiry
  <2>3. OneUnsettled'
    BY <1>00, <2>1 DEF OneUnsettled, Settled
  <2>4. BlockInv'
    BY <1>00, <2>1 DEF DeliveryInv, BlockInv, Beyond, MessageInv
  <2> QED
    BY <2>2, <2>3, <2>4 DEF DeliveryInv
<1>2. CASE AskLatestBlock(m) \/ PrepareFails(m)
  <2>1. /\ UNCHANGED <<loopVars, stopPc, worldVars>> /\ sendPc[m] = "preparing"
        /\ \/ /\ sendPc' = [sendPc EXCEPT ![m] = "prepared"]
              /\ response' = [response EXCEPT ![m] = head]
           \/ sendPc' = [sendPc EXCEPT ![m] = "failed"] /\ response' = response
    BY <1>2 DEF AskLatestBlock, PrepareFails, Answer
  <2>2. MessageInv' /\ AnswerInv' /\ MethodInv' /\ NoFalseExpiry'
    <3>1. MessageInv'
      BY <1>00, <2>1 DEF DeliveryInv, MessageInv
    <3>2. response'[Loop] = response[Loop]
      BY <1>0, <2>1
    <3>3. AnswerInv'
      BY <2>1, <3>2 DEF DeliveryInv, AnswerInv
    <3>4. MethodInv' /\ NoFalseExpiry'
      BY <1>00, <2>1 DEF DeliveryInv, MethodInv, NoFalseExpiry
    <3> QED
      BY <3>1, <3>3, <3>4
  <2>3. OneUnsettled'
    BY <1>00, <2>1 DEF DeliveryInv, MessageInv, OneUnsettled, Settled
  <2>4. BlockInv'
    BY <1>0, <1>00, <2>1 DEF DeliveryInv, BlockInv, Beyond, MessageInv
  <2> QED
    BY <2>2, <2>3, <2>4 DEF DeliveryInv
<1>3. CASE SuggestBlock(m)
  <2>1. /\ UNCHANGED <<isRunning, refreshTimer, currentPollingMethod, currentBlockId, loopPc, stopPc,
                       worldVars>>
        /\ sendPc[m] = "prepared" /\ sendPc' = [sendPc EXCEPT ![m] = "queued"]
        /\ suggestedBlockId' = response[m] /\ response' = [response EXCEPT ![m] = None]
    BY <1>3 DEF SuggestBlock, Answer
  <2>2. MessageInv' /\ AnswerInv' /\ MethodInv' /\ NoFalseExpiry'
    BY <1>0, <1>00, <2>1 DEF DeliveryInv, MessageInv, AnswerInv, MethodInv, NoFalseExpiry
  <2>3. OneUnsettled'
    BY <1>00, <2>1 DEF DeliveryInv, MessageInv, OneUnsettled, Settled
  <2>4. BlockInv'
    <3>1. /\ pending = {} /\ response[m] \in Blocks /\ response[m] <= head /\ landed[m] = None
          /\ \A n \in Senders \ {m} : sendPc[n] \notin {"prepared", "queued", "sending"}
      BY <2>1, NothingPending DEF DeliveryInv, BlockInv, MessageInv
    <3> QED
      BY <1>0, <1>00, <2>1, <3>1 DEF BlockInv, Beyond
  <2> QED
    BY <2>2, <2>3, <2>4 DEF DeliveryInv
<1>4. CASE Send(m)
  <2>1. /\ UNCHANGED <<loopVars, stopPc, response, head, landed, outcome>>
        /\ sendPc[m] = "queued" /\ sendPc' = [sendPc EXCEPT ![m] = "sending"]
        /\ pending' = pending \cup {m} /\ deadline' = [deadline EXCEPT ![m] = head + Lifetime]
        /\ None # head + Lifetime
    BY <1>0, <1>4, ConstantsAssumption DEF Send, ConstantsAssumption
  <2>2. /\ pending = {} /\ currentPollingMethod = "manual" /\ landed[m] = None
        /\ loopPc \notin {"next", "handling"} /\ outcome[m] = "none"
        /\ \A n \in Senders \ {m} : sendPc[n] \notin {"preparing", "prepared", "queued", "sending"}
    BY <2>1, NothingPending DEF DeliveryInv, MessageInv
  <2>3. AnswerInv' /\ MethodInv'
    BY <2>1, <2>2 DEF DeliveryInv, AnswerInv, MethodInv
  <2>4. MessageInv' /\ NoFalseExpiry'
    BY <1>0, <1>00, <2>1, <2>2 DEF DeliveryInv, MessageInv, NoFalseExpiry
  <2>5. OneUnsettled'
    BY <1>00, <2>1 DEF DeliveryInv, MessageInv, OneUnsettled, Settled
  <2>6. BlockInv'
    BY <1>0, <1>00, <2>1, <2>2 DEF DeliveryInv, BlockInv, Beyond
  <2> QED
    BY <2>3, <2>4, <2>5, <2>6 DEF DeliveryInv
<1>5. CASE SendToFreed(m)
  <2>1. /\ UNCHANGED <<loopVars, stopPc, response, worldVars>> /\ sendPc[m] = "queued"
        /\ sendPc' = [sendPc EXCEPT ![m] = "failed"]
    BY <1>5 DEF SendToFreed
  <2>2. MessageInv' /\ AnswerInv' /\ MethodInv' /\ NoFalseExpiry'
    BY <1>00, <2>1 DEF DeliveryInv, MessageInv, AnswerInv, MethodInv, NoFalseExpiry
  <2>3. OneUnsettled'
    BY <1>00, <2>1 DEF DeliveryInv, MessageInv, OneUnsettled, Settled
  <2>4. BlockInv'
    BY <1>00, <2>1 DEF DeliveryInv, BlockInv, Beyond
  <2> QED
    BY <2>2, <2>3, <2>4 DEF DeliveryInv
<1>6. CASE Sent(m)
  <2>1. /\ UNCHANGED <<isRunning, blockVars, loopPc, stopPc, response, worldVars>>
        /\ sendPc[m] = "sending" /\ sendPc' = [sendPc EXCEPT ![m] = "sent"]
    BY <1>6 DEF Sent
  <2>2. m \in pending /\ outcome[m] = "none"
    BY <2>1 DEF DeliveryInv, MessageInv
  <2>3. MessageInv' /\ AnswerInv' /\ MethodInv' /\ NoFalseExpiry'
    BY <1>00, <2>1 DEF DeliveryInv, MessageInv, AnswerInv, MethodInv, NoFalseExpiry
  <2>4. OneUnsettled'
    BY <1>00, <2>1, <2>2 DEF DeliveryInv, OneUnsettled, Settled
  <2>5. BlockInv'
    BY <1>00, <2>1, <2>2 DEF DeliveryInv, BlockInv, Beyond
  <2> QED
    BY <2>3, <2>4, <2>5 DEF DeliveryInv
<1>7. CASE SendFails(m)
  <2>1. /\ UNCHANGED <<loopVars, stopPc, response, chainVars, outcome>>
        /\ sendPc[m] = "sending" /\ sendPc' = [sendPc EXCEPT ![m] = "failed"]
        /\ pending' = pending \ {m}
    BY <1>7 DEF SendFails
  <2>2. currentPollingMethod = "manual" /\ outcome[m] = "none"
    BY <1>0, <2>1 DEF DeliveryInv, MethodInv, MessageInv
  <2>3. MessageInv' /\ AnswerInv' /\ MethodInv' /\ NoFalseExpiry'
    BY <1>00, <2>1, <2>2 DEF DeliveryInv, MessageInv, AnswerInv, MethodInv, NoFalseExpiry
  <2>4. OneUnsettled'
    BY <1>00, <2>1 DEF DeliveryInv, MessageInv, OneUnsettled, Settled
  <2>5. BlockInv'
    BY <1>00, <2>1 DEF DeliveryInv, BlockInv, Beyond
  <2> QED
    BY <2>3, <2>4, <2>5 DEF DeliveryInv
<1> QED
  BY <1>1, <1>2, <1>3, <1>4, <1>5, <1>6, <1>7 DEF SendStep

(* ... and those of the chain: what a new block includes comes after the     *)
(* blocks that the loop has seen.                                            *)
LEMMA ChainDelivers ==
  ASSUME IInv, DeliveryInv, NewBlock
  PROVE  DeliveryInv'
<1>1. /\ head \in Blocks /\ Blocks \subseteq Nat /\ None \notin Nat
      /\ landed \in [Senders -> OptionalBlock] /\ pending \subseteq Senders
      /\ deadline \in [Senders -> Nat \cup {None}]
      /\ \A m \in Senders : landed[m] # None => landed[m] \in Nat
  BY ConstantsAssumption DEF IInv, TypeOK, ChainTypes, Blocks, OptionalBlock, ConstantsAssumption
<1>2. UNCHANGED <<sendPc, loopVars, stopPc, response, deadline, messageVars>> /\ head' = head + 1
  BY DEF NewBlock
<1>3. PICK included \in SUBSET {m \in Senders : deadline[m] # None /\ landed[m] = None} :
         /\ \A m \in included : head + 1 <= deadline[m]
         /\ landed' = [m \in Senders |-> IF m \in included THEN head + 1 ELSE landed[m]]
  BY DEF NewBlock
<1>4. \A m \in Senders : \/ landed'[m] = landed[m]
                         \/ /\ landed[m] = None /\ landed'[m] = head + 1
                            /\ deadline[m] # None /\ head + 1 <= deadline[m]
  BY <1>3
<1>5. \A m \in Senders : outcome[m] = "expired" => landed'[m] = landed[m]
  BY <1>1, <1>4 DEF DeliveryInv, MessageInv
<1>6. AnswerInv' /\ MethodInv' /\ OneUnsettled' /\ NoFalseExpiry'
  <2>1. AnswerInv'
    <3>1. \A b \in Blocks : b <= head => b <= head'
      BY <1>1, <1>2
    <3> QED
      BY <1>2, <3>1 DEF DeliveryInv, AnswerInv, loopVars, blockVars
  <2>2. MethodInv' /\ OneUnsettled' /\ NoFalseExpiry'
    BY <1>2, <1>5 DEF DeliveryInv, MethodInv, OneUnsettled, Settled, NoFalseExpiry, loopVars,
       blockVars, messageVars
  <2> QED
    BY <2>1, <2>2
<1>7. MessageInv'
  <2> SUFFICES ASSUME NEW m \in Senders PROVE MessageInv!(m)'
    BY DEF MessageInv
  <2> QED
    BY <1>1, <1>2, <1>4 DEF DeliveryInv, MessageInv, messageVars
<1>8. BlockInv'
  <2> SUFFICES ASSUME NEW m \in Senders PROVE BlockInv!(m)'
    BY DEF BlockInv
  <2>1. \A b \in Blocks : b <= head /\ Beyond(m, b) => landed'[m] = None \/ landed'[m] > b
    BY <1>1, <1>4 DEF Beyond
  <2>2. \A b \in Blocks : b <= head => b <= head'
    BY <1>1, <1>2
  <2>3. sendPc'[m] = "prepared" => response'[m] \in Blocks /\ response'[m] <= head'
    BY <1>2, <2>2 DEF DeliveryInv, BlockInv
  <2>4. loopPc' \in {"next", "handling"} /\ m \in pending' => Beyond(m, currentBlockId)'
    BY <1>2, <2>1 DEF DeliveryInv, BlockInv, AnswerInv, Beyond, loopVars, blockVars, messageVars
  <2>5. /\ ~Simple /\ currentPollingMethod' = "manual" /\ stopPc' # "stopped"
        /\ sendPc'[m] \in {"queued", "sending"} \/ m \in pending'
        => /\ suggestedBlockId' \in Blocks /\ suggestedBlockId' <= head'
           /\ Beyond(m, suggestedBlockId)'
    BY <1>2, <2>1, <2>2 DEF DeliveryInv, BlockInv, Beyond, loopVars, blockVars, messageVars
  <2> QED
    BY <2>3, <2>4, <2>5
<1> QED
  BY <1>6, <1>7, <1>8 DEF DeliveryInv

(* Where messages do not overlap the loop misses no block that could include *)
(* the one that it waits for.                                                 *)
THEOREM DeliveryInvariant == ASSUME ~Concurrent PROVE Spec => []DeliveryInv
<1>1. IInv /\ DeliveryInv /\ [Next]_vars => DeliveryInv'
  <2> SUFFICES ASSUME IInv, DeliveryInv, [Next]_vars PROVE DeliveryInv'
    OBVIOUS
  <2>1. CASE UNCHANGED vars
    BY <2>1 DEF DeliveryInv, MessageInv, AnswerInv, OneUnsettled, Settled, MethodInv, BlockInv,
       Beyond, NoFalseExpiry, vars, loopVars, blockVars, worldVars, chainVars, messageVars
  <2> QED
    BY <2>1, LoopDelivers, StopDelivers, SendDelivers, ChainDelivers DEF Next
<1> QED
  BY <1>1, InitDelivery, Invariant, PTL DEF Spec

(* No message that a block includes is ever reported expired, for any        *)
(* senders that send in turn, any chain and any failures of requests: the    *)
(* loop goes on from the block that was the latest before the message was    *)
(* sent, and a failed iteration handles its block again.                     *)
THEOREM NoneExpiresFalsely == ASSUME ~Concurrent PROVE Spec => []NoFalseExpiry
<1>1. DeliveryInv => NoFalseExpiry
  BY DEF DeliveryInv
<1> QED
  BY <1>1, DeliveryInvariant, PTL

(* What MessageDelivery sees of the messages. *)
Status(m) == IF outcome[m] # "none" THEN outcome[m]
             ELSE IF m \in pending THEN "pending"
             ELSE IF sendPc[m] = "failed" THEN "failed"
             ELSE "new"

(* What changes the status of no message and includes none is no step of it. *)
LEMMA SameStatus ==
  ASSUME \A m \in Senders : Status(m)' = Status(m), landed' = landed
  PROVE  UNCHANGED Delivery!vars
  BY DEF Status, Delivery!vars

(* A change of the status of one message is a step of it. *)
LEMMA OneStatus ==
  ASSUME NEW m \in Senders, NEW before, NEW after, landed' = landed,
         Status(m) = before, Status(m)' = after,
         \A n \in Senders \ {m} : Status(n)' = Status(n),
         \/ before = "new" /\ after = "pending"
         \/ before \in {"new", "pending"} /\ after = "failed"
  PROVE  Delivery!Next
<1>1. CASE before = "new" /\ after = "pending"
  <2>1. Delivery!Register(m)
    BY <1>1 DEF Status, Delivery!Register
  <2> QED
    BY <2>1 DEF Delivery!Next
<1>2. CASE before \in {"new", "pending"} /\ after = "failed"
  <2>1. Delivery!Fail(m)
    BY <1>2 DEF Status, Delivery!Fail
  <2> QED
    BY <2>1 DEF Delivery!Next
<1> QED
  BY <1>1, <1>2

(* A report on messages that are waited for is a step of it. *)
LEMMA ManyStatuses ==
  ASSUME NEW sent \in SUBSET Senders, NEW expired \in SUBSET Senders, landed' = landed,
         \A m \in sent : Status(m) = "pending" /\ landed[m] # None,
         \A m \in expired : Status(m) = "pending" /\ landed[m] = None,
         \A m \in Senders : Status(m)' = IF m \in sent THEN "sent"
                                         ELSE IF m \in expired THEN "expired"
                                         ELSE Status(m)
  PROVE  Delivery!Next
<1>1. Delivery!Report(sent, expired)
  BY DEF Status, Delivery!Report
<1> QED
  BY <1>1 DEF Delivery!Next

(* What the contract observes is one report of it. *)
LEMMA ObservedIsReported ==
  ASSUME IInv, DeliveryInv, NoFalseExpiry', NEW blocks, NEW last, blocks \subseteq Nat,
         Observe(blocks, last), UNCHANGED <<sendPc, chainVars>>
  PROVE  Delivery!Next
<1> DEFINE found == {m \in pending : landed[m] \in blocks}
           expired == {m \in pending \ found : last > deadline[m]}
<1>1. /\ pending' = pending \ (found \cup expired)
      /\ outcome' = [m \in Senders |-> IF m \in found THEN "sent"
                                       ELSE IF m \in expired THEN "expired"
                                       ELSE outcome[m]]
      /\ found \subseteq pending /\ expired \subseteq pending /\ pending \subseteq Senders
      /\ UNCHANGED <<sendPc, landed>>
  BY DEF Observe, chainVars, IInv, TypeOK, ChainTypes
<1>2. \A m \in found : landed[m] # None
  BY ConstantsAssumption DEF ConstantsAssumption
<1> HIDE DEF found, expired
<1>3. \A m \in expired : m \notin found => landed[m] = None
  BY <1>1 DEF NoFalseExpiry
<1>4. \A m \in expired : m \notin found
  BY DEF expired
<1>5. \A m \in pending : Status(m) = "pending"
  BY <1>1 DEF DeliveryInv, MessageInv, Status
<1>6. \A m \in Senders : Status(m)' = IF m \in found THEN "sent"
                                     ELSE IF m \in expired THEN "expired"
                                     ELSE Status(m)
  BY <1>1 DEF Status
<1>7. found \in SUBSET Senders /\ expired \in SUBSET Senders
  BY <1>1
<1> QED
  BY <1>1, <1>2, <1>3, <1>4, <1>5, <1>6, <1>7, ManyStatuses

(* A new block includes only messages that have left and have not expired. *)
LEMMA BlockIncludes ==
  ASSUME IInv, DeliveryInv, NewBlock
  PROVE  Delivery!Next
<1>1. /\ head \in Nat /\ None \notin Nat /\ UNCHANGED <<sendPc, messageVars>>
      /\ deadline \in [Senders -> Nat \cup {None}] /\ pending \subseteq Senders
      /\ outcome \in [Senders -> {"none", "sent", "expired"}]
  BY ConstantsAssumption DEF IInv, TypeOK, ChainTypes, Blocks, ConstantsAssumption, NewBlock
<1>2. PICK included \in SUBSET {m \in Senders : deadline[m] # None /\ landed[m] = None} :
         /\ \A m \in included : head + 1 <= deadline[m]
         /\ landed' = [m \in Senders |-> IF m \in included THEN head + 1 ELSE landed[m]]
  BY DEF NewBlock
<1>3. head + 1 # None
  BY <1>1
<1>4. {m \in Senders : landed'[m] # None} = {m \in Senders : landed[m] # None} \cup included
  BY <1>2, <1>3
<1>5. \A m \in included : Status(m) \notin {"new", "expired"}
  <2> SUFFICES ASSUME NEW m \in included PROVE Status(m) \notin {"new", "expired"}
    OBVIOUS
  <2>1. m \in Senders /\ deadline[m] \in Nat /\ head + 1 <= deadline[m]
    BY <1>1, <1>2
  <2>2. outcome[m] # "expired"
    BY <1>1, <2>1 DEF DeliveryInv, MessageInv
  <2> QED
    BY <1>1, <2>1, <2>2 DEF DeliveryInv, MessageInv, Status
<1>6. \A m \in Senders : Status(m)' = Status(m)
  BY <1>1 DEF Status, messageVars
<1>7. Delivery!Include(included)
  BY <1>4, <1>5, <1>6 DEF Status, Delivery!Include
<1>8. included \in SUBSET Senders
  BY <1>2
<1> QED
  BY <1>7, <1>8 DEF Delivery!Next

(* Each step is one that MessageDelivery allows, or none to it. *)
LEMMA NextDelivers ==
  ASSUME IInv, DeliveryInv, DeliveryInv', [Next]_vars
  PROVE  Delivery!Next \/ UNCHANGED Delivery!vars
<1> USE DEF worldVars, chainVars, messageVars
<1>1. ASSUME UNCHANGED <<sendPc, worldVars>> PROVE UNCHANGED Delivery!vars
  BY <1>1, SameStatus DEF Status
<1>2. CASE Start \/ FireTimer \/ AfterTimer \/ ReadAccount \/ WaitForNextBlock
           \/ BlockRequestFails \/ IterationFails \/ Stop \/ StopStep \/ UNCHANGED vars
  BY <1>1, <1>2 DEF Start, FireTimer, AfterTimer, ReadAccount, WaitForNextBlock,
     BlockRequestFails, IterationFails, Stop, StopStep, AwaitLoop, FinishStop, vars
<1>3. CASE Refresh \/ HandleBlock
  <2>1. response[Loop] \in Nat /\ NoFalseExpiry' /\ UNCHANGED <<sendPc, chainVars>>
    BY <1>3, ConstantsAssumption DEF ConstantsAssumption, DeliveryInv, AnswerInv, Blocks, Refresh,
       HandleBlock
  <2>2. \E blocks \in SUBSET Nat : Observe(blocks, response[Loop])
    <3>1. 0..response[Loop] \subseteq Nat /\ {response[Loop]} \subseteq Nat
      BY <2>1
    <3> QED
      BY <1>3, <3>1 DEF Refresh, HandleBlock
  <2> QED
    BY <2>1, <2>2, ObservedIsReported
<1>4. ASSUME NEW m \in Senders, Prepare(m) \/ SendStep(m)
      PROVE  Delivery!Next \/ UNCHANGED Delivery!vars
  <2>0. /\ sendPc \in [Senders -> {"idle", "preparing", "prepared", "queued", "sending", "sent",
                                    "failed"}]
        /\ pending \subseteq Senders
    BY DEF IInv, TypeOK, ProcessTypes, ChainTypes
  <2>1. CASE Prepare(m) \/ AskLatestBlock(m) \/ SuggestBlock(m) \/ Sent(m)
    <3>1. /\ UNCHANGED worldVars /\ \A n \in Senders \ {m} : sendPc'[n] = sendPc[n]
          /\ sendPc[m] # "failed" /\ sendPc'[m] # "failed"
      BY <2>0, <2>1 DEF Prepare, AskLatestBlock, SuggestBlock, Sent
    <3>2. \A n \in Senders : Status(n)' = Status(n)
      BY <3>1 DEF Status
    <3> QED
      BY <3>1, <3>2, SameStatus
  <2>2. CASE PrepareFails(m) \/ SendToFreed(m)
    <3>1. /\ UNCHANGED worldVars /\ sendPc' = [sendPc EXCEPT ![m] = "failed"]
          /\ sendPc[m] \in {"preparing", "queued"}
      BY <2>2 DEF PrepareFails, SendToFreed
    <3>2. /\ Status(m) = "new" /\ Status(m)' = "failed"
          /\ \A n \in Senders \ {m} : Status(n)' = Status(n)
      BY <2>0, <3>1 DEF DeliveryInv, MessageInv, Status
    <3> QED
      BY <3>1, <3>2, OneStatus
  <2>3. CASE Send(m)
    <3>1. /\ UNCHANGED <<landed, outcome>> /\ pending' = pending \cup {m} /\ sendPc[m] = "queued"
          /\ sendPc' = [sendPc EXCEPT ![m] = "sending"]
      BY <2>3 DEF Send
    <3>2. /\ Status(m) = "new" /\ Status(m)' = "pending"
          /\ \A n \in Senders \ {m} : Status(n)' = Status(n)
      BY <2>0, <3>1 DEF DeliveryInv, MessageInv, Status
    <3> QED
      BY <3>1, <3>2, OneStatus
  <2>4. CASE SendFails(m)
    <3>1. /\ UNCHANGED <<landed, outcome>> /\ pending' = pending \ {m} /\ sendPc[m] = "sending"
          /\ sendPc' = [sendPc EXCEPT ![m] = "failed"]
      BY <2>4 DEF SendFails
    <3>2. /\ Status(m) = "pending" /\ Status(m)' = "failed"
          /\ \A n \in Senders \ {m} : Status(n)' = Status(n)
      BY <2>0, <3>1 DEF DeliveryInv, MessageInv, Status
    <3> QED
      BY <3>1, <3>2, OneStatus
  <2> QED
    BY <1>4, <2>1, <2>2, <2>3, <2>4 DEF SendStep
<1>5. CASE NewBlock
  BY <1>5, BlockIncludes
<1> QED
  BY <1>2, <1>3, <1>4, <1>5 DEF Next, LoopStep

(* Where messages do not overlap a contract subscription is a               *)
(* MessageDelivery to its senders: it reports a message once, sent when a    *)
(* block includes it, and expired when none does or ever will.               *)
THEOREM Delivers == ASSUME ~Concurrent PROVE Spec => DeliversMessages
<1>1. Init => Delivery!Init
  BY DEF Init, Delivery!Init
<1>2. IInv /\ DeliveryInv /\ DeliveryInv' /\ [Next]_vars => [Delivery!Next]_(Delivery!vars)
  BY NextDelivers
<1> QED
  BY Invariant, DeliveryInvariant, <1>1, <1>2, PTL DEF Spec, DeliversMessages, Delivery!Spec

=============================================================================
