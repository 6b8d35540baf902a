---------------------- MODULE ConnectionControllerProofs ----------------------
(***************************************************************************)
(* What holds of the connection controller for every set of users,         *)
(* switchers and networks: types, the mutual exclusion of switches, and    *)
(* that the users of the connection are counted and share one turn of the  *)
(* mutex.  The conjunction of the four is inductive.  With storage that    *)
(* does not fail, the records of the network agree between switches.       *)
(***************************************************************************)
EXTENDS ConnectionController, FiniteSetTheorems, SequenceTheorems, TLAPS

IInv == TypeOK /\ SwitcherOwnsMutex /\ UsersShareOneTurn /\ UsersAreCounted

(***************************************************************************)
(* The queue of the mutex.                                                 *)
(***************************************************************************)

(* Appending a process leaves the places of the others as they were. *)
LEMMA QueueAppend ==
  ASSUME MutexTypes, NEW p \in Users \cup Switchers,
         networkMutex' = Append(networkMutex, p)
  PROVE  /\ networkMutex' \in Seq(Users \cup Switchers)
         /\ Len(networkMutex) \in Nat
         /\ Len(networkMutex') = Len(networkMutex) + 1
         /\ networkMutex'[Len(networkMutex) + 1] = p
         /\ \A i \in 1..Len(networkMutex) : networkMutex'[i] = networkMutex[i]
  BY AppendProperties, LenProperties DEF MutexTypes

(* Giving the mutex back moves every other process one place up. *)
LEMMA QueueTail ==
  ASSUME MutexTypes, networkMutex # <<>>, GiveMutexBack
  PROVE  /\ networkMutex' \in Seq(Users \cup Switchers)
         /\ Len(networkMutex) \in Nat \ {0}
         /\ Len(networkMutex') = Len(networkMutex) - 1
         /\ \A i \in 1..Len(networkMutex') : networkMutex'[i] = networkMutex[i + 1]
  BY HeadTailProperties, LenProperties, EmptySeq DEF MutexTypes, GiveMutexBack

(***************************************************************************)
(* Types.                                                                  *)
(***************************************************************************)

(* The controller starts with values of its types. *)
LEMMA InitTypes == Init => TypeOK
<1> USE ConstantsAssumption DEF ConstantsAssumption, OptionalNetwork
<1>1. Init => ConnTypes
  BY DEF Init, ConnTypes
<1>2. Init => MutexTypes
  BY DEF Init, MutexTypes
<1>3. Init => UserTypes
  BY DEF Init, UserTypes
<1>4. Init => SwitchTypes
  BY DEF Init, SwitchTypes
<1> QED
  BY <1>1, <1>2, <1>3, <1>4 DEF TypeOK

(* Every step keeps the types. *)
LEMMA StepTypes == IInv /\ [Next]_vars => TypeOK'
<1> SUFFICES ASSUME IInv, [Next]_vars PROVE TypeOK'
  OBVIOUS
<1> USE ConstantsAssumption DEF ConstantsAssumption, OptionalNetwork, TypeOK
<1>0. TypeOK /\ SwitcherOwnsMutex /\ UsersShareOneTurn
  BY DEF IInv
<1>1. ASSUME NEW u \in Users, NEW kind \in {"use", "acquire"}, Acquire(u, kind)
      PROVE  TypeOK'
  <2>1. MutexTypes'
    BY <1>0, <1>1, QueueAppend DEF Acquire, CountUser, MutexTypes
  <2>2. ConnTypes' /\ UserTypes' /\ SwitchTypes'
    BY <1>0, <1>1 DEF Acquire, ConnTypes, UserTypes, SwitchTypes, connVars, switchVars
  <2> QED
    BY <2>1, <2>2
<1>2. ASSUME NEW u \in Users, AcquireMutex(u) PROVE TypeOK'
  BY <1>0, <1>2 DEF AcquireMutex, ReadConnection, connVars, switchVars, ConnTypes,
       MutexTypes, UserTypes, SwitchTypes
<1>3. ASSUME NEW u \in Users, PassMutex(u) PROVE TypeOK'
  BY <1>0, <1>3 DEF PassMutex, ReadConnection, connVars, mutexVars, switchVars,
       ConnTypes, MutexTypes, UserTypes, SwitchTypes
<1>4. ASSUME NEW u \in Users, Release(u) PROVE TypeOK'
  <2>1. release # None => networkMutex # <<>>
    BY <1>0, EmptySeq DEF UsersShareOneTurn, QueuedUsers, MutexTypes
  <2>2. networkMutex' \in Seq(Users \cup Switchers)
    BY <1>0, <1>4, <2>1, QueueTail DEF Release, MutexTypes
  <2>3. acquiredConnectionCounter # 0
    <3>1. u \in Counted
      BY <1>4 DEF Release, Counted
    <3>2. IsFiniteSet(Counted)
      BY FS_Subset DEF Counted
    <3> QED
      BY <3>1, <3>2, FS_EmptySet DEF IInv, UsersAreCounted
  <2>4. MutexTypes'
    BY <1>0, <1>4, <2>2, <2>3 DEF Release, MutexTypes
  <2>5. ConnTypes' /\ UserTypes' /\ SwitchTypes'
    BY <1>0, <1>4 DEF Release, ConnTypes, UserTypes, SwitchTypes, connVars, switchVars
  <2> QED
    BY <2>4, <2>5
<1>5. CASE InitialSync
  <2>1. MutexTypes'
    BY <1>0, <1>5, QueueAppend DEF InitialSync, StartSwitching, MutexTypes
  <2>2. ConnTypes'
    BY <1>0, <1>5 DEF InitialSync, StartSwitching, LoadedConnection, ConnTypes
  <2>3. UserTypes' /\ SwitchTypes'
    BY <1>0, <1>5 DEF InitialSync, StartSwitching, LoadedConnection, OthersOfGroup,
         ConnTypes, UserTypes, SwitchTypes, userVars
  <2> QED
    BY <2>1, <2>2, <2>3
<1>6. ASSUME NEW s \in Switchers, NEW first \in Networks, TrySwitching(s, first)
      PROVE  TypeOK'
  <2>1. MutexTypes'
    BY <1>0, <1>6, QueueAppend DEF TrySwitching, StartSwitching, MutexTypes
  <2>2. ConnTypes' /\ UserTypes' /\ SwitchTypes'
    BY <1>0, <1>6 DEF TrySwitching, StartSwitching, OthersOfGroup, ConnTypes,
         UserTypes, SwitchTypes, connVars, userVars
  <2> QED
    BY <2>1, <2>2
<1>7. ASSUME NEW s \in Switchers, SwitchStep(s) PROVE TypeOK'
  <2> USE DEF connVars, mutexVars, userVars, switchVars
  <2>1. CASE CreateHandle(s)
    BY <1>0, <2>1 DEF CreateHandle, ConnTypes, MutexTypes, UserTypes, SwitchTypes
  <2>2. CASE FreeConnection(s)
    BY <1>0, <2>2 DEF FreeConnection, ConnTypes, MutexTypes, UserTypes, SwitchTypes
  <2>3. CASE OpenTransport(s)
    <3>1. ConnTypes' /\ MutexTypes'
      BY <1>0, <2>3 DEF OpenTransport, ConnTypes, MutexTypes
    <3>2. UserTypes' /\ SwitchTypes'
      BY <1>0, <2>3 DEF OpenTransport, UserTypes, SwitchTypes
    <3> QED
      BY <3>1, <3>2
  <2>4. CASE SettleTest(s)
    BY <1>0, <2>4 DEF SettleTest, ConnTypes, MutexTypes, UserTypes, SwitchTypes
  <2>5. CASE UseTested(s)
    BY <1>0, <2>5 DEF UseTested, ConnTypes, MutexTypes, UserTypes, SwitchTypes
  <2>6. CASE CancelledTest(s) \/ SaveSelected(s)
    <3>1. networkMutex # <<>> /\ candidate[s] \in Networks
      BY <1>0, <2>6 DEF CancelledTest, SaveSelected, SwitcherOwnsMutex, Switching,
           Owns, SwitchTypes
    <3>2. MutexTypes'
      BY <1>0, <2>6, <3>1, QueueTail DEF CancelledTest, SaveSelected, SwitchSucceeds,
           MutexTypes
    <3>3. ConnTypes'
      BY <1>0, <2>6, <3>1 DEF CancelledTest, SaveSelected, SwitchSucceeds,
           SelectCandidate, ConnTypes
    <3>4. UserTypes' /\ SwitchTypes'
      BY <1>0, <2>6 DEF CancelledTest, SaveSelected, SwitchSucceeds, UserTypes,
           SwitchTypes
    <3> QED
      BY <3>2, <3>3, <3>4
  <2>7. CASE SwitchFails(s)
    <3>1. networkMutex # <<>>
      BY <1>0, <2>7 DEF SwitchFails, SwitcherOwnsMutex, Switching, Owns
    <3>2. MutexTypes'
      BY <1>0, <2>7, <3>1, QueueTail DEF SwitchFails, MutexTypes
    <3>3. ConnTypes'
      BY <1>0, <2>7 DEF SwitchFails, ClearPending, ConnTypes
    <3>4. UserTypes' /\ SwitchTypes'
      BY <1>0, <2>7 DEF SwitchFails, UserTypes, SwitchTypes
    <3> QED
      BY <3>2, <3>3, <3>4
  <2>8. CASE TryNext(s)
    <3>1. MutexTypes'
      BY <1>0, <2>8, QueueAppend DEF TryNext, StartSwitching, MutexTypes
    <3>2. ConnTypes' /\ UserTypes' /\ SwitchTypes'
      BY <1>0, <2>8 DEF TryNext, StartSwitching, ConnTypes, UserTypes, SwitchTypes
    <3> QED
      BY <3>1, <3>2
  <2>9. CASE GiveUp(s)
    BY <1>0, <2>9 DEF GiveUp, ConnTypes, MutexTypes, UserTypes, SwitchTypes
  <2> QED
    BY <1>7, <2>1, <2>2, <2>3, <2>4, <2>5, <2>6, <2>7, <2>8, <2>9 DEF SwitchStep
<1>8. CASE Restart
  <2>1. ConnTypes'
    BY <1>0, <1>8 DEF Restart, ConnTypes
  <2>2. MutexTypes'
    BY <1>8, EmptySeq DEF Restart, MutexTypes
  <2>3. UserTypes'
    BY <1>8 DEF Restart, UserTypes
  <2>4. SwitchTypes'
    BY <1>8 DEF Restart, SwitchTypes
  <2> QED
    BY <2>1, <2>2, <2>3, <2>4
<1>9. CASE UNCHANGED vars
  BY <1>0, <1>9 DEF vars, connVars, mutexVars, userVars, switchVars, ConnTypes,
       MutexTypes, UserTypes, SwitchTypes
<1> QED
  BY <1>1, <1>2, <1>3, <1>4, <1>5, <1>6, <1>7, <1>8, <1>9 DEF Next, UserStep

(***************************************************************************)
(* Switches exclude each other and the users that hold the mutex.          *)
(***************************************************************************)

(* Every step leaves the mutex with the switch that is under way. *)
LEMMA StepOwner == IInv /\ [Next]_vars => SwitcherOwnsMutex'
<1> SUFFICES ASSUME IInv, [Next]_vars PROVE SwitcherOwnsMutex'
  OBVIOUS
<1> USE DEF SwitcherOwnsMutex, Switching, Owns
<1>0. MutexTypes /\ UserTypes /\ SwitchTypes /\ SwitcherOwnsMutex /\ UsersShareOneTurn
  BY DEF IInv, TypeOK
<1>1. ASSUME NEW s \in Switchers, StartSwitching(s) PROVE SwitcherOwnsMutex'
  BY <1>0, <1>1, QueueAppend DEF StartSwitching, SwitchTypes
<1>2. ASSUME NEW s \in Switchers, Switching(s), GiveMutexBack,
             \/ switchPc' = [switchPc EXCEPT ![s] = "idle"]
             \/ switchPc' = [switchPc EXCEPT ![s] = "next"]
      PROVE  SwitcherOwnsMutex'
  <2>1. \A t \in Switchers \ {s} : ~Switching(t)
    BY <1>0, <1>2
  <2> QED
    BY <1>0, <1>2, <2>1 DEF SwitchTypes
<1>3. ASSUME NEW u \in Users, NEW kind \in {"use", "acquire"}, Acquire(u, kind)
      PROVE  SwitcherOwnsMutex'
  BY <1>0, <1>3, QueueAppend DEF Acquire, switchVars
<1>4. ASSUME NEW u \in Users, UserStep(u) PROVE SwitcherOwnsMutex'
  BY <1>0, <1>4 DEF UserStep, AcquireMutex, PassMutex, mutexVars, switchVars
<1>5. ASSUME NEW u \in Users, Release(u) PROVE SwitcherOwnsMutex'
  <2>1. CASE networkMutex' = networkMutex
    BY <1>0, <1>5, <2>1 DEF Release, switchVars
  <2>2. CASE release # None
    <3>1. networkMutex[1] \notin Switchers
      BY <1>0, <2>2, ConstantsAssumption
         DEF ConstantsAssumption, UsersShareOneTurn, QueuedUsers
    <3> QED
      BY <1>0, <1>5, <3>1 DEF Release, switchVars
  <2> QED
    BY <1>5, <2>1, <2>2 DEF Release
<1>6. ASSUME NEW s \in Switchers, SwitchStep(s) PROVE SwitcherOwnsMutex'
  <2>1. CASE TryNext(s)
    BY <1>1, <2>1 DEF TryNext
  <2>2. CASE CancelledTest(s) \/ SaveSelected(s) \/ SwitchFails(s)
    BY <1>2, <2>2 DEF CancelledTest, SaveSelected, SwitchFails, SwitchSucceeds
  <2>3. CASE CreateHandle(s) \/ FreeConnection(s) \/ OpenTransport(s) \/ UseTested(s)
    BY <1>0, <2>3 DEF CreateHandle, FreeConnection, OpenTransport, UseTested,
         mutexVars, SwitchTypes
  <2>4. CASE SettleTest(s) \/ GiveUp(s)
    BY <1>0, <2>4 DEF SettleTest, GiveUp, mutexVars, switchVars, SwitchTypes
  <2> QED
    BY <1>6, <2>1, <2>2, <2>3, <2>4 DEF SwitchStep
<1>7. CASE Restart
  BY <1>7 DEF Restart
<1>8. CASE UNCHANGED vars
  BY <1>0, <1>8 DEF vars, mutexVars, switchVars
<1> QED
  BY <1>1, <1>3, <1>4, <1>5, <1>6, <1>7, <1>8, ConstantsAssumption
     DEF Next, InitialSync, TrySwitching, ConstantsAssumption

(***************************************************************************)
(* The users are counted.                                                  *)
(***************************************************************************)

(* Every step counts each call that begins or ends. *)
LEMMA StepCounted == IInv /\ [Next]_vars => UsersAreCounted'
<1> SUFFICES ASSUME IInv, [Next]_vars PROVE UsersAreCounted'
  OBVIOUS
<1>0. UserTypes /\ MutexTypes /\ UsersAreCounted
  BY DEF IInv, TypeOK
<1>1. IsFiniteSet(Counted) /\ Cardinality(Counted) = acquiredConnectionCounter
  BY <1>0, FS_Subset, ConstantsAssumption DEF ConstantsAssumption, Counted,
     UsersAreCounted
<1>2. ASSUME NEW u \in Users, NEW kind \in {"use", "acquire"}, Acquire(u, kind)
      PROVE  UsersAreCounted'
  <2>1. u \notin Counted /\ Counted' = Counted \cup {u}
    BY <1>0, <1>2 DEF Acquire, Counted, UserTypes
  <2> QED
    BY <1>0, <1>1, <1>2, <2>1, FS_AddElement DEF Acquire, CountUser, UsersAreCounted
<1>3. ASSUME NEW u \in Users, UserStep(u) PROVE UsersAreCounted'
  <2>1. Counted' = Counted
    BY <1>0, <1>3 DEF UserStep, AcquireMutex, PassMutex, ReadConnection, Counted,
         UserTypes
  <2> QED
    BY <1>0, <1>3, <2>1 DEF UserStep, AcquireMutex, PassMutex, mutexVars,
         UsersAreCounted
<1>4. ASSUME NEW u \in Users, Release(u) PROVE UsersAreCounted'
  <2>1. u \in Counted /\ Counted' = Counted \ {u}
    BY <1>0, <1>4 DEF Release, Counted, UserTypes
  <2> QED
    BY <1>0, <1>1, <1>4, <2>1, FS_RemoveElement DEF Release, UsersAreCounted
<1>5. CASE Restart
  <2>1. Counted' = {}
    BY <1>5 DEF Restart, Counted
  <2> QED
    BY <1>5, <2>1, FS_EmptySet DEF Restart, UsersAreCounted
<1>6. CASE UNCHANGED <<userPc, acquiredConnectionCounter>>
  BY <1>0, <1>6 DEF UsersAreCounted, Counted
<1>7. ASSUME NEW s \in Switchers, SwitchStep(s)
      PROVE  UNCHANGED <<userPc, acquiredConnectionCounter>>
  BY <1>7 DEF SwitchStep, CreateHandle, FreeConnection, OpenTransport, SettleTest,
       UseTested, CancelledTest, SaveSelected, SwitchSucceeds, SwitchFails, TryNext,
       GiveUp, mutexVars, userVars
<1> QED
  BY <1>2, <1>3, <1>4, <1>5, <1>6, <1>7 DEF Next, InitialSync, TrySwitching,
       vars, mutexVars, userVars

(***************************************************************************)
(* The users share one turn of the mutex.                                  *)
(***************************************************************************)

(* Every step leaves the counted users one place in the queue. *)
LEMMA StepTurn == IInv /\ [Next]_vars => UsersShareOneTurn'
<1> SUFFICES ASSUME IInv, [Next]_vars PROVE UsersShareOneTurn'
  OBVIOUS
<1> USE ConstantsAssumption DEF ConstantsAssumption, QueuedUsers
<1>0. MutexTypes /\ UserTypes /\ SwitcherOwnsMutex /\ UsersShareOneTurn
  BY DEF IInv, TypeOK
<1>1. CASE UNCHANGED <<networkMutex, release, acquiredConnectionCounter, userPc>>
  BY <1>0, <1>1 DEF UsersShareOneTurn
<1>2. ASSUME NEW s \in Switchers, StartSwitching(s),
             UNCHANGED <<release, acquiredConnectionCounter, userPc>>
      PROVE  UsersShareOneTurn'
  <2>1. QueuedUsers' = QueuedUsers
    BY <1>0, <1>2, QueueAppend DEF StartSwitching
  <2>2. \A i \in QueuedUsers : networkMutex'[i] = networkMutex[i]
    BY <1>0, <1>2, QueueAppend DEF StartSwitching
  <2> QED
    BY <1>0, <1>2, <2>1, <2>2 DEF UsersShareOneTurn
<1>3. ASSUME NEW s \in Switchers, Switching(s), GiveMutexBack,
             UNCHANGED <<release, acquiredConnectionCounter, userPc>>
      PROVE  UsersShareOneTurn'
  <2>1. networkMutex # <<>> /\ networkMutex[1] = s
    BY <1>0, <1>3, EmptySeq DEF SwitcherOwnsMutex, Owns
  <2>2. release = None
    BY <1>0, <2>1 DEF UsersShareOneTurn
  <2>3. \A i \in QueuedUsers : i - 1 \in QueuedUsers'
    BY <1>0, <1>3, <2>1, QueueTail
  <2>4. \A i \in QueuedUsers' : i + 1 \in QueuedUsers /\ networkMutex'[i] = networkMutex[i + 1]
    BY <1>0, <1>3, <2>1, QueueTail
  <2> QED
    BY <1>0, <1>3, <2>1, <2>2, <2>3, <2>4 DEF UsersShareOneTurn
<1>4. ASSUME NEW u \in Users, NEW kind \in {"use", "acquire"}, Acquire(u, kind)
      PROVE  UsersShareOneTurn'
  <2>1. CASE acquiredConnectionCounter > 0
    BY <1>0, <1>4, <2>1 DEF Acquire, CountUser, MutexTypes, UserTypes, UsersShareOneTurn
  <2>2. CASE acquiredConnectionCounter = 0
    <3>1. QueuedUsers = {} /\ release = None
      BY <1>0, <2>2 DEF UsersShareOneTurn
    <3>2. networkMutex' = Append(networkMutex, u)
      BY <1>4, <2>2, <3>1 DEF Acquire
    <3>3. QueuedUsers' = {Len(networkMutex) + 1}
      BY <1>0, <3>1, <3>2, QueueAppend
    <3>4. networkMutex'[Len(networkMutex) + 1] = u
      BY <1>0, <3>2, QueueAppend
    <3>5. \A v \in Users : userPc'[v] = "waiting" <=> v = u
      BY <1>0, <1>4, <2>2, <3>1 DEF Acquire, UserTypes, UsersShareOneTurn
    <3> QED
      BY <1>0, <1>4, <2>2, <3>1, <3>3, <3>4, <3>5 DEF Acquire, CountUser, MutexTypes,
         UsersShareOneTurn
  <2> QED
    BY <1>0, <2>1, <2>2 DEF MutexTypes
<1>5. ASSUME NEW u \in Users, AcquireMutex(u) PROVE UsersShareOneTurn'
  <2>1. 1 \in QueuedUsers /\ networkMutex[1] = u
    BY <1>0, <1>5, LenProperties DEF AcquireMutex, Owns, MutexTypes
  <2>2. \A v \in Users : userPc'[v] # "waiting"
    BY <1>0, <1>5, <2>1 DEF AcquireMutex, ReadConnection, UserTypes, UsersShareOneTurn
  <2> QED
    BY <1>0, <1>5, <2>1, <2>2 DEF AcquireMutex, UsersShareOneTurn
<1>6. ASSUME NEW u \in Users, PassMutex(u) PROVE UsersShareOneTurn'
  BY <1>0, <1>6 DEF PassMutex, ReadConnection, mutexVars, UserTypes, UsersShareOneTurn
<1>7. ASSUME NEW u \in Users, Release(u) PROVE UsersShareOneTurn'
  <2>0. \A v \in Users : userPc'[v] = "waiting" <=> userPc[v] = "waiting"
    BY <1>0, <1>7 DEF Release, UserTypes
  <2>1. CASE acquiredConnectionCounter <= 1
    <3>1. Counted = {u}
      <4>1. u \in Counted /\ IsFiniteSet(Counted)
        BY <1>7, FS_Subset DEF Release, Counted
      <4>2. IsFiniteSet(Counted \ {u}) /\
            Cardinality(Counted \ {u}) = acquiredConnectionCounter - 1
        BY <4>1, FS_RemoveElement DEF IInv, UsersAreCounted
      <4>3. Cardinality(Counted \ {u}) = 0
        BY <1>0, <4>2, <2>1, FS_CardinalityType DEF MutexTypes
      <4> QED
        BY <4>1, <4>2, <4>3, FS_EmptySet
    <3>2. acquiredConnectionCounter = 1
      BY <3>1, FS_Singleton DEF IInv, UsersAreCounted
    <3>3. \A v \in Users : userPc[v] # "waiting"
      BY <1>7, <3>1 DEF Counted, Release
    <3>4. release # None /\ QueuedUsers = {1}
      BY <1>0, <3>2, <3>3 DEF UsersShareOneTurn
    <3>5. networkMutex # <<>> /\ GiveMutexBack
      <4>1. 1 \in 1..Len(networkMutex)
        BY <3>4
      <4> QED
        BY <1>7, <2>1, <3>4, <4>1, EmptySeq DEF Release, LastUser
    <3>6. QueuedUsers' = {}
      BY <1>0, <3>4, <3>5, QueueTail
    <3> QED
      BY <1>7, <2>0, <2>1, <3>2, <3>3, <3>6 DEF Release, LastUser, UsersShareOneTurn
  <2>2. CASE acquiredConnectionCounter > 1
    BY <1>0, <1>7, <2>0, <2>2 DEF Release, LastUser, MutexTypes, UsersShareOneTurn
  <2> QED
    BY <1>0, <2>1, <2>2 DEF MutexTypes
<1>8. ASSUME NEW s \in Switchers, SwitchStep(s) PROVE UsersShareOneTurn'
  <2>1. CASE TryNext(s)
    BY <1>2, <2>1 DEF TryNext, userVars
  <2>2. CASE CancelledTest(s) \/ SaveSelected(s) \/ SwitchFails(s)
    BY <1>3, <2>2 DEF CancelledTest, SaveSelected, SwitchFails, SwitchSucceeds,
       Switching, userVars
  <2>3. CASE UNCHANGED <<networkMutex, release, acquiredConnectionCounter, userPc>>
    BY <1>1, <2>3
  <2> QED
    BY <1>8, <2>1, <2>2, <2>3 DEF SwitchStep, CreateHandle, FreeConnection,
       OpenTransport, SettleTest, UseTested, GiveUp, mutexVars, userVars
<1>9. CASE Restart
  BY <1>9, EmptySeq DEF Restart, UsersShareOneTurn
<1> QED
  BY <1>1, <1>2, <1>4, <1>5, <1>6, <1>7, <1>8, <1>9 DEF Next, UserStep, InitialSync,
     TrySwitching, vars, mutexVars, userVars

(***************************************************************************)
(* The network that is shown.                                              *)
(***************************************************************************)

(* A switch first frees the transport, then has none until it sets that of  *)
(* its candidate; outside the three steps in between nothing is left to do.  *)
Connecting(s) == switchPc[s] \in {"connecting", "testing", "saving"}
Agreed ==
    initializedConnection # None =>
        /\ selectedConnection = initializedConnection
        /\ selectedConnectionId = initializedConnection

SettledInv ==
    /\ \A s \in Switchers :
          /\ switchPc[s] \in {"connecting", "testing"} => initializedConnection = None
          /\ switchPc[s] = "saving" => initializedConnection = candidate[s]
    /\ (\A s \in Switchers : ~Connecting(s)) => Agreed

(* A step of a switcher that owns the mutex leaves the others as they are,  *)
(* none of them connecting.                                                  *)
LEMMA OneConnects ==
  ASSUME IInv, NEW s \in Switchers, Switching(s)
  PROVE  \A t \in Switchers \ {s} : ~Connecting(t)
  BY DEF IInv, SwitcherOwnsMutex, Owns, Switching, Connecting

(* A step of a switcher keeps what is known of the network, when storage    *)
(* does not fail.                                                            *)
LEMMA SwitchStepSettles ==
  ASSUME ~SaveMayFail, IInv, SettledInv, NEW s \in Switchers, SwitchStep(s)
  PROVE  SettledInv'
<1> USE DEF Connecting
<1>1. SwitchTypes
  BY DEF IInv, TypeOK
<1>2. CASE CreateHandle(s) \/ SettleTest(s) \/ TryNext(s) \/ GiveUp(s)
  <2>1. UNCHANGED <<initializedConnection, selectedConnection, selectedConnectionId>>
    BY <1>2 DEF CreateHandle, SettleTest, TryNext, GiveUp, connVars
  <2>2. \A t \in Switchers :
          /\ switchPc'[t] = switchPc[t] \/ (~Connecting(t) /\ ~Connecting(t)')
          /\ candidate'[t] = candidate[t] \/ ~Connecting(t)
    BY <1>1, <1>2 DEF CreateHandle, SettleTest, TryNext, GiveUp, SwitchTypes, StartSwitching,
         switchVars
  <2> QED
    BY <2>1, <2>2 DEF SettledInv, Agreed
<1>3. CASE FreeConnection(s)
  <2>1. \A t \in Switchers \ {s} : ~Connecting(t)
    BY <1>3, OneConnects DEF FreeConnection, Switching
  <2> QED
    BY <1>1, <1>3, <2>1 DEF FreeConnection, SettledInv, SwitchTypes
<1>4. CASE OpenTransport(s) \/ UseTested(s)
  <2>1. \A t \in Switchers \ {s} : ~Connecting(t)
    BY <1>4, OneConnects DEF OpenTransport, UseTested, Switching
  <2> QED
    BY <1>1, <1>4, <2>1 DEF OpenTransport, UseTested, SettledInv, SwitchTypes
<1>5. CASE CancelledTest(s)
  <2>1. \A t \in Switchers \ {s} : ~Connecting(t)
    BY <1>5, OneConnects DEF CancelledTest, Switching
  <2>2. initializedConnection' = None
    BY <1>5 DEF CancelledTest, SettledInv
  <2> QED
    BY <1>1, <1>5, <2>1, <2>2 DEF CancelledTest, SwitchSucceeds, SettledInv, SwitchTypes, Agreed
<1>6. CASE SaveSelected(s)
  <2>1. \A t \in Switchers \ {s} : ~Connecting(t)
    BY <1>6, OneConnects DEF SaveSelected, Switching
  <2>2. initializedConnection' = candidate[s] /\ selectedConnection' = candidate[s]
        /\ selectedConnectionId' = candidate[s]
    BY <1>6 DEF SaveSelected, SwitchSucceeds, SelectCandidate, SettledInv
  <2> QED
    BY <1>1, <1>6, <2>1, <2>2 DEF SaveSelected, SwitchSucceeds, SettledInv, SwitchTypes, Agreed
<1>7. CASE SwitchFails(s)
  <2>1. \A t \in Switchers \ {s} : ~Connecting(t)
    BY <1>7, OneConnects DEF SwitchFails, Switching
  <2>2. initializedConnection' = None
    BY <1>7 DEF SwitchFails, SettledInv
  <2> QED
    BY <1>1, <1>7, <2>1, <2>2 DEF SwitchFails, SettledInv, SwitchTypes, Agreed
<1> QED
  BY <1>2, <1>3, <1>4, <1>5, <1>6, <1>7 DEF SwitchStep

(* Every step keeps it: initialSync() selects the network that storage has, *)
(* which a transport that is there already agrees with.                      *)
LEMMA StepSettles ==
  ASSUME ~SaveMayFail
  PROVE  IInv /\ SettledInv /\ [Next]_vars => SettledInv'
<1> SUFFICES ASSUME IInv, SettledInv, [Next]_vars PROVE SettledInv'
  OBVIOUS
<1>0. SwitchTypes
  BY DEF IInv, TypeOK
<1>1. ASSUME UNCHANGED <<connVars, switchPc, candidate>> PROVE SettledInv'
  BY <1>1 DEF SettledInv, Connecting, Agreed, connVars
<1>2. ASSUME NEW u \in Users, NEW kind \in {"use", "acquire"},
             Acquire(u, kind) \/ UserStep(u) \/ Release(u)
      PROVE  SettledInv'
  BY <1>1, <1>2 DEF Acquire, UserStep, AcquireMutex, PassMutex, Release, switchVars
<1>3. ASSUME NEW s \in Switchers, SwitchStep(s) PROVE SettledInv'
  BY <1>3, SwitchStepSettles
<1>4. CASE InitialSync
  <2>1. /\ initializedConnection' = initializedConnection
        /\ selectedConnectionId' = selectedConnectionId
        /\ selectedConnection' = LoadedConnection
    BY <1>4 DEF InitialSync
  <2>2. \A t \in Switchers : /\ Connecting(t)' <=> Connecting(t)
                             /\ Connecting(t) => switchPc'[t] = switchPc[t] /\ candidate'[t] = candidate[t]
    BY <1>0, <1>4, ConstantsAssumption
       DEF ConstantsAssumption, InitialSync, StartSwitching, SwitchTypes, Connecting
  <2>3. Agreed => Agreed'
    BY <2>1 DEF Agreed, LoadedConnection
  <2> QED
    BY <2>1, <2>2, <2>3 DEF SettledInv, Connecting
<1>5. ASSUME NEW s \in Switchers, NEW first \in Networks, TrySwitching(s, first) PROVE SettledInv'
  <2>1. UNCHANGED connVars
    BY <1>5 DEF TrySwitching
  <2>2. \A t \in Switchers : /\ Connecting(t)' <=> Connecting(t)
                             /\ Connecting(t) => switchPc'[t] = switchPc[t] /\ candidate'[t] = candidate[t]
    BY <1>0, <1>5 DEF TrySwitching, StartSwitching, SwitchTypes, Connecting
  <2> QED
    BY <2>1, <2>2 DEF SettledInv, Connecting, Agreed, connVars
<1>6. CASE Restart
  BY <1>6 DEF Restart, SettledInv, Connecting, Agreed
<1>7. CASE UNCHANGED vars
  BY <1>1, <1>7 DEF vars, switchVars
<1> QED
  BY <1>2, <1>3, <1>4, <1>5, <1>6, <1>7 DEF Next

(***************************************************************************)
(* The theorems.                                                           *)
(***************************************************************************)

(* The conjunction of the invariants below is inductive. *)
THEOREM Invariant == Spec => []IInv
<1>1. Init => IInv
  <2>1. ASSUME Init PROVE SwitcherOwnsMutex
    BY <2>1 DEF Init, SwitcherOwnsMutex, Switching
  <2>2. ASSUME Init PROVE UsersShareOneTurn
    BY <2>2, EmptySeq DEF Init, UsersShareOneTurn, QueuedUsers
  <2>3. ASSUME Init PROVE UsersAreCounted
    <3>1. Counted = {}
      BY <2>3 DEF Init, Counted
    <3> QED
      BY <2>3, <3>1, FS_EmptySet DEF Init, UsersAreCounted
  <2> QED
    BY <2>1, <2>2, <2>3, InitTypes DEF IInv
<1>2. IInv /\ [Next]_vars => IInv'
  BY StepTypes, StepOwner, StepTurn, StepCounted DEF IInv
<1> QED
  BY <1>1, <1>2, PTL DEF Spec

(* The variables keep their types. *)
THEOREM TypeCorrect == Spec => []TypeOK
<1>1. IInv => TypeOK
  BY DEF IInv
<1> QED
  BY <1>1, Invariant, PTL

(* No two switches are ever between their handle and their end at once, and *)
(* none is while a user owns the mutex.                                    *)
THEOREM SwitchesExclude == Spec => []SwitcherOwnsMutex
<1>1. IInv => SwitcherOwnsMutex
  BY DEF IInv
<1> QED
  BY <1>1, Invariant, PTL

(* Users have one place in the queue exactly while they are counted, and    *)
(* _release belongs to the user of that place.                             *)
THEOREM OneTurn == Spec => []UsersShareOneTurn
<1>1. IInv => UsersShareOneTurn
  BY DEF IInv
<1> QED
  BY <1>1, Invariant, PTL

(* Every unreleased call of use() and acquire() is counted once. *)
THEOREM Conservation == Spec => []UsersAreCounted
<1>1. IInv => UsersAreCounted
  BY DEF IInv
<1> QED
  BY <1>1, Invariant, PTL

(* No step replaces or frees the transport while a user owns the mutex. *)
THEOREM Kept == Spec => KeptWhileReleaseIsSet
<1>1. IInv /\ [Next]_vars =>
        [release # None /\ release' # None => UNCHANGED initializedConnection]_vars
  <2> SUFFICES ASSUME IInv, Next, release # None, release' # None
               PROVE  UNCHANGED initializedConnection
    OBVIOUS
  <2>1. \A s \in Switchers : ~Switching(s)
    BY ConstantsAssumption DEF ConstantsAssumption, IInv, UsersShareOneTurn,
       QueuedUsers, SwitcherOwnsMutex, Owns
  <2>2. ASSUME NEW s \in Switchers, SwitchStep(s)
        PROVE  UNCHANGED initializedConnection
    BY <2>1, <2>2 DEF Switching, SwitchStep, CreateHandle, FreeConnection,
       OpenTransport, SettleTest, UseTested, CancelledTest, SaveSelected, SwitchFails,
       TryNext, GiveUp, connVars
  <2> QED
    BY <2>2 DEF Next, UserStep, Acquire, AcquireMutex, PassMutex, Release, InitialSync,
       TrySwitching, Restart, connVars
<1> QED
  BY <1>1, Invariant, PTL DEF Spec, KeptWhileReleaseIsSet

(* Between switches a live transport is the network that is shown and the   *)
(* one that a restart loads, whatever the networks, the switches and those   *)
(* of them that fail, as long as storage takes what it is given (_connect,   *)
(* switch()).                                                                *)
THEOREM Settled ==
  ASSUME ~SaveMayFail
  PROVE  Spec => []SettledNetwork
<1>1. Init => SettledInv
  BY DEF Init, SettledInv, Connecting, Agreed
<1>2. IInv /\ SettledInv /\ [Next]_vars => SettledInv'
  BY StepSettles
<1>3. SettledInv => SettledNetwork
  BY DEF SettledInv, SettledNetwork, Connecting, Switching, Agreed
<1> QED
  BY <1>1, <1>2, <1>3, Invariant, PTL DEF Spec
=============================================================================
