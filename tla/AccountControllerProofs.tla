----------------------- MODULE AccountControllerProofs -----------------------
(***************************************************************************)
(* For any accounts, tokens, networks, calls and messages: the accounts    *)
(* mutex has one owner, no running wallet is out of reach, and a message   *)
(* whose sender waits is watched.                                          *)
(***************************************************************************)
EXTENDS AccountController, FifoMutex

Places == CallPlaces \cup {"preparing", "sent"}
InTurn == Queued \cup Owning

(* The types the invariants need. *)
Types ==
    /\ TurnTypes /\ WalletTypes /\ op \in Workloads
    /\ todo \in [Calls -> SUBSET Wallet] /\ creating \in [Calls -> SUBSET Wallet]
    /\ requests \subseteq Messages /\ watching \subseteq Messages
    /\ answer \in [Messages -> {"none", "result", "error"}]

(* The mutex is the queue of those that wait for it, its owner at the head. *)
MutexInv ==
    /\ OnceIn(accountsMutex)
    /\ \A p \in Calls : In(accountsMutex, p) <=> pc[p] \in InTurn
    /\ \A p \in Calls : pc[p] \in Owning => First(accountsMutex, p)

(* Wallets are created and stopped by the owner of the mutex only, unless a *)
(* call has failed before its wallets were created.                          *)
WorkInv ==
    /\ \A p \in Calls : pc[p] = "stopping" => todo[p] \subseteq mapped
    /\ \A p \in Calls : pc[p] = "toUpdate" => op[p].account \in Accounts
    /\ strayed \/ \A p \in Calls :
          /\ pc[p] \notin {"creating", "stopping"} => todo[p] = {}
          /\ pc[p] # "creating" => creating[p] = {}
          /\ creating[p] \cap (mapped \cup todo[p]) = {}

(* Whoever waits for an answer is registered, and who removes is known to. *)
WatchInv ==
    /\ \A m \in Messages : pc[m] = "preparing" /\ answer[m] = "none" => m \in requests
    /\ \A p \in Calls : pc[p] \in {"removing", "dropping"} => op[p].account \in removed
    /\ WaitingIsWatched

AccountInv == Types /\ MutexInv /\ WorkInv /\ NoOrphanWallet /\ WatchInv

(* AccountInit establishes the invariant. *)
LEMMA AccountInitInv == AccountInit => AccountInv
<1> SUFFICES ASSUME AccountInit PROVE AccountInv
  OBVIOUS
<1>1. \A p \in Calls \cup Messages : pc[p] = "idle"
  BY DEF AccountInit
<1>2. /\ todo = [p \in Calls |-> {}] /\ creating = [p \in Calls |-> {}]
      /\ requests = {} /\ watching = {} /\ answer = [m \in Messages |-> "none"]
      /\ live = [w \in Wallet |-> IF w \in mapped THEN 1 ELSE 0]
  BY DEF AccountInit
<1>3. mapped \subseteq Wallet
  BY DEF AccountInit, WalletsFor
<1>4. Types
  <2>1. op \in [Calls -> Operation] /\ op \in Workloads
    BY AccountAssumption DEF AccountInit, AccountAssumption
  <2>2. pc \in [Calls \cup Messages -> CallPlaces \cup {"preparing", "sent"}]
    BY DEF AccountInit, CallPlaces
  <2>3. accountsMutex \in Seq(Calls)
    BY DEF AccountInit
  <2>4. WalletTypes
    BY <1>2, <1>3 DEF WalletTypes
  <2> QED
    BY <1>2, <2>1, <2>2, <2>3, <2>4 DEF Types, TurnTypes
<1>5. MutexInv
  <2>1. \A i : i \notin 1 .. Len(accountsMutex)
    BY DEF AccountInit
  <2>2. "idle" \notin InTurn
    BY DEF InTurn, Queued, Owning
  <2> QED
    BY <1>1, <2>1, <2>2 DEF MutexInv, OnceIn, In, InTurn
<1>6. WorkInv
  BY <1>1, <1>2 DEF WorkInv
<1>7. NoOrphanWallet
  <2>1. Stopping = {}
    BY <1>1 DEF Stopping
  <2> QED
    BY <1>2, <2>1 DEF NoOrphanWallet
<1>8. WatchInv
  BY <1>1 DEF WatchInv, WaitingIsWatched
<1> QED
  BY <1>4, <1>5, <1>6, <1>7, <1>8 DEF AccountInv

----------------------------------------------------------------------------
(* The mutex. *)

(* A step by which no call comes to the mutex or leaves it. *)
LEMMA MutexStays ==
  ASSUME MutexInv, accountsMutex' = accountsMutex,
         \A q \in Calls : /\ pc'[q] \in InTurn <=> pc[q] \in InTurn
                          /\ pc'[q] \in Owning => pc[q] \in Owning \/ First(accountsMutex, q)
  PROVE  MutexInv'
<1>1. /\ OnceIn(accountsMutex)'
      /\ \A p \in Calls : In(accountsMutex, p)' <=> pc'[p] \in InTurn
  BY DEF MutexInv, OnceIn, In
<1>2. \A p \in Calls : pc'[p] \in Owning => First(accountsMutex, p)'
  BY DEF MutexInv, First
<1> QED
  BY <1>1, <1>2 DEF MutexInv, InTurn, Queued, Owning

(* A call goes to another place, in or out of the turn as it was. *)
LEMMA GotoKeeps ==
  ASSUME Types, MutexInv, NEW p \in Calls \cup Messages, NEW place, Goto(p, place),
         accountsMutex' = accountsMutex,
         p \in Messages \/ (place \in InTurn <=> pc[p] \in InTurn),
         p \in Messages \/ (place \in Owning => pc[p] \in Owning \/ Owns(p))
  PROVE  MutexInv'
<1>1. \A q \in Calls : pc'[q] = IF q = p THEN place ELSE pc[q]
  BY DEF Types, TurnTypes, Goto
<1>2. p \in Messages => p \notin Calls
  BY AccountAssumption DEF AccountAssumption
<1>3. Owns(p) => First(accountsMutex, p)
  BY DEF Owns, First
<1> QED
  BY <1>1, <1>2, <1>3, MutexStays

(* A call that is in no queue comes to the end of it. *)
LEMMA QueueKeeps ==
  ASSUME Types, MutexInv, NEW p \in Calls, NEW place \in Queued, Queue(p, place), pc[p] \notin InTurn
  PROVE  MutexInv'
<1>1. /\ accountsMutex \in Seq(Calls) /\ ~In(accountsMutex, p) /\ OnceIn(accountsMutex)
      /\ accountsMutex' = Append(accountsMutex, p)
  BY DEF Types, TurnTypes, MutexInv, Queue
<1>2. /\ OnceIn(accountsMutex')
      /\ \A x : In(accountsMutex', x) <=> In(accountsMutex, x) \/ x = p
      /\ \A x : First(accountsMutex, x) => First(accountsMutex', x)
  BY <1>1, AppendQueue
<1>3. \A q \in Calls : pc'[q] = IF q = p THEN place ELSE pc[q]
  BY DEF Types, TurnTypes, Queue, Goto
<1>4. place \in InTurn /\ place \notin Owning
  BY DEF InTurn, Queued, Owning
<1>5. OnceIn(accountsMutex)' /\ \A q \in Calls : In(accountsMutex, q)' <=> pc'[q] \in InTurn
  BY <1>2, <1>3, <1>4 DEF MutexInv, OnceIn, In
<1>6. \A q \in Calls : pc'[q] \in Owning => First(accountsMutex, q)'
  BY <1>2, <1>3, <1>4 DEF MutexInv, First
<1> QED
  BY <1>5, <1>6 DEF MutexInv, InTurn, Queued, Owning

(* The owner of the mutex gives it back. *)
LEMMA ReleaseKeeps ==
  ASSUME Types, MutexInv, NEW p \in Calls, NEW place, Release(p, place), place \notin InTurn,
         pc[p] \in Owning \/ Owns(p)
  PROVE  MutexInv' /\ accountsMutex' \in Seq(Calls)
<1>1. /\ accountsMutex \in Seq(Calls) /\ First(accountsMutex, p) /\ OnceIn(accountsMutex)
      /\ accountsMutex' = Tail(accountsMutex)
  BY DEF Types, TurnTypes, MutexInv, Release, Owns, First
<1>2. /\ OnceIn(accountsMutex') /\ accountsMutex' \in Seq(Calls)
      /\ \A x : In(accountsMutex', x) <=> In(accountsMutex, x) /\ x # p
  BY <1>1, TailQueue DEF First
<1>3. \A q \in Calls : pc'[q] = IF q = p THEN place ELSE pc[q]
  BY DEF Types, TurnTypes, Release, Goto
<1>4. OnceIn(accountsMutex)' /\ \A q \in Calls : In(accountsMutex, q)' <=> pc'[q] \in InTurn
  BY <1>2, <1>3 DEF MutexInv, OnceIn, In
<1>5. \A q \in Calls : pc'[q] \notin Owning
  BY <1>1, <1>3 DEF MutexInv, First, InTurn
<1> QED
  BY <1>2, <1>4, <1>5 DEF MutexInv, InTurn, Queued, Owning

(* Two calls do not own the mutex. *)
LEMMA OneOwner ==
  ASSUME MutexInv, NEW p \in Calls, NEW q \in Calls,
         pc[p] \in Owning \/ Owns(p), pc[q] \in Owning \/ Owns(q)
  PROVE  p = q
  BY DEF MutexInv, First, Owns

(* A call in whose turn no wallets are created or stopped. *)
Elsewhere(place) == place \notin {"creating", "stopping"}

----------------------------------------------------------------------------
(* A step of a call that neither creates nor stops wallets. *)
Quiet(p) ==
    /\ UNCHANGED <<op, todo, creating, wallets, requests, watching, answer, strayed>>
    /\ removed \subseteq removed'
    /\ pc' \in [Calls \cup Messages -> Places] /\ accountsMutex' \in Seq(Calls)
    /\ \A q \in (Calls \cup Messages) \ {p} : pc'[q] = pc[q]
    /\ Elsewhere(pc[p]) /\ Elsewhere(pc'[p])
    /\ pc'[p] \in {"removing", "dropping"} => op[p].account \in removed'
    /\ pc'[p] = "toUpdate" => op[p].account \in Accounts

(* It keeps all that is said of the wallets and the messages. *)
LEMMA QuietKeeps ==
  ASSUME AccountInv, MutexInv', NEW p \in Calls, Quiet(p)
  PROVE  AccountInv'
<1>1. p \notin Messages
  BY AccountAssumption DEF AccountAssumption
<1>2. Types'
  BY DEF AccountInv, Types, TurnTypes, WalletTypes, Quiet, wallets, Places
<1>3. \A q \in Calls : (pc'[q] = "stopping" <=> pc[q] = "stopping")
                       /\ (pc'[q] = "creating" <=> pc[q] = "creating")
  BY DEF Quiet, Elsewhere
<1>4. WorkInv'
  BY <1>3 DEF AccountInv, WorkInv, Quiet, wallets
<1>5. NoOrphanWallet'
  <2>1. Stopping' = Stopping
    BY <1>3 DEF Stopping, Quiet, wallets
  <2> QED
    BY <2>1 DEF AccountInv, NoOrphanWallet, Quiet, wallets
<1>6. \A m \in Messages : pc'[m] = pc[m]
  BY <1>1 DEF Quiet
<1>7. WatchInv'
  BY <1>3, <1>6 DEF AccountInv, WatchInv, WaitingIsWatched, Quiet
<1> QED
  BY <1>2, <1>4, <1>5, <1>7 DEF AccountInv

(* Each of the three ways a quiet step goes on is one. *)
LEMMA QuietWays ==
  ASSUME AccountInv, NEW p \in Calls, NEW place \in CallPlaces,
         UNCHANGED <<op, todo, creating, wallets, requests, watching, answer, strayed>>,
         removed \subseteq removed', Elsewhere(pc[p]), Elsewhere(place),
         place \in {"removing", "dropping"} => op[p].account \in removed',
         place = "toUpdate" => op[p].account \in Accounts,
         \/ /\ Queue(p, place) /\ place \in Queued /\ pc[p] \notin InTurn
         \/ /\ Release(p, place) /\ place \notin InTurn /\ (pc[p] \in Owning \/ Owns(p))
         \/ /\ Goto(p, place) /\ accountsMutex' = accountsMutex
            /\ place \in InTurn <=> pc[p] \in InTurn
            /\ place \in Owning => pc[p] \in Owning \/ Owns(p)
  PROVE  AccountInv'
<1>1. Goto(p, place)
  BY DEF Queue, Release
<1>2. /\ pc' \in [Calls \cup Messages -> Places] /\ pc'[p] = place
      /\ \A q \in (Calls \cup Messages) \ {p} : pc'[q] = pc[q]
  BY <1>1 DEF Goto, AccountInv, Types, TurnTypes, Places
<1>3. MutexInv' /\ accountsMutex' \in Seq(Calls)
  <2>1. CASE Queue(p, place) /\ place \in Queued /\ pc[p] \notin InTurn
    BY <2>1, QueueKeeps DEF AccountInv, Queue, Types, TurnTypes
  <2>2. CASE Release(p, place) /\ place \notin InTurn /\ (pc[p] \in Owning \/ Owns(p))
    BY <2>2, ReleaseKeeps DEF AccountInv
  <2>3. CASE /\ Goto(p, place) /\ accountsMutex' = accountsMutex
             /\ place \in InTurn <=> pc[p] \in InTurn
             /\ place \in Owning => pc[p] \in Owning \/ Owns(p)
    BY <2>3, GotoKeeps DEF AccountInv, Types, TurnTypes
  <2> QED
    BY <2>1, <2>2, <2>3
<1>4. Quiet(p)
  BY <1>2, <1>3 DEF Quiet
<1> QED
  BY <1>3, <1>4, QuietKeeps

(* The steps of a call that are quiet. *)
QuietStep(p) ==
    \/ QueueStart(p) \/ SwitchNetwork(p) \/ ReloadAccount(p) \/ CopyAccounts(p)
    \/ ShowAccount(p) \/ ShowAccounts(p) \/ SelectChosen(p) \/ SelectAccount(p)
    \/ RemoveAccount(p) \/ DropAccount(p) \/ RenameAccount(p) \/ ClearStorage(p)
    \/ ResetState(p) \/ ReadStorage(p) \/ SyncState(p) \/ UseWallet(p) \/ ChangeNetwork(p)
    \/ QueueTokens(p) \/ AddAccount(p) \/ EnsureAccountSelected(p) \/ QueueCall(p)
    \/ ImportStorage(p) \/ TakeWallet(p)

(* They keep the invariant. *)
LEMMA QuietStepKeeps ==
  ASSUME AccountInv, NEW p \in Calls, QuietStep(p)
  PROVE  AccountInv'
<1> USE QuietWays
    DEF turn, work, sending, history, Touch, Begins, Elsewhere, InTurn, Queued, Owning, Halfway,
        Ended, CallPlaces
<1>1. CASE QueueStart(p) BY <1>1 DEF QueueStart, Queue
<1>2. CASE SwitchNetwork(p) BY <1>2 DEF SwitchNetwork
<1>3. CASE ReloadAccount(p) BY <1>3 DEF ReloadAccount, Release
<1>4. CASE CopyAccounts(p) BY <1>4 DEF CopyAccounts
<1>5. CASE ShowAccount(p) BY <1>5 DEF ShowAccount
<1>6. CASE ShowAccounts(p) BY <1>6 DEF ShowAccounts
<1>7. CASE SelectChosen(p) BY <1>7 DEF SelectChosen
<1>8. CASE SelectAccount(p) BY <1>8 DEF SelectAccount, Release
<1>9. CASE RemoveAccount(p) BY <1>9 DEF RemoveAccount
<1>10. CASE DropAccount(p) BY <1>10 DEF DropAccount, Release
<1>11. CASE RenameAccount(p) BY <1>11 DEF RenameAccount, Release
<1>12. CASE ClearStorage(p) BY <1>12 DEF ClearStorage
<1>13. CASE ResetState(p) BY <1>13 DEF ResetState, Release
<1>14. CASE ReadStorage(p) BY <1>14 DEF ReadStorage
<1>15. CASE SyncState(p) BY <1>15 DEF SyncState
<1>16. CASE UseWallet(p) BY <1>16 DEF UseWallet
<1>17. CASE ChangeNetwork(p)
  <2>1. CASE op[p].group = group BY <1>17, <2>1 DEF ChangeNetwork
  <2>2. CASE op[p].group # group BY <1>17, <2>2 DEF ChangeNetwork, Queue
  <2> QED BY <2>1, <2>2
<1>18. CASE QueueTokens(p)
  <2>1. op[p].account \in Accounts
    BY <1>18, AccountAssumption DEF QueueTokens, AccountAssumption, AccountInv, Types
  <2> QED BY <1>18, <2>1 DEF QueueTokens, Queue
<1>19. CASE AddAccount(p) BY <1>19 DEF AddAccount
<1>20. CASE EnsureAccountSelected(p) BY <1>20 DEF EnsureAccountSelected
<1>21. CASE QueueCall(p)
  <2>1. PICK place \in {"toSelect", "toRemove", "toRename", "toStop"} : pc[p] = "idle" /\ Queue(p, place)
    BY <1>21 DEF QueueCall
  <2> QED BY <1>21, <2>1 DEF QueueCall, Queue
<1>22. CASE ImportStorage(p) BY <1>22 DEF ImportStorage
<1>23. CASE TakeWallet(p) BY <1>23 DEF TakeWallet
<1> QED
  BY <1>1, <1>2, <1>3, <1>4, <1>5, <1>6, <1>7, <1>8, <1>9, <1>10, <1>11, <1>12, <1>13, <1>14, <1>15,
     <1>16, <1>17, <1>18, <1>19, <1>20, <1>21, <1>22, <1>23 DEF QuietStep

----------------------------------------------------------------------------
(* The steps that create or stop wallets. *)

(* While a call owns the mutex and stops no wallets, none are being stopped; *)
(* while it stops them, only its own are.                                    *)
LEMMA OwnerStops ==
  ASSUME AccountInv, NEW p \in Calls, pc[p] \in Owning \/ Owns(p)
  PROVE  Stopping = IF pc[p] = "stopping" THEN mapped \ todo[p] ELSE {}
<1>1. \A q \in Calls : pc[q] = "stopping" => q = p
  BY OneOwner DEF AccountInv, Owning
<1> QED
  BY <1>1 DEF Stopping

(* While a call owns the mutex, no other creates wallets. *)
LEMMA OwnerCreates ==
  ASSUME AccountInv, NEW p \in Calls, pc[p] \in Owning \/ Owns(p), ~strayed
  PROVE  \A q \in Calls \ {p} : todo[q] = {} /\ creating[q] = {}
<1>1. \A q \in Calls : pc[q] \in {"creating", "stopping"} => q = p
  BY OneOwner DEF AccountInv, Owning
<1> QED
  BY <1>1 DEF AccountInv, WorkInv

(* What is stopped stays the same when no call begins or ends to stop. *)
LEMMA StoppingStays ==
  ASSUME \A q \in Calls : pc'[q] = "stopping" <=> pc[q] = "stopping",
         \A q \in Calls : pc[q] = "stopping" => todo'[q] = todo[q],
         mapped' = mapped
  PROVE  Stopping' = Stopping
  BY DEF Stopping

(* What is said of the messages holds on when a step leaves them alone but  *)
(* for those a wallet stops watching that is being removed or stopped.       *)
LEMMA WatchStays ==
  ASSUME AccountInv, UNCHANGED <<op, requests, answer, removed>>, strayed => strayed',
         \A m \in Messages : pc'[m] = pc[m],
         \A q \in Calls : pc[q] = "stopping" => pc'[q] = "stopping",
         \A q \in Calls : pc'[q] \in {"removing", "dropping"} => pc[q] \in {"removing", "dropping"},
         \A m \in watching \ watching' :
             To[m] \in removed \/ \E q \in Calls : pc'[q] = "stopping"
  PROVE  WatchInv'
  BY DEF AccountInv, WatchInv, WaitingIsWatched

(* A call goes to a place: nobody else moves. *)
LEMMA GotoMoves ==
  ASSUME Types, NEW p \in Calls, NEW place \in CallPlaces, Goto(p, place)
  PROVE  /\ pc' \in [Calls \cup Messages -> CallPlaces \cup {"preparing", "sent"}]
         /\ pc'[p] = place
         /\ \A q \in (Calls \cup Messages) \ {p} : pc'[q] = pc[q]
         /\ \A m \in Messages : pc'[m] = pc[m]
  BY AccountAssumption DEF AccountAssumption, Types, TurnTypes, Goto

(* startSubscriptions() has the mutex and lists the wallets to create. *)
LEMMA StartKeeps ==
  ASSUME AccountInv, NEW p \in Calls, StartSubscriptions(p)
  PROVE  AccountInv'
<1> DEFINE ws == WalletsFor(entries, local[p].group)
<1>1. ws \in SUBSET Wallet
  BY DEF WalletsFor
<1>2. /\ pc[p] = "toStart" /\ Owns(p) /\ Goto(p, "creating")
      /\ todo' = [todo EXCEPT ![p] = ws]
      /\ UNCHANGED <<op, accountsMutex, creating, mapped, live, requests, watching, answer,
                     strayed, removed>>
  BY DEF StartSubscriptions, turn, wallets, sending, history
<1> HIDE DEF ws
<1>3. "creating" \in CallPlaces /\ "creating" \in Owning /\ "creating" \in InTurn /\ "toStart" \in InTurn
  BY DEF CallPlaces, Owning, InTurn, Queued
<1>4. /\ pc' \in [Calls \cup Messages -> CallPlaces \cup {"preparing", "sent"}]
      /\ pc'[p] = "creating" /\ \A q \in (Calls \cup Messages) \ {p} : pc'[q] = pc[q]
      /\ \A m \in Messages : pc'[m] = pc[m]
  BY <1>2, <1>3, GotoMoves DEF AccountInv
<1>5. Types'
  BY <1>1, <1>2, <1>4 DEF AccountInv, Types, TurnTypes, WalletTypes
<1>6. MutexInv'
  BY <1>2, <1>3, GotoKeeps DEF AccountInv
<1>7. todo'[p] = ws /\ \A q \in Calls \ {p} : todo'[q] = todo[q]
  BY <1>2 DEF AccountInv, Types
<1>8. WorkInv'
  BY <1>2, <1>4, <1>7 DEF AccountInv, WorkInv
<1>9. Stopping' = Stopping
  BY <1>2, <1>4, <1>7, StoppingStays
<1>10. NoOrphanWallet'
  BY <1>2, <1>9 DEF AccountInv, NoOrphanWallet
<1>11. WatchInv'
  BY <1>2, <1>4, WatchStays
<1> QED
  BY <1>5, <1>6, <1>8, <1>10, <1>11 DEF AccountInv

(* All its wallets are there. *)
LEMMA CreatedKeeps ==
  ASSUME AccountInv, NEW p \in Calls, WalletsCreated(p)
  PROVE  AccountInv'
<1>1. PICK place \in {"listing", "done"} :
         /\ Goto(p, place)
         /\ IF place = "listing" THEN accountsMutex' = accountsMutex ELSE Release(p, "done")
  BY DEF WalletsCreated, Release, turn
<1>2. /\ pc[p] = "creating" /\ todo[p] = {} /\ creating[p] = {}
      /\ UNCHANGED <<op, todo, creating, mapped, live, requests, watching, answer, strayed, removed>>
  BY DEF WalletsCreated, Release, turn, work, wallets, sending, history
<1>3. /\ place \in CallPlaces /\ "creating" \in Owning /\ "creating" \in InTurn
      /\ "listing" \in Owning /\ "listing" \in InTurn /\ "done" \notin InTurn
  BY DEF CallPlaces, Owning, InTurn, Queued, Ended
<1>4. /\ pc' \in [Calls \cup Messages -> CallPlaces \cup {"preparing", "sent"}]
      /\ pc'[p] = place /\ \A q \in (Calls \cup Messages) \ {p} : pc'[q] = pc[q]
      /\ \A m \in Messages : pc'[m] = pc[m]
  BY <1>1, <1>3, GotoMoves DEF AccountInv
<1>5. MutexInv' /\ accountsMutex' \in Seq(Calls)
  <2>1. CASE place = "listing"
    BY <1>1, <1>2, <1>3, <2>1, GotoKeeps DEF AccountInv, Types, TurnTypes
  <2>2. CASE place = "done"
    BY <1>1, <1>2, <1>3, <2>2, ReleaseKeeps DEF AccountInv
  <2> QED
    BY <2>1, <2>2
<1>6. Types'
  BY <1>2, <1>4, <1>5 DEF AccountInv, Types, TurnTypes, WalletTypes
<1>7. WorkInv'
  BY <1>2, <1>4 DEF AccountInv, WorkInv
<1>8. Stopping' = Stopping
  BY <1>2, <1>4, StoppingStays
<1>9. NoOrphanWallet'
  BY <1>2, <1>8 DEF AccountInv, NoOrphanWallet
<1>10. WatchInv'
  BY <1>2, <1>4, WatchStays
<1> QED
  BY <1>5, <1>6, <1>7, <1>9, <1>10 DEF AccountInv

(* stopSubscriptions() has the mutex and lists the wallets to stop. *)
LEMMA BeginStopKeeps ==
  ASSUME AccountInv, NEW p \in Calls, BeginStop(p)
  PROVE  AccountInv'
<1>1. /\ pc[p] = "toStop" /\ Owns(p) /\ Goto(p, "stopping")
      /\ todo' = [todo EXCEPT ![p] = mapped]
      /\ UNCHANGED <<op, accountsMutex, creating, mapped, live, requests, watching, answer,
                     strayed, removed>>
  BY DEF BeginStop, turn, wallets, sending, history
<1>2. "stopping" \in CallPlaces /\ "stopping" \in Owning /\ "stopping" \in InTurn /\ "toStop" \in InTurn
  BY DEF CallPlaces, Owning, InTurn, Queued
<1>3. /\ pc' \in [Calls \cup Messages -> CallPlaces \cup {"preparing", "sent"}]
      /\ pc'[p] = "stopping" /\ \A q \in (Calls \cup Messages) \ {p} : pc'[q] = pc[q]
      /\ \A m \in Messages : pc'[m] = pc[m]
  BY <1>1, <1>2, GotoMoves DEF AccountInv
<1>4. Types'
  BY <1>1, <1>3 DEF AccountInv, Types, TurnTypes, WalletTypes
<1>5. MutexInv'
  BY <1>1, <1>2, GotoKeeps DEF AccountInv
<1>6. todo'[p] = mapped /\ \A q \in Calls \ {p} : todo'[q] = todo[q]
  BY <1>1 DEF AccountInv, Types
<1>7. WorkInv'
  BY <1>1, <1>3, <1>6 DEF AccountInv, WorkInv
<1>8. \A q \in Calls \ {p} : pc[q] # "stopping"
  BY <1>1, OneOwner DEF AccountInv, Owning
<1>9. Stopping = {} /\ Stopping' = {}
  BY <1>1, <1>3, <1>6, <1>8 DEF Stopping
<1>10. NoOrphanWallet'
  BY <1>1, <1>9 DEF AccountInv, NoOrphanWallet
<1>11. WatchInv'
  BY <1>1, <1>3, WatchStays
<1> QED
  BY <1>4, <1>5, <1>7, <1>10, <1>11 DEF AccountInv

(* A wallet is stopped: what it watched is no longer watched. *)
LEMMA StopIs ==
  ASSUME Types, NEW ws \in SUBSET Wallet, Stop(ws)
  PROVE  /\ live' \in [Wallet -> Nat]
         /\ \A w \in ws : (live[w] = 1 => live'[w] = 0) /\ (live[w] = 0 => live'[w] = 0)
         /\ \A w \in Wallet \ ws : live'[w] = live[w]
         /\ watching' \subseteq Messages
         /\ \A m \in watching \ watching' : TonWallet(To[m]) \in ws
<1>1. live' = [w \in Wallet |-> IF w \in ws /\ live[w] > 0 THEN live[w] - 1 ELSE live[w]]
  BY DEF Stop
<1>2. \A w \in Wallet : live[w] \in Nat
  BY DEF Types, WalletTypes
<1>3. \A w \in Wallet : (IF w \in ws /\ live[w] > 0 THEN live[w] - 1 ELSE live[w]) \in Nat
  BY <1>2
<1> QED
  BY <1>1, <1>2, <1>3 DEF Stop, Types

(* stopSubscriptions() stops one wallet more. *)
LEMMA StopWalletKeeps ==
  ASSUME AccountInv, NEW p \in Calls, NEW w \in Wallet, StopWallet(p, w)
  PROVE  AccountInv'
<1>1. /\ pc[p] = "stopping" /\ w \in todo[p] /\ Stop({w})
      /\ todo' = [todo EXCEPT ![p] = @ \ {w}]
      /\ UNCHANGED <<op, accountsMutex, pc, creating, mapped, requests, answer, strayed, removed>>
  BY DEF StopWallet, turn, history
<1>2. /\ live' \in [Wallet -> Nat] /\ watching' \subseteq Messages
      /\ (live[w] = 1 => live'[w] = 0)
      /\ \A v \in Wallet \ {w} : live'[v] = live[v]
  BY <1>1, StopIs DEF AccountInv
<1>3. todo'[p] = todo[p] \ {w} /\ \A q \in Calls \ {p} : todo'[q] = todo[q]
  BY <1>1 DEF AccountInv, Types
<1>4. Types'
  BY <1>1, <1>2 DEF AccountInv, Types, TurnTypes, WalletTypes
<1>5. MutexInv'
  BY <1>1, MutexStays DEF AccountInv
<1>6. WorkInv'
  BY <1>1, <1>3 DEF AccountInv, WorkInv
<1>7. w \in mapped
  BY <1>1 DEF AccountInv, WorkInv
<1>8. \A q \in Calls \ {p} : pc[q] # "stopping"
  BY <1>1, OneOwner DEF AccountInv, Owning
<1>9. Stopping = mapped \ todo[p] /\ Stopping' = mapped \ (todo[p] \ {w})
  BY <1>1, <1>3, <1>8 DEF Stopping
<1>10. NoOrphanWallet'
  <2> SUFFICES ASSUME ~strayed, NEW v \in Wallet
               PROVE  live'[v] = IF v \in mapped \ Stopping' THEN 1 ELSE 0
    BY <1>1 DEF NoOrphanWallet
  <2>1. live[v] = IF v \in mapped \ Stopping THEN 1 ELSE 0
    BY DEF AccountInv, NoOrphanWallet
  <2> QED
    BY <1>1, <1>2, <1>7, <1>9, <2>1
<1>11. WatchInv'
  BY <1>1, WatchStays
<1> QED
  BY <1>4, <1>5, <1>6, <1>10, <1>11 DEF AccountInv

(* All are stopped: the maps are empty, and every sender is told. *)
LEMMA ClearKeeps ==
  ASSUME AccountInv, NEW p \in Calls, ClearWallets(p)
  PROVE  AccountInv'
<1>1. PICK place \in {"clearing", "switching"} :
         /\ Goto(p, place)
         /\ IF place = "clearing" THEN accountsMutex' = accountsMutex ELSE Release(p, "switching")
  BY DEF ClearWallets, Release, turn
<1>2. /\ pc[p] = "stopping" /\ todo[p] = {} /\ mapped' = {} /\ requests' = {}
      /\ answer' = [m \in Messages |-> IF m \in requests THEN "error" ELSE answer[m]]
      /\ UNCHANGED <<op, todo, creating, live, watching, strayed, removed>>
  BY DEF ClearWallets, RejectSenders, Release, turn, work, history
<1>3. /\ place \in CallPlaces /\ "stopping" \in Owning /\ "stopping" \in InTurn
      /\ "clearing" \in Owning /\ "clearing" \in InTurn /\ "switching" \notin InTurn
  BY DEF CallPlaces, Owning, InTurn, Queued
<1>4. /\ pc' \in [Calls \cup Messages -> CallPlaces \cup {"preparing", "sent"}]
      /\ pc'[p] = place /\ \A q \in (Calls \cup Messages) \ {p} : pc'[q] = pc[q]
      /\ \A m \in Messages : pc'[m] = pc[m]
  BY <1>1, <1>3, GotoMoves DEF AccountInv
<1>5. MutexInv' /\ accountsMutex' \in Seq(Calls)
  <2>1. CASE place = "clearing"
    BY <1>1, <1>2, <1>3, <2>1, GotoKeeps DEF AccountInv, Types, TurnTypes
  <2>2. CASE place = "switching"
    BY <1>1, <1>2, <1>3, <2>2, ReleaseKeeps DEF AccountInv
  <2> QED
    BY <2>1, <2>2
<1>6. Types'
  BY <1>2, <1>4, <1>5 DEF AccountInv, Types, TurnTypes, WalletTypes
<1>7. \A q \in Calls \ {p} : pc[q] # "stopping"
  BY <1>2, <1>3, OneOwner DEF AccountInv
<1>8. WorkInv'
  BY <1>2, <1>4, <1>7 DEF AccountInv, WorkInv
<1>9. NoOrphanWallet'
  <2>1. Stopping = mapped /\ Stopping' = {}
    BY <1>2, <1>4, <1>7 DEF Stopping
  <2>2. strayed \/ \A w \in Wallet : live[w] = 0
    BY <2>1 DEF AccountInv, NoOrphanWallet
  <2> QED
    BY <1>2, <2>1, <2>2 DEF NoOrphanWallet
<1>10. WatchInv'
  <2>1. \A m \in Messages : answer'[m] = "none" => answer[m] = "none" /\ m \notin requests
    BY <1>2
  <2> QED
    BY <1>1, <1>2, <1>4, <2>1 DEF AccountInv, WatchInv, WaitingIsWatched
<1> QED
  BY <1>5, <1>6, <1>8, <1>9, <1>10 DEF AccountInv

(* The owner of the mutex takes wallets out of the map and stops those that *)
(* were there.                                                               *)
LEMMA UnmapKeeps ==
  ASSUME AccountInv, NEW p \in Calls, NEW ws \in SUBSET Wallet,
         pc[p] \in Owning \/ Owns(p), pc[p] # "stopping",
         Stop(ws \cap mapped), mapped' = mapped \ ws,
         strayed' = strayed, Stopping' = {}
  PROVE  NoOrphanWallet'
<1>1. Stopping = {}
  BY OwnerStops
<1>2. /\ \A w \in ws \cap mapped : live[w] = 1 => live'[w] = 0
      /\ \A w \in Wallet \ (ws \cap mapped) : live'[w] = live[w]
  <2>1. ws \cap mapped \in SUBSET Wallet
    OBVIOUS
  <2> QED
    BY <2>1, StopIs DEF AccountInv
<1> SUFFICES ASSUME ~strayed, NEW v \in Wallet
             PROVE  live'[v] = IF v \in mapped' THEN 1 ELSE 0
  BY DEF NoOrphanWallet
<1>3. live[v] = IF v \in mapped THEN 1 ELSE 0
  BY <1>1 DEF AccountInv, NoOrphanWallet
<1> QED
  BY <1>2, <1>3

(* updateTokenWallets() stops the wallets of the disabled tokens. *)
LEMMA UpdateKeeps ==
  ASSUME AccountInv, NEW p \in Calls, UpdateTokenWallets(p)
  PROVE  AccountInv'
<1> DEFINE a == op[p].account
           off == DisabledWallets(p)
           on == {TokenWallet(a, r) : r \in op[p].enable}
<1>1. /\ pc[p] = "toUpdate" /\ Owns(p) /\ Goto(p, "creating")
      /\ Stop(off \cap mapped) /\ mapped' = mapped \ off
      /\ todo' = [todo EXCEPT ![p] = on]
      /\ UNCHANGED <<op, accountsMutex, creating, requests, answer, strayed, removed>>
  BY DEF UpdateTokenWallets, turn, history
<1>2. op[p].disable \subseteq Roots /\ op[p].enable \subseteq Roots /\ a \in Accounts
  BY <1>1 DEF AccountInv, Types, TurnTypes, Operation, WorkInv
<1>3. off \in SUBSET Wallet /\ on \in SUBSET Wallet /\ \A w \in off : w.root \in Roots
  BY <1>2 DEF DisabledWallets, TokenWallet, Wallet
<1> HIDE DEF a, off, on
<1>4. off \cap mapped \in SUBSET Wallet
  BY <1>3
<1>5. /\ live' \in [Wallet -> Nat] /\ watching' \subseteq Messages
      /\ \A m \in watching \ watching' : TonWallet(To[m]) \in off \cap mapped
  BY <1>1, <1>4, StopIs DEF AccountInv
<1>6. watching' = watching
  <2>1. \A m \in Messages : TonWallet(To[m]) \notin off
    BY <1>3, AccountAssumption DEF TonWallet, AccountAssumption
  <2> QED
    BY <1>1, <1>5, <2>1 DEF Stop, AccountInv, Types
<1>7. "creating" \in CallPlaces /\ "creating" \in Owning /\ "creating" \in InTurn /\ "toUpdate" \in InTurn
  BY DEF CallPlaces, Owning, InTurn, Queued
<1>8. /\ pc' \in [Calls \cup Messages -> CallPlaces \cup {"preparing", "sent"}]
      /\ pc'[p] = "creating" /\ \A q \in (Calls \cup Messages) \ {p} : pc'[q] = pc[q]
      /\ \A m \in Messages : pc'[m] = pc[m]
  BY <1>1, <1>7, GotoMoves DEF AccountInv
<1>9. todo'[p] = on /\ \A q \in Calls \ {p} : todo'[q] = todo[q]
  BY <1>1 DEF AccountInv, Types
<1>10. Types'
  BY <1>1, <1>3, <1>5, <1>8 DEF AccountInv, Types, TurnTypes, WalletTypes
<1>11. MutexInv'
  BY <1>1, <1>7, GotoKeeps DEF AccountInv
<1>12. \A q \in Calls : pc[q] # "stopping" /\ pc'[q] # "stopping"
  BY <1>1, <1>8, OneOwner DEF AccountInv, Owning
<1>13. WorkInv'
  <2>1. ~strayed => \A q \in Calls : creating[q] = {}
    BY <1>1, OwnerCreates DEF AccountInv, WorkInv
  <2> QED
    BY <1>1, <1>8, <1>9, <1>12, <2>1 DEF AccountInv, WorkInv
<1>14. NoOrphanWallet'
  <2>1. Stopping' = {}
    BY <1>12 DEF Stopping
  <2> QED
    BY <1>1, <1>3, <2>1, UnmapKeeps
<1>15. WatchInv'
  BY <1>1, <1>6, <1>8, <1>12, WatchStays
<1> QED
  BY <1>10, <1>11, <1>13, <1>14, <1>15 DEF AccountInv

(* removeAccount() stops the wallets of the account. *)
LEMMA RemoveWalletsKeeps ==
  ASSUME AccountInv, NEW p \in Calls, RemoveWallets(p)
  PROVE  AccountInv'
<1> DEFINE a == op[p].account
           mine == WalletsOf(a)
<1>1. /\ pc[p] = "removing" /\ Goto(p, "dropping")
      /\ Stop(mine \cap mapped) /\ mapped' = mapped \ mine
      /\ UNCHANGED <<op, accountsMutex, todo, creating, requests, answer, strayed, removed>>
  BY DEF RemoveWallets, turn, work, history
<1>2. mine \in SUBSET Wallet /\ \A w \in mine : w.account = a
  BY DEF WalletsOf
<1>3. a \in removed
  BY <1>1 DEF AccountInv, WatchInv
<1> HIDE DEF a, mine
<1>4. mine \cap mapped \in SUBSET Wallet
  BY <1>2
<1>5. /\ live' \in [Wallet -> Nat] /\ watching' \subseteq Messages
      /\ \A m \in watching \ watching' : TonWallet(To[m]) \in mine \cap mapped
  BY <1>1, <1>4, StopIs DEF AccountInv
<1>6. \A m \in watching \ watching' : To[m] \in removed
  BY <1>2, <1>3, <1>5 DEF TonWallet
<1>7. /\ "dropping" \in CallPlaces /\ "dropping" \in Owning /\ "dropping" \in InTurn
      /\ "removing" \in InTurn /\ "removing" \in Owning
  BY DEF CallPlaces, Owning, InTurn, Queued
<1>8. /\ pc' \in [Calls \cup Messages -> CallPlaces \cup {"preparing", "sent"}]
      /\ pc'[p] = "dropping" /\ \A q \in (Calls \cup Messages) \ {p} : pc'[q] = pc[q]
      /\ \A m \in Messages : pc'[m] = pc[m]
  BY <1>1, <1>7, GotoMoves DEF AccountInv
<1>9. Types'
  BY <1>1, <1>5, <1>8 DEF AccountInv, Types, TurnTypes, WalletTypes
<1>10. MutexInv'
  BY <1>1, <1>7, GotoKeeps DEF AccountInv
<1>11. \A q \in Calls : pc[q] # "stopping" /\ pc'[q] # "stopping"
  BY <1>1, <1>7, <1>8, OneOwner DEF AccountInv, Owning
<1>12. WorkInv'
  BY <1>1, <1>8, <1>11 DEF AccountInv, WorkInv
<1>13. NoOrphanWallet'
  <2>1. Stopping' = {}
    BY <1>11 DEF Stopping
  <2> QED
    BY <1>1, <1>2, <1>7, <2>1, UnmapKeeps
<1>14. WatchInv'
  BY <1>1, <1>6, <1>8, <1>11, WatchStays
<1> QED
  BY <1>9, <1>10, <1>12, <1>13, <1>14 DEF AccountInv

----------------------------------------------------------------------------
(* The creation of the wallets. *)

(* A step at which the call may fail. *)
MayFail(p, left) ==
    \/ UNCHANGED <<op, accountsMutex, pc, strayed>>
    \/ FailCall(p, left)

(* A call that fails while it creates gives the mutex back; it has strayed  *)
(* when wallets are left.                                                    *)
LEMMA FailIs ==
  ASSUME AccountInv, NEW p \in Calls, NEW left, MayFail(p, left)
  PROVE  /\ op' = op /\ accountsMutex' \in Seq(Calls) /\ MutexInv' /\ (strayed => strayed')
         /\ pc' \in [Calls \cup Messages -> CallPlaces \cup {"preparing", "sent"}]
         /\ \A m \in Messages : pc'[m] = pc[m]
         /\ \A q \in Calls :
               \/ pc'[q] = pc[q]
               \/ q = p /\ pc[p] = "creating" /\ pc'[p] = "failed" /\ (left = {} \/ strayed')
<1>1. CASE UNCHANGED <<op, accountsMutex, pc, strayed>>
  BY <1>1, MutexStays DEF AccountInv, Types, TurnTypes
<1>2. CASE FailCall(p, left) /\ pc[p] # "creating"
  BY <1>2, MutexStays DEF FailCall, turn, AccountInv, Types, TurnTypes
<1>3. CASE FailCall(p, left) /\ pc[p] = "creating"
  <2>1. Release(p, "failed") /\ (strayed => strayed') /\ (left = {} \/ strayed')
    BY <1>3 DEF FailCall
  <2>2. "failed" \in CallPlaces /\ "failed" \notin InTurn /\ "creating" \in Owning
    BY DEF CallPlaces, InTurn, Queued, Owning, Ended
  <2>3. /\ pc' \in [Calls \cup Messages -> CallPlaces \cup {"preparing", "sent"}]
        /\ pc'[p] = "failed" /\ \A q \in (Calls \cup Messages) \ {p} : pc'[q] = pc[q]
        /\ \A m \in Messages : pc'[m] = pc[m]
    BY <2>1, <2>2, GotoMoves DEF AccountInv, Release
  <2>4. MutexInv' /\ accountsMutex' \in Seq(Calls)
    BY <1>3, <2>1, <2>2, ReleaseKeeps DEF AccountInv
  <2> QED
    BY <1>3, <2>1, <2>3, <2>4 DEF Release
<1> QED
  BY <1>1, <1>2, <1>3 DEF MayFail

(* addTokenWallet() of the storage fails, or not. *)
LEMMA ListTokenFails ==
  ASSUME NEW p \in Calls, NEW w \in Wallet, ListToken(p, w)
  PROVE  MayFail(p, (creating[p] \cup todo[p]) \ {w}) /\ removed' = removed
  BY DEF ListToken, MayFail, turn

(* A wallet that is in the map already, or is now being created. *)
LEMMA BeginWalletKeeps ==
  ASSUME AccountInv, NEW p \in Calls, NEW w \in Wallet, BeginWallet(p, w)
  PROVE  AccountInv'
<1> DEFINE left == (creating[p] \cup todo[p]) \ {w}
<1>1. /\ pc[p] \in {"creating", "failed"} /\ w \in todo[p]
      /\ todo' = [todo EXCEPT ![p] = @ \ {w}]
      /\ UNCHANGED <<mapped, live, requests, watching, answer>>
  BY DEF BeginWallet, wallets, sending
<1>2. \/ creating' = creating /\ MayFail(p, left) /\ removed' = removed
      \/ /\ w \notin mapped /\ creating' = [creating EXCEPT ![p] = @ \cup {w}]
         /\ UNCHANGED <<op, accountsMutex, pc, strayed, removed>>
  BY ListTokenFails DEF BeginWallet, turn, history
<1>3. MayFail(p, left) /\ removed' = removed
  BY <1>2 DEF MayFail
<1> HIDE DEF left
<1>4. /\ op' = op /\ accountsMutex' \in Seq(Calls) /\ MutexInv' /\ (strayed => strayed')
      /\ pc' \in [Calls \cup Messages -> CallPlaces \cup {"preparing", "sent"}]
      /\ \A m \in Messages : pc'[m] = pc[m]
      /\ \A q \in Calls :
            \/ pc'[q] = pc[q]
            \/ q = p /\ pc[p] = "creating" /\ pc'[p] = "failed" /\ (left = {} \/ strayed')
  BY <1>3, FailIs
<1>5. /\ todo' \in [Calls -> SUBSET Wallet] /\ creating' \in [Calls -> SUBSET Wallet]
      /\ todo'[p] = todo[p] \ {w}
      /\ \A q \in Calls \ {p} : todo'[q] = todo[q] /\ creating'[q] = creating[q]
  <2>1. creating \in [Calls -> SUBSET Wallet] /\ todo \in [Calls -> SUBSET Wallet]
    BY DEF AccountInv, Types
  <2>2. CASE creating' = creating
    BY <1>1, <2>1, <2>2
  <2>3. CASE creating' = [creating EXCEPT ![p] = @ \cup {w}]
    BY <1>1, <2>1, <2>3
  <2> QED
    BY <1>2, <2>2, <2>3
<1>6. creating'[p] = creating[p] \/ (w \notin mapped /\ creating'[p] = creating[p] \cup {w} /\ pc' = pc)
  BY <1>2, <1>5 DEF AccountInv, Types
<1>7. Types'
  BY <1>1, <1>4, <1>5 DEF AccountInv, Types, TurnTypes, WalletTypes
<1>8. WorkInv'
  <2>1. /\ \A q \in Calls : pc'[q] = "stopping" => todo'[q] \subseteq mapped'
        /\ \A q \in Calls : pc'[q] = "toUpdate" => op'[q].account \in Accounts
    BY <1>1, <1>4, <1>5 DEF AccountInv, WorkInv
  <2>2. ASSUME ~strayed', NEW q \in Calls
        PROVE  /\ pc'[q] \notin {"creating", "stopping"} => todo'[q] = {}
               /\ pc'[q] # "creating" => creating'[q] = {}
               /\ creating'[q] \cap (mapped' \cup todo'[q]) = {}
    <3>1. /\ pc[q] \notin {"creating", "stopping"} => todo[q] = {}
          /\ pc[q] # "creating" => creating[q] = {}
          /\ creating[q] \cap (mapped \cup todo[q]) = {}
      BY <1>4, <2>2 DEF AccountInv, WorkInv
    <3>2. CASE q # p
      BY <1>1, <1>4, <1>5, <3>1, <3>2
    <3>3. CASE q = p /\ pc'[p] = pc[p]
      BY <1>1, <1>5, <1>6, <3>1, <3>3
    <3>4. CASE q = p /\ pc'[p] # pc[p]
      <4>1. left = {} /\ creating'[p] = creating[p]
        BY <1>4, <1>6, <2>2, <3>4
      <4>2. todo[p] \ {w} = {} /\ creating[p] = {}
        BY <1>1, <3>1, <3>4, <4>1 DEF left
      <4> QED
        BY <1>5, <3>4, <4>1, <4>2
    <3> QED
      BY <3>2, <3>3, <3>4
  <2> QED
    BY <2>1, <2>2 DEF WorkInv
<1>9. Stopping' = Stopping
  BY <1>1, <1>4, <1>5, StoppingStays
<1>10. NoOrphanWallet'
  BY <1>1, <1>4, <1>9 DEF AccountInv, NoOrphanWallet
<1>11. WatchInv'
  BY <1>1, <1>3, <1>4, WatchStays
<1> QED
  BY <1>4, <1>7, <1>8, <1>10, <1>11 DEF AccountInv

(* A wallet is created, put in the map and started. *)
LEMMA WalletCreatedKeeps ==
  ASSUME AccountInv, NEW p \in Calls, NEW w \in Wallet, WalletCreated(p, w)
  PROVE  AccountInv'
<1> DEFINE left == (creating[p] \cup todo[p]) \ {w}
<1>1. /\ w \in creating[p] /\ mapped' = mapped \cup {w}
      /\ creating' = [creating EXCEPT ![p] = @ \ {w}]
      /\ live' = [live EXCEPT ![w] = @ + 1]
      /\ UNCHANGED <<todo, requests, watching, answer>>
  BY DEF WalletCreated, sending
<1>2. MayFail(p, left) /\ removed' = removed
  BY ListTokenFails DEF WalletCreated
<1> HIDE DEF left
<1>3. /\ op' = op /\ accountsMutex' \in Seq(Calls) /\ MutexInv' /\ (strayed => strayed')
      /\ pc' \in [Calls \cup Messages -> CallPlaces \cup {"preparing", "sent"}]
      /\ \A m \in Messages : pc'[m] = pc[m]
      /\ \A q \in Calls :
            \/ pc'[q] = pc[q]
            \/ q = p /\ pc[p] = "creating" /\ pc'[p] = "failed" /\ (left = {} \/ strayed')
  BY <1>2, FailIs
<1>4. /\ creating' \in [Calls -> SUBSET Wallet] /\ creating'[p] = creating[p] \ {w}
      /\ \A q \in Calls \ {p} : creating'[q] = creating[q]
  BY <1>1 DEF AccountInv, Types
<1>5. /\ live' \in [Wallet -> Nat] /\ live'[w] = live[w] + 1
      /\ \A v \in Wallet \ {w} : live'[v] = live[v]
  BY <1>1 DEF AccountInv, Types, WalletTypes
<1>6. Types'
  BY <1>1, <1>3, <1>4, <1>5 DEF AccountInv, Types, TurnTypes, WalletTypes
<1>7. ~strayed => /\ pc[p] = "creating" /\ w \notin mapped /\ w \notin todo[p]
                  /\ \A q \in Calls \ {p} : creating[q] = {}
                  /\ \A q \in Calls : pc[q] # "stopping"
  <2> SUFFICES ASSUME ~strayed
               PROVE  /\ pc[p] = "creating" /\ w \notin mapped /\ w \notin todo[p]
                      /\ \A q \in Calls \ {p} : creating[q] = {}
                      /\ \A q \in Calls : pc[q] # "stopping"
    OBVIOUS
  <2>1. pc[p] = "creating" /\ w \notin mapped /\ w \notin todo[p]
    BY <1>1 DEF AccountInv, WorkInv
  <2>2. \A q \in Calls \ {p} : creating[q] = {}
    BY <2>1, OwnerCreates DEF Owning
  <2>3. \A q \in Calls : pc[q] # "stopping"
    BY <2>1, OneOwner DEF AccountInv, Owning
  <2> QED
    BY <2>1, <2>2, <2>3
<1>8. WorkInv'
  <2>1. /\ \A q \in Calls : pc'[q] = "stopping" => todo'[q] \subseteq mapped'
        /\ \A q \in Calls : pc'[q] = "toUpdate" => op'[q].account \in Accounts
    BY <1>1, <1>3 DEF AccountInv, WorkInv
  <2>2. ASSUME ~strayed', NEW q \in Calls
        PROVE  /\ pc'[q] \notin {"creating", "stopping"} => todo'[q] = {}
               /\ pc'[q] # "creating" => creating'[q] = {}
               /\ creating'[q] \cap (mapped' \cup todo'[q]) = {}
    <3>1. /\ pc[q] \notin {"creating", "stopping"} => todo[q] = {}
          /\ pc[q] # "creating" => creating[q] = {}
          /\ creating[q] \cap (mapped \cup todo[q]) = {}
      BY <1>3, <2>2 DEF AccountInv, WorkInv
    <3>2. CASE q # p
      BY <1>1, <1>3, <1>4, <1>7, <2>2, <3>1, <3>2
    <3>3. CASE q = p /\ pc'[p] = pc[p]
      BY <1>1, <1>3, <1>4, <1>7, <2>2, <3>1, <3>3
    <3>4. CASE q = p /\ pc'[p] # pc[p]
      <4>1. left = {}
        BY <1>3, <2>2, <3>4
      <4>2. todo[p] = {} /\ creating[p] \ {w} = {}
        BY <1>3, <1>7, <2>2, <4>1 DEF left
      <4> QED
        BY <1>1, <1>4, <3>4, <4>2
    <3> QED
      BY <3>2, <3>3, <3>4
  <2> QED
    BY <2>1, <2>2 DEF WorkInv
<1>9. NoOrphanWallet'
  <2> SUFFICES ASSUME ~strayed', NEW v \in Wallet
               PROVE  live'[v] = IF v \in mapped' \ Stopping' THEN 1 ELSE 0
    BY DEF NoOrphanWallet
  <2>1. Stopping = {} /\ Stopping' = {}
    BY <1>3, <1>7 DEF Stopping
  <2>2. live[v] = IF v \in mapped THEN 1 ELSE 0
    BY <1>3, <2>1 DEF AccountInv, NoOrphanWallet
  <2>3. CASE v = w
    BY <1>1, <1>3, <1>5, <1>7, <2>1, <2>2, <2>3
  <2>4. CASE v # w
    BY <1>1, <1>5, <2>1, <2>2, <2>4
  <2> QED
    BY <2>3, <2>4
<1>10. WatchInv'
  BY <1>1, <1>2, <1>3, WatchStays
<1> QED
  BY <1>3, <1>6, <1>8, <1>9, <1>10 DEF AccountInv

(* A wallet cannot be created; nor are the token wallets of its account. *)
LEMMA WalletFailsKeeps ==
  ASSUME AccountInv, NEW p \in Calls, NEW w \in Wallet, WalletFails(p, w)
  PROVE  AccountInv'
<1> DEFINE left == creating'[p] \cup todo'[p]
<1>1. /\ w \in creating[p]
      /\ creating' = [creating EXCEPT ![p] = @ \ {w}]
      /\ todo' = [todo EXCEPT ![p] = IF w.root = None THEN @ \ WalletsOf(w.account) ELSE @]
      /\ UNCHANGED <<mapped, live, requests, watching, answer, removed>>
      /\ MayFail(p, left)
  BY DEF WalletFails, wallets, sending, MayFail
<1>2. /\ creating' \in [Calls -> SUBSET Wallet] /\ todo' \in [Calls -> SUBSET Wallet]
      /\ creating'[p] \subseteq creating[p] /\ todo'[p] \subseteq todo[p]
      /\ \A q \in Calls \ {p} : creating'[q] = creating[q] /\ todo'[q] = todo[q]
  BY <1>1 DEF AccountInv, Types
<1> HIDE DEF left
<1>3. /\ op' = op /\ accountsMutex' \in Seq(Calls) /\ MutexInv' /\ (strayed => strayed')
      /\ pc' \in [Calls \cup Messages -> CallPlaces \cup {"preparing", "sent"}]
      /\ \A m \in Messages : pc'[m] = pc[m]
      /\ \A q \in Calls :
            \/ pc'[q] = pc[q]
            \/ q = p /\ pc[p] = "creating" /\ pc'[p] = "failed" /\ (left = {} \/ strayed')
  BY <1>1, FailIs
<1>4. Types'
  BY <1>1, <1>2, <1>3 DEF AccountInv, Types, TurnTypes, WalletTypes
<1>5. ~strayed => pc[p] = "creating" /\ \A q \in Calls : pc[q] # "stopping"
  <2>1. ~strayed => pc[p] = "creating"
    BY <1>1 DEF AccountInv, WorkInv
  <2> QED
    BY <2>1, OneOwner DEF AccountInv, Owning
<1>6. WorkInv'
  <2>1. /\ \A q \in Calls : pc'[q] = "stopping" => todo'[q] \subseteq mapped'
        /\ \A q \in Calls : pc'[q] = "toUpdate" => op'[q].account \in Accounts
    <3> SUFFICES ASSUME NEW q \in Calls
                 PROVE  /\ pc'[q] = "stopping" => todo'[q] \subseteq mapped'
                        /\ pc'[q] = "toUpdate" => op'[q].account \in Accounts
      OBVIOUS
    <3>1. todo'[q] \subseteq todo[q]
      BY <1>2
    <3> QED
      BY <1>1, <1>3, <3>1 DEF AccountInv, WorkInv
  <2>2. ASSUME ~strayed', NEW q \in Calls
        PROVE  /\ pc'[q] \notin {"creating", "stopping"} => todo'[q] = {}
               /\ pc'[q] # "creating" => creating'[q] = {}
               /\ creating'[q] \cap (mapped' \cup todo'[q]) = {}
    <3>1. /\ pc[q] \notin {"creating", "stopping"} => todo[q] = {}
          /\ pc[q] # "creating" => creating[q] = {}
          /\ creating[q] \cap (mapped \cup todo[q]) = {}
      BY <1>3, <2>2 DEF AccountInv, WorkInv
    <3>2. CASE pc'[q] = pc[q]
      BY <1>1, <1>2, <3>1, <3>2
    <3>3. CASE pc'[q] # pc[q]
      <4>1. q = p /\ left = {}
        BY <1>3, <2>2, <3>3
      <4> QED
        BY <4>1 DEF left
    <3> QED
      BY <3>2, <3>3
  <2> QED
    BY <2>1, <2>2 DEF WorkInv
<1>7. NoOrphanWallet'
  <2>1. ~strayed => Stopping = {} /\ Stopping' = {}
    BY <1>3, <1>5 DEF Stopping
  <2> QED
    BY <1>1, <1>3, <2>1 DEF AccountInv, NoOrphanWallet
<1>8. WatchInv'
  BY <1>1, <1>3, WatchStays
<1> QED
  BY <1>3, <1>4, <1>6, <1>7, <1>8 DEF AccountInv

----------------------------------------------------------------------------
(* The messages leave the calls and the wallets alone. *)
LEMMA MessageKeeps ==
  ASSUME AccountInv, NEW m \in Messages,
         RegisterMessage(m) \/ SendMessage(m) \/ FailMessage(m)
           \/ \E sent \in BOOLEAN : ReportMessage(m, sent)
  PROVE  AccountInv'
<1>1. UNCHANGED <<op, accountsMutex, todo, creating, mapped, live, strayed, removed>>
  BY DEF RegisterMessage, SendMessage, FailMessage, ReportMessage, turn, work, wallets, history
<1>0. strayed <=> strayed'
  BY <1>1
<1>2. \/ pc' = pc
      \/ \E place \in {"preparing", "failed", "sent"} : Goto(m, place)
  BY DEF RegisterMessage, SendMessage, FailMessage, ReportMessage
<1>3. m \notin Calls
  BY AccountAssumption DEF AccountAssumption
<1>4. /\ pc' \in [Calls \cup Messages -> CallPlaces \cup {"preparing", "sent"}]
      /\ \A q \in (Calls \cup Messages) \ {m} : pc'[q] = pc[q]
      /\ \A q \in Calls : pc'[q] = pc[q]
  BY <1>2, <1>3 DEF Goto, AccountInv, Types, TurnTypes, CallPlaces, Ended
<1>5. /\ requests' \subseteq Messages /\ watching' \subseteq Messages
      /\ answer' \in [Messages -> {"none", "result", "error"}]
      /\ \A n \in Messages \ {m} : answer'[n] = answer[n]
      /\ \A n \in Messages \ {m} : n \in requests => n \in requests'
      /\ \A n \in Messages \ {m} : n \in watching => n \in watching'
  <2>1. /\ requests \subseteq Messages /\ watching \subseteq Messages
        /\ answer \in [Messages -> {"none", "result", "error"}]
    BY DEF AccountInv, Types
  <2>2. CASE RegisterMessage(m)
    BY <2>1, <2>2 DEF RegisterMessage
  <2>3. CASE SendMessage(m)
    BY <2>1, <2>3 DEF SendMessage
  <2>4. CASE FailMessage(m)
    BY <2>1, <2>4 DEF FailMessage
  <2>5. CASE \E sent \in BOOLEAN : ReportMessage(m, sent)
    BY <2>1, <2>5 DEF ReportMessage, ResolveMessageRequest
  <2> QED
    BY <2>2, <2>3, <2>4, <2>5
<1>6. Types'
  BY <1>1, <1>4, <1>5 DEF AccountInv, Types, TurnTypes, WalletTypes
<1>7. MutexInv'
  BY <1>1, <1>4, MutexStays DEF AccountInv
<1>8. WorkInv'
  BY <1>1, <1>4 DEF AccountInv, WorkInv
<1>9. NoOrphanWallet'
  <2>1. Stopping' = Stopping
    BY <1>1, <1>4, StoppingStays
  <2> QED
    BY <1>1, <2>1 DEF AccountInv, NoOrphanWallet
<1>10. WatchInv'
  <2>1. pc'[m] = "preparing" /\ answer'[m] = "none" => m \in requests'
    BY <1>4 DEF RegisterMessage, SendMessage, FailMessage, ReportMessage, ResolveMessageRequest,
                Goto, AccountInv, WatchInv, Types, TurnTypes
  <2>2. pc'[m] = "sent" /\ answer'[m] = "none"
          => \/ m \in requests' /\ m \in watching'
             \/ To[m] \in removed \/ strayed
    <3>1. CASE RegisterMessage(m)
      BY <3>1 DEF RegisterMessage, Goto, AccountInv, Types, TurnTypes
    <3>2. CASE SendMessage(m)
      BY <3>2 DEF SendMessage, AccountInv, WatchInv
    <3>3. CASE FailMessage(m)
      BY <3>3 DEF FailMessage, Goto, AccountInv, Types, TurnTypes
    <3>4. CASE \E sent \in BOOLEAN : ReportMessage(m, sent)
      BY <3>4 DEF ReportMessage, ResolveMessageRequest, AccountInv, WatchInv, WaitingIsWatched, Types
    <3> QED
      BY <3>1, <3>2, <3>3, <3>4
  <2>3. WaitingIsWatched'
    <3> SUFFICES ASSUME NEW n \in Messages, pc'[n] = "sent", answer'[n] = "none"
                 PROVE  \/ n \in requests' /\ (n \in watching' \/ \E q \in Calls : pc'[q] = "stopping")
                        \/ To[n] \in removed' \/ strayed'
      BY DEF WaitingIsWatched
    <3>1. CASE n = m
      BY <1>0, <1>1, <2>2, <3>1
    <3>2. CASE n # m
      <4>1. \/ n \in requests /\ (n \in watching \/ \E q \in Calls : pc[q] = "stopping")
            \/ To[n] \in removed \/ strayed
        BY <1>4, <1>5, <3>2 DEF AccountInv, WatchInv, WaitingIsWatched
      <4> QED
        BY <1>0, <1>1, <1>4, <1>5, <3>2, <4>1
    <3> QED
      BY <3>1, <3>2
  <2>4. \A n \in Messages : pc'[n] = "preparing" /\ answer'[n] = "none" => n \in requests'
    BY <1>4, <1>5, <2>1 DEF AccountInv, WatchInv
  <2>5. \A q \in Calls : pc'[q] \in {"removing", "dropping"} => op'[q].account \in removed'
    BY <1>1, <1>4 DEF AccountInv, WatchInv
  <2> QED
    BY <2>3, <2>4, <2>5 DEF WatchInv
<1> QED
  BY <1>6, <1>7, <1>8, <1>9, <1>10 DEF AccountInv

----------------------------------------------------------------------------
(* Every step keeps the invariant. *)
LEMMA AccountNextInv == AccountInv /\ [AccountNext]_accountVars => AccountInv'
<1> SUFFICES ASSUME AccountInv, [AccountNext]_accountVars PROVE AccountInv'
  OBVIOUS
<1>1. CASE UNCHANGED accountVars
  <2>1. UNCHANGED <<op, accountsMutex, pc, todo, creating, mapped, live, requests, watching, answer,
                    strayed, removed>>
    BY <1>1 DEF accountVars, turn, work, wallets, sending, history
  <2>2. Types' /\ MutexInv' /\ WorkInv'
    BY <2>1 DEF AccountInv, Types, TurnTypes, WalletTypes, MutexInv, OnceIn, In, First, WorkInv
  <2>3. NoOrphanWallet' /\ WatchInv'
    BY <2>1, WatchStays DEF AccountInv, NoOrphanWallet, Stopping
  <2> QED
    BY <2>2, <2>3 DEF AccountInv
<1>2. ASSUME NEW p \in Calls, CallBegins(p) PROVE AccountInv'
  BY <1>2, QuietStepKeeps DEF CallBegins, QuietStep
<1>3. ASSUME NEW p \in Calls, CallStep(p) PROVE AccountInv'
  <2>1. CASE \E w \in Wallet : BeginWallet(p, w) \/ WalletCreated(p, w) \/ WalletFails(p, w)
    BY <2>1, BeginWalletKeeps, WalletCreatedKeeps, WalletFailsKeeps
  <2>2. CASE \E w \in Wallet : StopWallet(p, w)
    BY <2>2, StopWalletKeeps
  <2>3. CASE \/ StartSubscriptions(p) \/ WalletsCreated(p) \/ BeginStop(p) \/ ClearWallets(p)
             \/ UpdateTokenWallets(p) \/ RemoveWallets(p)
    BY <2>3, StartKeeps, CreatedKeeps, BeginStopKeeps, ClearKeeps, UpdateKeeps, RemoveWalletsKeeps
  <2>4. CASE QuietStep(p)
    BY <2>4, QuietStepKeeps
  <2> QED
    BY <1>3, <2>1, <2>2, <2>3, <2>4 DEF CallStep, QuietStep
<1>4. ASSUME NEW m \in Messages, RegisterMessage(m) \/ MessageStep(m) PROVE AccountInv'
  BY <1>4, MessageKeeps DEF MessageStep
<1> QED
  BY <1>1, <1>2, <1>3, <1>4 DEF AccountNext

(* The accounts mutex is at every moment the queue, without repetition, of  *)
(* exactly the calls that wait for it or hold it, its holder first: no two   *)
(* calls create, stop or remove wallets at a time (_accountsMutex).          *)
THEOREM AccountsMutex == AccountSpec => []MutexInv
<1>1. AccountInv => MutexInv
  BY DEF AccountInv
<1> QED
  BY <1>1, AccountInitInv, AccountNextInv, PTL DEF AccountSpec

(* No running wallet is out of reach, and none in the map is stopped, but   *)
(* after a startSubscriptions() that failed half-way.                        *)
THEOREM WalletsInReach == AccountSpec => []NoOrphanWallet
<1>1. AccountInv => NoOrphanWallet
  BY DEF AccountInv
<1> QED
  BY <1>1, AccountInitInv, AccountNextInv, PTL DEF AccountSpec

(* A message that was sent and whose sender waits is watched by a wallet,   *)
(* or its sender is about to be rejected by stopSubscriptions(); but for an  *)
(* account that removeAccount() removed.                                     *)
THEOREM SendersAreWatched == AccountSpec => []WaitingIsWatched
<1>1. AccountInv => WaitingIsWatched
  BY DEF AccountInv, WatchInv
<1> QED
  BY <1>1, AccountInitInv, AccountNextInv, PTL DEF AccountSpec
=============================================================================
