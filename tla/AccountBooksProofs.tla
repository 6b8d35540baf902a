------------------------- MODULE AccountBooksProofs -------------------------
(***************************************************************************)
(* For any accounts, tokens, networks, calls and messages: when no call is *)
(* under way the accounts shown are those of the storage, and the token    *)
(* wallets those that their accounts list in the selected network.         *)
(*                                                                         *)
(* Between its halves a call has changed one of the two books and not yet  *)
(* the other.  While one call only is there, what it will show is known;   *)
(* and a token wallet that its account does not list is one that some call *)
(* is about to take away.                                                  *)
(***************************************************************************)
EXTENDS AccountControllerProofs

(* A call of updateTokenWallets() has failed. *)
FailedTokens == \E p \in Calls : pc[p] = "failed" /\ op[p].name = "tokens"

(* The types of the books, and of what the calls have read of them. *)
BookTypes ==
    /\ stored \in Book /\ entries \in Book /\ group \in Groups
    /\ local \in [Calls -> [group : Groups \cup {None}, book : Book, choice : Accounts \cup {None}]]

(* updateTokenWallets() is at its own places only and creates nothing but   *)
(* token wallets of its account; importStorage() is alone at its own.        *)
TokenPlaces == {"idle", "toUpdate", "creating", "listing", "done", "failed"}

AtItsPlace(p) ==
    /\ pc[p] \in {"toUpdate", "listing"} => op[p].name = "tokens"
    /\ pc[p] \in {"imported", "syncing", "started"} => op[p].name = "import"
    /\ op[p].name = "tokens" =>
          /\ pc[p] \in TokenPlaces
          /\ pc[p] \notin {"creating", "failed"} => todo[p] = {} /\ creating[p] = {}
          /\ \A w \in todo[p] \cup creating[p] : w.account = op[p].account /\ w.root # None

CallInv == \A p \in Calls : AtItsPlace(p)

(* The tokens of an account are being changed in the storage. *)
Updated(a) ==
    \E p \in Calls : /\ op[p].name = "tokens" /\ op[p].account = a
                     /\ pc[p] \in {"creating", "listing"}

(* What will be shown when the call between its halves is through. *)
WillShow(p) ==
    CASE pc[p] \in {"adding", "addedMany"}    -> [entries EXCEPT ![op[p].account] = NoTokens]
      [] pc[p] \in {"showing", "syncing"}     -> local[p].book
      [] pc[p] = "imported"                   -> stored
      [] pc[p] \in {"removing", "dropping"}   -> [entries EXCEPT ![op[p].account] = None]
      [] pc[p] = "resetting"                  -> Empty

(* The accounts of the storage, but for tokens that are being changed. *)
Matches(book) ==
    \A a \in Accounts : /\ book[a] = None <=> stored[a] = None
                        /\ Updated(a) \/ book[a] = stored[a]

(* Unless two calls have overlapped one call at most is between its halves. *)
(* What it will show, or what is shown when there is none, is what is stored. *)
BooksAgree ==
    /\ \A p, q \in Calls : pc[p] \in Halfway /\ pc[q] \in Halfway => p = q
    /\ \A p \in Calls : pc[p] \in Halfway => Matches(WillShow(p))
    /\ (\A p \in Calls : pc[p] \notin Halfway) => Matches(entries)
    /\ \A p \in Calls : pc[p] \in {"adding", "showing", "addedMany"} =>
          \A a \in Accounts : entries[a] = None \/ entries[a] = WillShow(p)[a]

(* The invariant of the books. *)
BookInv == BookTypes /\ CallInv /\ (overlapped \/ FailedTokens \/ BooksAgree)

(* The token wallet is in the list of its account, in the selected network. *)
Listed(w) == stored[w.account] # None /\ w.root \in stored[w.account][group]

(* A call will take the wallet away. *)
Doomed(w) ==
    \E p \in Calls : \/ pc[p] = "stopping"
                     \/ pc[p] \in {"imported", "syncing", "started", "toStop"} /\ op[p].name = "import"
                     \/ pc[p] = "removing" /\ op[p].account = w.account

(* Token wallets that are listed, but for the doomed. *)
Kept(ws) == \A w \in ws : w.root # None => Listed(w) \/ Doomed(w)

(* Those in the map and those being created are, the map is empty when the  *)
(* storage is cleared, and who has read the group has read the one selected. *)
WalletsListed ==
    /\ Kept(mapped)
    /\ \A p \in Calls : /\ pc[p] = "creating" /\ op[p].name # "tokens" => Kept(todo[p] \cup creating[p])
                        /\ pc[p] = "clearing" => mapped = {}
                        /\ pc[p] \in UsesGroup => local[p].group = group

(* The invariant of the token wallets. *)
ListedInv == overlapped \/ FailedTokens \/ outdated \/ strayed \/ WalletsListed

(* A call goes to another place and keeps its work. *)
LEMMA CallGoes ==
  ASSUME Types, CallInv, NEW p \in Calls, NEW place \in CallPlaces, Goto(p, place),
         UNCHANGED <<op, todo, creating>>,
         place \in {"toUpdate", "listing"} => op[p].name = "tokens",
         place \in {"imported", "syncing", "started"} => op[p].name = "import",
         op[p].name = "tokens" =>
             /\ place \in TokenPlaces
             /\ pc[p] \in {"creating", "failed"} => todo[p] = {} /\ creating[p] = {}
  PROVE  CallInv'
<1>1. pc'[p] = place /\ \A q \in (Calls \cup Messages) \ {p} : pc'[q] = pc[q]
  BY GotoMoves
<1> SUFFICES ASSUME NEW q \in Calls PROVE AtItsPlace(q)'
  BY DEF CallInv
<1>2. CASE q = p
  BY <1>1, <1>2 DEF CallInv, AtItsPlace, TokenPlaces
<1>3. CASE q # p
  BY <1>1, <1>3 DEF CallInv, AtItsPlace, TokenPlaces
<1> QED
  BY <1>2, <1>3

(* Every quiet step keeps the calls at their places. *)
LEMMA QuietCalls ==
  ASSUME Types, CallInv, NEW p \in Calls, QuietStep(p)
  PROVE  CallInv'
<1>0. AtItsPlace(p)
  BY DEF CallInv
<1> USE CallGoes, <1>0
    DEF turn, work, Begins, Queued, Owning, Halfway, Ended, CallPlaces, AtItsPlace, TokenPlaces
<1>1. CASE QueueStart(p) BY <1>1 DEF QueueStart, Queue
<1>2. CASE SwitchNetwork(p) BY <1>2 DEF SwitchNetwork
<1>3. CASE ReloadAccount(p) BY <1>3 DEF ReloadAccount, Release
<1>4. CASE CopyAccounts(p) BY <1>4 DEF CopyAccounts
<1>5. CASE ShowAccount(p) BY <1>5 DEF ShowAccount
<1>6. CASE ShowAccounts(p) BY <1>6 DEF ShowAccounts
<1>7. CASE SelectChosen(p) BY <1>7 DEF SelectChosen
<1>8. CASE SelectAccount(p) BY <1>8 DEF SelectAccount, Release
<1>9. CASE RemoveAccount(p) BY <1>9 DEF RemoveAccount
<1>10. CASE DropAccount(p) BY <1>10 DEF DropAccount, Release
<1>11. CASE RenameAccount(p) BY <1>11 DEF RenameAccount, Release
<1>12. CASE ClearStorage(p) BY <1>12 DEF ClearStorage
<1>13. CASE ResetState(p) BY <1>13 DEF ResetState, Release
<1>14. CASE ReadStorage(p) BY <1>14 DEF ReadStorage
<1>15. CASE SyncState(p) BY <1>15 DEF SyncState
<1>16. CASE UseWallet(p) BY <1>16 DEF UseWallet
<1>17. CASE ChangeNetwork(p)
  <2>1. CASE op[p].group = group BY <1>17, <2>1 DEF ChangeNetwork
  <2>2. CASE op[p].group # group BY <1>17, <2>2 DEF ChangeNetwork, Queue
  <2> QED BY <2>1, <2>2
<1>18. CASE QueueTokens(p) BY <1>18 DEF QueueTokens, Queue
<1>19. CASE AddAccount(p) BY <1>19 DEF AddAccount
<1>20. CASE EnsureAccountSelected(p) BY <1>20 DEF EnsureAccountSelected
<1>21. CASE QueueCall(p)
  <2>1. PICK place \in {"toSelect", "toRemove", "toRename", "toStop"} :
          pc[p] = "idle" /\ op[p].name # "tokens" /\ Queue(p, place)
    BY <1>21 DEF QueueCall
  <2> QED BY <1>21, <2>1 DEF QueueCall, Queue
<1>22. CASE ImportStorage(p) BY <1>22 DEF ImportStorage
<1>23. CASE TakeWallet(p) BY <1>23 DEF TakeWallet
<1> QED
  BY <1>1, <1>2, <1>3, <1>4, <1>5, <1>6, <1>7, <1>8, <1>9, <1>10, <1>11, <1>12, <1>13, <1>14, <1>15,
     <1>16, <1>17, <1>18, <1>19, <1>20, <1>21, <1>22, <1>23 DEF QuietStep

(* What ListToken() does to the call: it goes on, or it fails. *)
LEMMA CallFails ==
  ASSUME Types, NEW p \in Calls, NEW left, MayFail(p, left)
  PROVE  /\ op' = op
         /\ \A q \in Calls : \/ pc'[q] = pc[q]
                            \/ (q = p /\ pc[p] = "creating" /\ pc'[p] = "failed")
<1>1. "failed" \in CallPlaces
  BY DEF CallPlaces, Ended
<1> QED
  BY <1>1, GotoMoves DEF MayFail, FailCall, Release, turn

(* The steps that create or stop wallets keep the calls at their places. *)
LEMMA WalletCalls ==
  ASSUME AccountInv, CallInv, NEW p \in Calls,
         \/ StartSubscriptions(p) \/ WalletsCreated(p) \/ BeginStop(p) \/ ClearWallets(p)
         \/ UpdateTokenWallets(p) \/ RemoveWallets(p)
         \/ \E w \in Wallet : \/ BeginWallet(p, w) \/ WalletCreated(p, w) \/ WalletFails(p, w)
                             \/ StopWallet(p, w)
  PROVE  CallInv'
<1>0. AtItsPlace(p) /\ Types
  BY DEF CallInv, AccountInv
<1> DEFINE Mine == \/ pc'[p] = pc[p] /\ todo'[p] \cup creating'[p] \subseteq todo[p] \cup creating[p]
                   \/ AtItsPlace(p)'
<1>1. ASSUME op' = op, Mine,
             \A q \in Calls \ {p} : pc'[q] = pc[q] /\ todo'[q] = todo[q] /\ creating'[q] = creating[q]
      PROVE  CallInv'
  <2> SUFFICES ASSUME NEW q \in Calls PROVE AtItsPlace(q)'
    BY DEF CallInv
  <2>1. CASE q = p
    BY <1>0, <1>1, <2>1 DEF AtItsPlace, TokenPlaces
  <2>2. CASE q # p
    BY <1>1, <2>2 DEF CallInv, AtItsPlace, TokenPlaces
  <2> QED
    BY <2>1, <2>2
<1>2. CASE StartSubscriptions(p) \/ WalletsCreated(p) \/ BeginStop(p) \/ ClearWallets(p) \/ RemoveWallets(p)
  <2>1. PICK place \in {"creating", "listing", "done", "stopping", "clearing", "switching", "dropping"} :
          /\ Goto(p, place) /\ op' = op /\ creating' = creating
          /\ place = "listing" => op[p].name = "tokens" /\ todo[p] = {} /\ creating[p] = {}
          /\ op[p].name = "tokens" => place \in {"listing"}
    BY <1>0, <1>2 DEF StartSubscriptions, WalletsCreated, BeginStop, ClearWallets, RemoveWallets, Release, turn,
            work, AtItsPlace, TokenPlaces
  <2>2. \A q \in Calls \ {p} : todo'[q] = todo[q]
    BY <1>0, <1>2 DEF StartSubscriptions, WalletsCreated, BeginStop, ClearWallets, RemoveWallets, Types, work
  <2>3. op[p].name = "tokens" => todo' = todo
    BY <1>0, <1>2 DEF StartSubscriptions, WalletsCreated, BeginStop, ClearWallets, RemoveWallets, work,
            AtItsPlace, TokenPlaces
  <2>4. place \in CallPlaces
    BY DEF CallPlaces, Queued, Owning, Halfway, Ended
  <2>5. pc'[p] = place /\ \A q \in Calls \ {p} : pc'[q] = pc[q]
    BY <1>0, <2>1, <2>4, GotoMoves
  <2>6. AtItsPlace(p)'
    BY <1>0, <2>1, <2>3, <2>5 DEF AtItsPlace, TokenPlaces
  <2> QED
    BY <1>1, <2>1, <2>2, <2>5, <2>6
<1>3. CASE UpdateTokenWallets(p)
  <2> DEFINE on == {TokenWallet(op[p].account, r) : r \in op[p].enable}
  <2>1. /\ pc[p] = "toUpdate" /\ Goto(p, "creating") /\ op' = op /\ creating' = creating
        /\ todo' = [todo EXCEPT ![p] = on]
    BY <1>3 DEF UpdateTokenWallets, turn
  <2>2. op[p].enable \subseteq Roots
    BY <1>0 DEF Types, TurnTypes, Operation
  <2>3. \A w \in on : w.account = op[p].account /\ w.root # None
    BY <2>2, AccountAssumption DEF TokenWallet, AccountAssumption
  <2> HIDE DEF on
  <2>4. todo'[p] = on /\ \A q \in Calls \ {p} : todo'[q] = todo[q]
    BY <1>0, <2>1 DEF Types
  <2>5. "creating" \in CallPlaces
    BY DEF CallPlaces, Owning
  <2>6. pc'[p] = "creating" /\ \A q \in Calls \ {p} : pc'[q] = pc[q]
    BY <1>0, <2>1, <2>5, GotoMoves
  <2>7. AtItsPlace(p)'
    BY <1>0, <2>1, <2>3, <2>4, <2>6 DEF AtItsPlace, TokenPlaces
  <2> QED
    BY <1>1, <2>1, <2>4, <2>6, <2>7
<1>4. ASSUME NEW w \in Wallet,
             BeginWallet(p, w) \/ WalletCreated(p, w) \/ WalletFails(p, w) \/ StopWallet(p, w)
      PROVE  CallInv'
  <2>1. \E left : MayFail(p, left)
    BY <1>4, ListTokenFails DEF BeginWallet, WalletCreated, WalletFails, StopWallet, MayFail, turn, history
  <2>2. /\ op' = op
        /\ \A q \in Calls : \/ pc'[q] = pc[q]
                           \/ (q = p /\ pc[p] = "creating" /\ pc'[p] = "failed")
    BY <1>0, <2>1, CallFails
  <2>3. /\ todo'[p] \cup creating'[p] \subseteq todo[p] \cup creating[p]
        /\ \A q \in Calls \ {p} : todo'[q] = todo[q] /\ creating'[q] = creating[q]
    <3>1. todo \in [Calls -> SUBSET Wallet] /\ creating \in [Calls -> SUBSET Wallet]
      BY <1>0 DEF Types
    <3>2. CASE BeginWallet(p, w)
      BY <3>1, <3>2 DEF BeginWallet
    <3>3. CASE WalletCreated(p, w)
      BY <3>1, <3>3 DEF WalletCreated
    <3>4. CASE WalletFails(p, w)
      BY <3>1, <3>4 DEF WalletFails
    <3>5. CASE StopWallet(p, w)
      BY <3>1, <3>5 DEF StopWallet
    <3> QED
      BY <1>4, <3>2, <3>3, <3>4, <3>5
  <2>4. pc'[p] # pc[p] => AtItsPlace(p)'
    BY <1>0, <2>2, <2>3 DEF AtItsPlace, TokenPlaces
  <2> QED
    BY <1>1, <2>2, <2>3, <2>4
<1> QED
  BY <1>2, <1>3, <1>4

----------------------------------------------------------------------------
(* The records keep their types. *)

(* A list of tokens is replaced in what is stored of an account. *)
LEMMA TokensOfAccount ==
  ASSUME NEW tokens \in [Groups -> SUBSET Roots], NEW g, NEW rs, g \in Groups => rs \in SUBSET Roots
  PROVE  /\ [tokens EXCEPT ![g] = rs] \in [Groups -> SUBSET Roots]
         /\ [tokens EXCEPT ![g] = rs] # None
         /\ g \in Groups => [tokens EXCEPT ![g] = rs][g] = rs
         /\ \A h \in Groups \ {g} : [tokens EXCEPT ![g] = rs][h] = tokens[h]
<1>1. [tokens EXCEPT ![g] = rs] \in [Groups -> SUBSET Roots]
  OBVIOUS
<1>2. [tokens EXCEPT ![g] = rs] # None
  BY <1>1, AccountAssumption DEF AccountAssumption
<1> QED
  BY <1>1, <1>2

(* What is put in a record is a record. *)
LEMMA BookWith ==
  ASSUME NEW book \in Book, NEW a
  PROVE  /\ [book EXCEPT ![a] = NoTokens] \in Book /\ [book EXCEPT ![a] = None] \in Book
         /\ Empty \in Book /\ NoTokens # None
         /\ \A b \in Accounts : /\ [book EXCEPT ![a] = NoTokens][b] = IF b = a THEN NoTokens ELSE book[b]
                              /\ [book EXCEPT ![a] = None][b] = IF b = a THEN None ELSE book[b]
<1>1. NoTokens \in [Groups -> SUBSET Roots]
  BY DEF NoTokens
<1>2. NoTokens # None
  BY <1>1, AccountAssumption DEF AccountAssumption
<1> QED
  BY <1>1, <1>2 DEF Book, Empty

(* The quiet steps keep the types of the records. *)
LEMMA QuietTypes ==
  ASSUME Types, BookTypes, NEW p \in Calls, QuietStep(p)
  PROVE  BookTypes'
<1> DEFINE Local == [group : Groups \cup {None}, book : Book, choice : Accounts \cup {None}]
<1>0. /\ stored \in Book /\ entries \in Book /\ group \in Groups /\ local \in [Calls -> Local]
  BY DEF BookTypes
<1>a. ASSUME local' = local, stored' \in Book, entries' \in Book, group' \in Groups PROVE BookTypes'
  BY <1>0, <1>a DEF BookTypes
<1>b. \A b \in Book : [local EXCEPT ![p].book = b] \in [Calls -> Local]
  BY <1>0
<1>c. [local EXCEPT ![p].group = group] \in [Calls -> Local]
  BY <1>0
<1>d. \A a \in Accounts : [local EXCEPT ![p].choice = a] \in [Calls -> Local]
  BY <1>0
<1>e. ASSUME local' \in [Calls -> Local], UNCHANGED <<stored, entries, group>> PROVE BookTypes'
  BY <1>0, <1>e DEF BookTypes
<1>f. local[p].book \in Book /\ op[p].book \in Book
  BY <1>0 DEF Types, TurnTypes, Operation
<1>g. \A a : stored[a] # None /\ a \in Accounts => [entries EXCEPT ![a] = stored[a]] \in Book
  BY <1>0 DEF Book
<1>h. \A a : a \notin Accounts => [entries EXCEPT ![a] = stored[a]] \in Book
  BY <1>0 DEF Book
<1> HIDE DEF Local
<1> USE <1>0, <1>a DEF work, records, Has
<1>1. CASE QueueStart(p) BY <1>1, <1>c, <1>e DEF QueueStart
<1>2. CASE SwitchNetwork(p) BY <1>2 DEF SwitchNetwork
<1>3. CASE ReloadAccount(p) BY <1>3, <1>g, <1>h DEF ReloadAccount
<1>4. CASE CopyAccounts(p) BY <1>4, <1>b, <1>e, BookWith DEF CopyAccounts
<1>5. CASE ShowAccount(p) BY <1>5, <1>f DEF ShowAccount
<1>6. CASE ShowAccounts(p) BY <1>6, BookWith DEF ShowAccounts
<1>7. CASE SelectChosen(p) BY <1>7 DEF SelectChosen
<1>8. CASE SelectAccount(p) BY <1>8 DEF SelectAccount
<1>9. CASE RemoveAccount(p) BY <1>9, BookWith DEF RemoveAccount
<1>10. CASE DropAccount(p) BY <1>10, BookWith DEF DropAccount
<1>11. CASE RenameAccount(p) BY <1>11, <1>g, <1>h DEF RenameAccount
<1>12. CASE ClearStorage(p) BY <1>12, BookWith DEF ClearStorage
<1>13. CASE ResetState(p) BY <1>13, BookWith DEF ResetState
<1>14. CASE ReadStorage(p) BY <1>14, <1>b, <1>e DEF ReadStorage
<1>15. CASE SyncState(p) BY <1>15, <1>f DEF SyncState
<1>16. CASE UseWallet(p) BY <1>16 DEF UseWallet
<1>17. CASE ChangeNetwork(p) BY <1>17 DEF ChangeNetwork
<1>18. CASE QueueTokens(p) BY <1>18, <1>c, <1>e DEF QueueTokens
<1>19. CASE AddAccount(p)
  <2>1. stored' = stored \/ stored' = [stored EXCEPT ![op[p].account] = NoTokens]
    BY <1>19 DEF AddAccount
  <2>2. [stored EXCEPT ![op[p].account] = NoTokens] \in Book
    BY BookWith
  <2>3. stored' \in Book
    BY <2>1, <2>2
  <2> QED BY <1>19, <2>3 DEF AddAccount
<1>20. CASE EnsureAccountSelected(p) BY <1>20, <1>d, <1>e DEF EnsureAccountSelected
<1>21. CASE QueueCall(p) BY <1>21 DEF QueueCall
<1>22. CASE ImportStorage(p) BY <1>22, <1>f DEF ImportStorage
<1>23. CASE TakeWallet(p) BY <1>23 DEF TakeWallet
<1> QED
  BY <1>1, <1>2, <1>3, <1>4, <1>5, <1>6, <1>7, <1>8, <1>9, <1>10, <1>11, <1>12, <1>13, <1>14, <1>15,
     <1>16, <1>17, <1>18, <1>19, <1>20, <1>21, <1>22, <1>23 DEF QuietStep

(* The token of a wallet that is found or created is listed in the storage, *)
(* or nothing of the storage changes; the call fails for want of the account. *)
LEMMA ListedIs ==
  ASSUME Types, BookTypes, CallInv, NEW p \in Calls, NEW w \in Wallet, w \in todo[p] \cup creating[p],
         ListToken(p, w)
  PROVE  /\ stored' \in Book /\ UNCHANGED <<op, entries, overlapped, outdated>>
         /\ \/ stored' = stored
            \/ /\ op[p].name = "tokens" /\ op[p].account \in Accounts
               /\ stored[op[p].account] # None /\ stored'[op[p].account] # None
               /\ \A b \in Accounts \ {op[p].account} : stored'[b] = stored[b]
         /\ op[p].name = "tokens" /\ stored[w.account] # None =>
               /\ pc' = pc
               /\ local[p].group \in Groups => w.root \in stored'[w.account][local[p].group]
               /\ \A b \in Accounts, g \in Groups : stored[b] # None => stored[b][g] \subseteq stored'[b][g]
         /\ op[p].name = "tokens" /\ stored[w.account] = None /\ pc[p] \in {"creating", "failed"} => FailedTokens'
         /\ op[p].name # "tokens" => stored' = stored /\ pc' = pc
<1> DEFINE a == w.account
           g == local[p].group
           rs == stored[a][g] \cup {w.root}
<1>1. UNCHANGED <<entries, overlapped, outdated>> /\ op' = op
  BY DEF ListToken, FailCall, Release, turn
<1>2. stored \in Book /\ a \in Accounts
  BY DEF BookTypes, Wallet
<1>3. CASE op[p].name # "tokens"
  BY <1>1, <1>2, <1>3 DEF ListToken
<1>4. CASE op[p].name = "tokens" /\ stored[a] = None
  <2>1. stored' = stored /\ FailCall(p, (creating[p] \cup todo[p]) \ {w})
    BY <1>4 DEF ListToken
  <2>2. pc[p] \in {"creating", "failed"} => pc'[p] = "failed"
    BY <2>1, GotoMoves DEF FailCall, Release, CallPlaces, Ended
  <2> QED
    BY <1>1, <1>2, <1>4, <2>1, <2>2 DEF FailedTokens
<1>5. CASE op[p].name = "tokens" /\ stored[a] # None
  <2>1. stored' = [stored EXCEPT ![a][g] = rs] /\ pc' = pc
    BY <1>5 DEF ListToken, turn
  <2>2. w.root \in Roots /\ a = op[p].account
    BY <1>5 DEF CallInv, AtItsPlace, Wallet
  <2>3. g \in Groups => rs \in SUBSET Roots
    BY <1>2, <1>5, <2>2 DEF Book
  <2> HIDE DEF rs, g, a
  <2>4. /\ stored' \in Book /\ stored'[a] # None
        /\ g \in Groups => stored'[a][g] = rs
        /\ \A h \in Groups \ {g} : stored'[a][h] = stored[a][h]
        /\ \A b \in Accounts \ {a} : stored'[b] = stored[b]
    <3>1. stored[a] \in [Groups -> SUBSET Roots]
      BY <1>2, <1>5 DEF Book
    <3>2. stored' = [stored EXCEPT ![a] = [stored[a] EXCEPT ![g] = rs]]
      BY <2>1
    <3>3. stored'[a] = [stored[a] EXCEPT ![g] = rs] /\ \A b \in Accounts \ {a} : stored'[b] = stored[b]
      BY <1>2, <3>2 DEF Book
    <3>4. /\ [stored[a] EXCEPT ![g] = rs] \in [Groups -> SUBSET Roots]
          /\ [stored[a] EXCEPT ![g] = rs] # None
          /\ g \in Groups => [stored[a] EXCEPT ![g] = rs][g] = rs
          /\ \A h \in Groups \ {g} : [stored[a] EXCEPT ![g] = rs][h] = stored[a][h]
      BY <2>3, <3>1, TokensOfAccount
    <3>5. stored' \in Book
      BY <1>2, <3>2, <3>4 DEF Book
    <3> QED
      BY <3>3, <3>4, <3>5
  <2>5. \A b \in Accounts, h \in Groups : stored[b] # None => stored[b][h] \subseteq stored'[b][h]
    BY <2>4 DEF rs
  <2>6. g \in Groups => w.root \in stored'[a][g]
    BY <2>4 DEF rs
  <2> QED
    BY <1>1, <1>2, <1>5, <2>1, <2>2, <2>4, <2>5, <2>6 DEF a, g
<1> QED
  BY <1>3, <1>4, <1>5

(* updateTokenWallets() takes the disabled tokens out of the storage. *)
LEMMA UpdatedIs ==
  ASSUME Types, BookTypes, NEW p \in Calls, UpdateTokenWallets(p), op[p].account \in Accounts
  PROVE  /\ stored' \in Book /\ UNCHANGED <<op, local, entries, group, overlapped, outdated, creating>>
         /\ stored'[op[p].account] = None <=> stored[op[p].account] = None
         /\ \A b \in Accounts \ {op[p].account} : stored'[b] = stored[b]
         /\ \A b \in Accounts, g \in Groups : stored[b] # None =>
               stored[b][g] \ op[p].disable \subseteq stored'[b][g]
<1> DEFINE a == op[p].account
           g == local[p].group
           rs == stored[a][g] \ op[p].disable
<1>1. UNCHANGED <<op, local, entries, group, overlapped, outdated, creating>>
  BY DEF UpdateTokenWallets, turn, history
<1>2. stored \in Book /\ a \in Accounts
  BY DEF BookTypes
<1>3. CASE stored[a] = None
  <2>1. stored' = stored
    BY <1>3 DEF UpdateTokenWallets
  <2> QED
    BY <1>1, <1>2, <2>1
<1>4. CASE stored[a] # None
  <2>1. stored' = [stored EXCEPT ![a][g] = rs]
    BY <1>4 DEF UpdateTokenWallets
  <2>2. g \in Groups => rs \in SUBSET Roots
    BY <1>2, <1>4 DEF Book
  <2> HIDE DEF rs, g, a
  <2>3. /\ stored' \in Book /\ stored'[a] # None
        /\ g \in Groups => stored'[a][g] = rs
        /\ \A h \in Groups \ {g} : stored'[a][h] = stored[a][h]
        /\ \A b \in Accounts \ {a} : stored'[b] = stored[b]
    <3>1. stored[a] \in [Groups -> SUBSET Roots]
      BY <1>2, <1>4 DEF Book
    <3>2. stored' = [stored EXCEPT ![a] = [stored[a] EXCEPT ![g] = rs]]
      BY <2>1
    <3>3. stored'[a] = [stored[a] EXCEPT ![g] = rs] /\ \A b \in Accounts \ {a} : stored'[b] = stored[b]
      BY <1>2, <3>2 DEF Book
    <3>4. /\ [stored[a] EXCEPT ![g] = rs] \in [Groups -> SUBSET Roots]
          /\ [stored[a] EXCEPT ![g] = rs] # None
          /\ g \in Groups => [stored[a] EXCEPT ![g] = rs][g] = rs
          /\ \A h \in Groups \ {g} : [stored[a] EXCEPT ![g] = rs][h] = stored[a][h]
      BY <2>2, <3>1, TokensOfAccount
    <3>5. stored' \in Book
      BY <1>2, <3>2, <3>4 DEF Book
    <3> QED
      BY <3>3, <3>4, <3>5
  <2>4. ASSUME NEW b \in Accounts, NEW h \in Groups, stored[b] # None
        PROVE  stored[b][h] \ op[p].disable \subseteq stored'[b][h]
    BY <2>3, <2>4 DEF rs
  <2> QED
    BY <1>1, <1>4, <2>3, <2>4 DEF a
<1> QED
  BY <1>3, <1>4

(* The steps that create or stop wallets keep the types of the records. *)
LEMMA WalletTypesOfBook ==
  ASSUME AccountInv, BookTypes, CallInv, NEW p \in Calls,
         \/ StartSubscriptions(p) \/ WalletsCreated(p) \/ BeginStop(p) \/ ClearWallets(p)
         \/ UpdateTokenWallets(p) \/ RemoveWallets(p)
         \/ \E w \in Wallet : \/ BeginWallet(p, w) \/ WalletCreated(p, w) \/ WalletFails(p, w)
                             \/ StopWallet(p, w)
  PROVE  BookTypes'
<1>0. Types
  BY DEF AccountInv
<1>1. ASSUME UNCHANGED <<local, entries, group>>, stored' \in Book PROVE BookTypes'
  BY <1>1 DEF BookTypes
<1>2. stored \in Book
  BY DEF BookTypes
<1>3. CASE UpdateTokenWallets(p)
  <2>1. op[p].account \in Accounts
    BY <1>3 DEF UpdateTokenWallets, AccountInv, WorkInv
  <2> QED
    BY <1>0, <1>1, <1>3, <2>1, UpdatedIs
<1>4. ASSUME NEW w \in Wallet, BeginWallet(p, w) \/ WalletCreated(p, w) PROVE BookTypes'
  <2>1. UNCHANGED <<local, group>> /\ w \in todo[p] \cup creating[p]
    BY <1>4 DEF BeginWallet, WalletCreated
  <2>2. ListToken(p, w) \/ UNCHANGED <<stored, entries>>
    BY <1>4 DEF BeginWallet, WalletCreated, records
  <2> QED
    BY <1>0, <1>1, <1>2, <2>1, <2>2, ListedIs
<1>5. CASE \/ StartSubscriptions(p) \/ WalletsCreated(p) \/ BeginStop(p) \/ ClearWallets(p) \/ RemoveWallets(p)
           \/ \E w \in Wallet : WalletFails(p, w) \/ StopWallet(p, w)
  BY <1>1, <1>2, <1>5 DEF StartSubscriptions, WalletsCreated, BeginStop, ClearWallets, RemoveWallets, WalletFails,
          StopWallet, work, records
<1> QED
  BY <1>3, <1>4, <1>5

----------------------------------------------------------------------------
(* What is shown and what is stored. *)

(* A step that leaves the records and the calls between their halves alone. *)
LEMMA AsideBooks ==
  ASSUME BooksAgree, NEW p \in Calls, UNCHANGED <<op, stored, entries>>,
         \A q \in Calls : local'[q].book = local[q].book,
         \A q \in Calls \ {p} : pc'[q] = pc[q],
         pc[p] \notin Halfway, pc'[p] \notin Halfway,
         op[p].name = "tokens" /\ pc[p] \in {"creating", "listing"} => pc'[p] \in {"creating", "listing"}
  PROVE  BooksAgree'
<1>1. \A q \in Calls : (pc'[q] \in Halfway <=> pc[q] \in Halfway) /\ (pc[q] \in Halfway => pc'[q] = pc[q])
  OBVIOUS
<1>2. \A a \in Accounts : Updated(a) => Updated(a)'
  BY DEF Updated
<1>3. \A q \in Calls : pc[q] \in Halfway => WillShow(q)' = WillShow(q)
  BY <1>1 DEF WillShow, Halfway
<1>4. ASSUME NEW book, Matches(book), NEW a \in Accounts
      PROVE  (book[a] = None <=> stored'[a] = None) /\ (Updated(a)' \/ book[a] = stored'[a])
  BY <1>2, <1>4 DEF Matches
<1>5. Matches(entries) => Matches(entries)'
  BY <1>4 DEF Matches
<1>6. \A q \in Calls : pc[q] \in Halfway => Matches(WillShow(q))'
  BY <1>3, <1>4 DEF Matches, BooksAgree
<1>7. {"adding", "showing", "addedMany"} \subseteq Halfway
  BY DEF Halfway
<1>8. ASSUME NEW q \in Calls, pc'[q] \in {"adding", "showing", "addedMany"}, NEW a \in Accounts
      PROVE  entries'[a] = None \/ entries'[a] = WillShow(q)'[a]
  BY <1>1, <1>3, <1>7, <1>8 DEF BooksAgree
<1> QED
  BY <1>1, <1>5, <1>6, <1>8 DEF BooksAgree

(* A step of a call when no other is between its halves. *)
LEMMA AloneBooks ==
  ASSUME NEW p \in Calls, \A q \in Calls \ {p} : pc'[q] \notin Halfway,
         pc'[p] \in Halfway => Matches(WillShow(p))',
         pc'[p] \notin Halfway => Matches(entries)',
         pc'[p] \in {"adding", "showing", "addedMany"} =>
             \A a \in Accounts : entries'[a] = None \/ entries'[a] = WillShow(p)'[a]
  PROVE  BooksAgree'
<1>1. \A q, r \in Calls : pc'[q] \in Halfway /\ pc'[r] \in Halfway => q = r
  OBVIOUS
<1>2. \A q \in Calls : pc'[q] \in Halfway => Matches(WillShow(q))'
  OBVIOUS
<1>3. {"adding", "showing", "addedMany"} \subseteq Halfway
  BY DEF Halfway
<1>4. \A q \in Calls : pc'[q] \in {"adding", "showing", "addedMany"} =>
             \A a \in Accounts : entries'[a] = None \/ entries'[a] = WillShow(q)'[a]
  BY <1>3
<1> QED
  BY <1>1, <1>2, <1>4 DEF BooksAgree

(* The quiet steps that leave the records alone. *)
LEMMA QuietAside ==
  ASSUME Types, BookTypes, CallInv, BooksAgree, NEW p \in Calls,
         \/ QueueStart(p) \/ SwitchNetwork(p) \/ SelectChosen(p) \/ SelectAccount(p) \/ UseWallet(p)
         \/ ChangeNetwork(p) \/ QueueTokens(p) \/ EnsureAccountSelected(p) \/ QueueCall(p)
         \/ TakeWallet(p)
  PROVE  BooksAgree'
<1>1. PICK place \in CallPlaces : Goto(p, place) /\ place \notin Halfway \cup {"creating", "listing"}
  <2> USE DEF Queue, Release, CallPlaces, Queued, Halfway, Ended
  <2>1. CASE QueueStart(p) BY <2>1 DEF QueueStart
  <2>2. CASE SwitchNetwork(p) BY <2>2 DEF SwitchNetwork
  <2>3. CASE SelectChosen(p) BY <2>3 DEF SelectChosen
  <2>4. CASE SelectAccount(p) BY <2>4 DEF SelectAccount
  <2>5. CASE UseWallet(p) BY <2>5 DEF UseWallet
  <2>6. CASE ChangeNetwork(p) BY <2>6 DEF ChangeNetwork
  <2>7. CASE QueueTokens(p) BY <2>7 DEF QueueTokens
  <2>8. CASE EnsureAccountSelected(p) BY <2>8 DEF EnsureAccountSelected
  <2>9. CASE QueueCall(p) BY <2>9 DEF QueueCall
  <2>10. CASE TakeWallet(p) BY <2>10 DEF TakeWallet
  <2> QED BY <2>1, <2>2, <2>3, <2>4, <2>5, <2>6, <2>7, <2>8, <2>9, <2>10
<1>2. pc'[p] = place /\ \A q \in Calls \ {p} : pc'[q] = pc[q]
  BY <1>1, GotoMoves
<1>3. UNCHANGED <<op, stored, entries>>
  BY DEF QueueStart, SwitchNetwork, SelectChosen, SelectAccount, UseWallet, ChangeNetwork, QueueTokens,
         EnsureAccountSelected, QueueCall, TakeWallet, Queue, Release, turn, records
<1>4. pc[p] \notin Halfway \cup {"creating", "listing"}
  BY DEF QueueStart, SwitchNetwork, SelectChosen, SelectAccount, UseWallet, ChangeNetwork, QueueTokens,
         EnsureAccountSelected, QueueCall, TakeWallet, Begins, Halfway
<1>5. \/ local' = local
      \/ local' = [local EXCEPT ![p].group = group]
      \/ \E a \in Accounts : local' = [local EXCEPT ![p].choice = a]
  BY DEF QueueStart, SwitchNetwork, SelectChosen, SelectAccount, UseWallet, ChangeNetwork, QueueTokens,
         EnsureAccountSelected, QueueCall, TakeWallet, work, Has
<1>6. \A q \in Calls : local'[q].book = local[q].book
  BY <1>5 DEF BookTypes
<1> QED
  BY <1>1, <1>2, <1>3, <1>4, <1>6, AsideBooks

(* The quiet steps by which a call between its halves, or that comes there, *)
(* changes what is shown or stored, when no other is.                        *)
LEMMA QuietAlone ==
  ASSUME Types, BookTypes, CallInv, BooksAgree, NEW p \in Calls, ~overlapped',
         \/ ReloadAccount(p) \/ CopyAccounts(p) \/ ShowAccount(p) \/ ShowAccounts(p)
         \/ RemoveAccount(p) \/ DropAccount(p) \/ RenameAccount(p) \/ ClearStorage(p) \/ ResetState(p)
         \/ ReadStorage(p) \/ SyncState(p) \/ AddAccount(p) \/ ImportStorage(p) \/ RemoveWallets(p)
  PROVE  BooksAgree'
<1> DEFINE a == op[p].account
           Agrees(book) == \A b \in Accounts :
               (book[b] = None <=> stored'[b] = None) /\ (Updated(b)' \/ book[b] = stored'[b])
<1>1. stored \in Book /\ entries \in Book /\ local[p].book \in Book /\ AtItsPlace(p)
  BY DEF BookTypes, CallInv
<1>2. op' = op
  BY DEF ReloadAccount, CopyAccounts, ShowAccount, ShowAccounts, RemoveAccount, DropAccount, RenameAccount,
         ClearStorage, ResetState, ReadStorage, SyncState, AddAccount, ImportStorage, RemoveWallets,
         Release, turn
<1>3. PICK place \in CallPlaces \ {"creating", "listing"} : Goto(p, place)
  <2> USE DEF Release, CallPlaces, Queued, Halfway, Ended
  <2>1. CASE ReloadAccount(p) BY <2>1 DEF ReloadAccount
  <2>2. CASE CopyAccounts(p) BY <2>2 DEF CopyAccounts
  <2>3. CASE ShowAccount(p) BY <2>3 DEF ShowAccount
  <2>4. CASE ShowAccounts(p) BY <2>4 DEF ShowAccounts
  <2>5. CASE RemoveAccount(p) BY <2>5 DEF RemoveAccount
  <2>6. CASE DropAccount(p) BY <2>6 DEF DropAccount
  <2>7. CASE RenameAccount(p) BY <2>7 DEF RenameAccount
  <2>8. CASE ClearStorage(p) BY <2>8 DEF ClearStorage
  <2>9. CASE ResetState(p) BY <2>9 DEF ResetState
  <2>10. CASE ReadStorage(p) BY <2>10 DEF ReadStorage
  <2>11. CASE SyncState(p) BY <2>11 DEF SyncState
  <2>12. CASE AddAccount(p) BY <2>12 DEF AddAccount
  <2>13. CASE ImportStorage(p) BY <2>13 DEF ImportStorage
  <2>14. CASE RemoveWallets(p) BY <2>14 DEF RemoveWallets
  <2> QED BY <2>1, <2>2, <2>3, <2>4, <2>5, <2>6, <2>7, <2>8, <2>9, <2>10, <2>11, <2>12, <2>13, <2>14
<1>4. pc'[p] = place /\ \A q \in Calls \ {p} : pc'[q] = pc[q]
  BY <1>3, GotoMoves
<1>5. CASE UNCHANGED <<stored, entries, local>> /\ place \notin Halfway /\ pc[p] \notin Halfway \cup {"creating", "listing"}
  BY <1>2, <1>4, <1>5, AsideBooks
<1>6. ASSUME Touch(p) \/ pc[p] \in Halfway PROVE \A q \in Calls \ {p} : pc[q] \notin Halfway
  BY <1>6 DEF Touch, BooksAgree
<1>7. ASSUME Touch(p) \/ pc[p] \in Halfway
      PROVE  /\ \A q \in Calls \ {p} : pc'[q] \notin Halfway
             /\ pc[p] \in Halfway => Matches(WillShow(p))
             /\ pc[p] \notin Halfway => Matches(entries)
  BY <1>4, <1>6, <1>7 DEF BooksAgree
<1>8. \A b \in Accounts : Updated(b) => Updated(b)' \/ (b = a /\ pc[p] = "listing") \/ pc[p] = "creating"
  BY <1>2, <1>4 DEF Updated
<1>9. Matches(entries)' <=> Agrees(entries')
  BY DEF Matches
<1>10. Matches(WillShow(p))' <=> Agrees(WillShow(p)')
  BY DEF Matches
<1>11. ASSUME NEW b \in Accounts, pc[p] # "creating", pc[p] # "listing"
       PROVE  Updated(b) => Updated(b)'
  BY <1>8, <1>11
<1>12. \A b \in Accounts : Matches(entries) =>
          (entries[b] = None <=> stored[b] = None) /\ (Updated(b) \/ entries[b] = stored[b])
  BY DEF Matches
<1>13. \A b \in Accounts : Matches(WillShow(p)) =>
          (WillShow(p)[b] = None <=> stored[b] = None) /\ (Updated(b) \/ WillShow(p)[b] = stored[b])
  BY DEF Matches
<1> HIDE DEF a
<1>14. CASE ReloadAccount(p)
  <2>1. /\ pc[p] = "listing" /\ Touch(p) /\ stored' = stored /\ Goto(p, "done")
        /\ entries' = IF stored[a] = None THEN entries ELSE [entries EXCEPT ![a] = stored[a]]
    BY <1>14 DEF ReloadAccount, Release, a
  <2>2. pc'[p] = "done"
    BY <2>1, GotoMoves DEF CallPlaces, Ended
  <2>3. Matches(entries)
    BY <1>7, <2>1 DEF Halfway
  <2>4. \A b \in Accounts : entries'[b] = IF b = a /\ stored[a] # None THEN stored[a] ELSE entries[b]
    BY <1>1, <2>1 DEF Book
  <2>5. Agrees(entries')
    BY <1>8, <1>12, <2>1, <2>3, <2>4
  <2> QED
    BY <1>7, <1>9, <2>1, <2>2, <2>5, AloneBooks DEF Halfway
<1>15. CASE CopyAccounts(p)
  <2>1. /\ pc[p] = "adding" /\ UNCHANGED <<stored, entries>> /\ Goto(p, "showing")
        /\ local' = [local EXCEPT ![p].book = [entries EXCEPT ![a] = NoTokens]]
    BY <1>15 DEF CopyAccounts, a
  <2>2. pc'[p] = "showing"
    BY <2>1, GotoMoves DEF CallPlaces, Halfway
  <2>3. WillShow(p)' = WillShow(p)
    BY <1>2, <2>1, <2>2 DEF WillShow, BookTypes, a
  <2>4. Matches(WillShow(p))
    BY <1>7, <2>1 DEF Halfway
  <2>5. Agrees(WillShow(p)')
    BY <1>11, <1>13, <2>1, <2>3, <2>4
  <2>6. \A b \in Accounts : entries'[b] = None \/ entries'[b] = WillShow(p)'[b]
    BY <2>1, <2>3 DEF BooksAgree
  <2> QED
    BY <1>7, <1>10, <2>1, <2>2, <2>5, <2>6, AloneBooks DEF Halfway
<1>16. CASE ShowAccount(p) \/ SyncState(p)
  <2>1. PICK next \in {"toRead", "started"} :
          /\ pc[p] \in {"showing", "syncing"} /\ Touch(p) /\ stored' = stored /\ entries' = local[p].book
          /\ Goto(p, next)
    BY <1>16 DEF ShowAccount, SyncState
  <2>2. pc'[p] = next
    BY <2>1, GotoMoves DEF CallPlaces
  <2>3. entries' = WillShow(p)
    BY <2>1 DEF WillShow
  <2>4. Matches(WillShow(p))
    BY <1>7, <2>1 DEF Halfway
  <2>5. Agrees(entries')
    BY <1>11, <1>13, <2>1, <2>3, <2>4
  <2> QED
    BY <1>7, <1>9, <2>1, <2>2, <2>5, AloneBooks DEF Halfway
<1>17. CASE ShowAccounts(p) \/ DropAccount(p) \/ ResetState(p)
  <2>1. PICK next \in {"toRead", "done"} :
          pc[p] \in {"addedMany", "dropping", "resetting"} /\ Touch(p) /\ stored' = stored /\ Goto(p, next)
    BY <1>17 DEF ShowAccounts, DropAccount, ResetState, Release
  <2>2. pc'[p] = next
    BY <2>1, GotoMoves DEF CallPlaces, Ended
  <2>3. entries' = WillShow(p)
    BY <1>17 DEF ShowAccounts, DropAccount, ResetState, WillShow
  <2>4. Matches(WillShow(p))
    BY <1>7, <2>1 DEF Halfway
  <2>5. Agrees(entries')
    BY <1>11, <1>13, <2>1, <2>3, <2>4
  <2> QED
    BY <1>7, <1>9, <2>1, <2>2, <2>5, AloneBooks DEF Halfway
<1>18. CASE RemoveAccount(p)
  <2>1. /\ pc[p] = "toRemove" /\ Touch(p) /\ entries' = entries /\ Goto(p, "removing")
        /\ stored' = [stored EXCEPT ![a] = None]
    BY <1>18 DEF RemoveAccount, a
  <2>2. pc'[p] = "removing"
    BY <2>1, GotoMoves DEF CallPlaces, Owning
  <2>3. Matches(entries)
    BY <1>7, <2>1 DEF Halfway
  <2>4. WillShow(p)' = [entries EXCEPT ![a] = None]
    BY <1>2, <2>1, <2>2 DEF WillShow, a
  <2>5. \A b \in Accounts : /\ WillShow(p)'[b] = IF b = a THEN None ELSE entries[b]
                            /\ stored'[b] = IF b = a THEN None ELSE stored[b]
    BY <1>1, <2>1, <2>4 DEF Book
  <2>6. Agrees(WillShow(p)')
    BY <1>11, <1>12, <2>1, <2>3, <2>5
  <2> QED
    BY <1>7, <1>10, <2>1, <2>2, <2>6, AloneBooks DEF Halfway
<1>19. CASE RenameAccount(p) /\ stored[a] # None
  <2>1. /\ pc[p] = "toRename" /\ Touch(p) /\ stored' = stored /\ Goto(p, "done")
        /\ entries' = [entries EXCEPT ![a] = stored[a]]
    BY <1>19 DEF RenameAccount, Release, a
  <2>2. pc'[p] = "done"
    BY <2>1, GotoMoves DEF CallPlaces, Ended
  <2>3. Matches(entries)
    BY <1>7, <2>1 DEF Halfway
  <2>4. \A b \in Accounts : entries'[b] = IF b = a THEN stored[a] ELSE entries[b]
    BY <1>1, <2>1 DEF Book
  <2>5. Agrees(entries')
    BY <1>11, <1>12, <2>1, <2>3, <2>4
  <2> QED
    BY <1>7, <1>9, <2>1, <2>2, <2>5, AloneBooks DEF Halfway
<1>20. CASE ClearStorage(p)
  <2>1. pc[p] = "clearing" /\ Touch(p) /\ stored' = Empty /\ entries' = entries /\ Goto(p, "resetting")
    BY <1>20 DEF ClearStorage
  <2>2. pc'[p] = "resetting"
    BY <2>1, GotoMoves DEF CallPlaces, Owning
  <2>3. WillShow(p)' = Empty
    BY <2>2 DEF WillShow
  <2>4. Agrees(WillShow(p)')
    BY <2>1, <2>3
  <2> QED
    BY <1>7, <1>10, <2>1, <2>2, <2>4, AloneBooks DEF Halfway
<1>21. CASE ImportStorage(p)
  <2>1. Touch(p) /\ Goto(p, "imported")
    BY <1>21 DEF ImportStorage
  <2>2. pc'[p] = "imported"
    BY <2>1, GotoMoves DEF CallPlaces, Halfway
  <2>3. WillShow(p)' = stored'
    BY <2>2 DEF WillShow
  <2>4. Agrees(WillShow(p)')
    BY <2>3
  <2> QED
    BY <1>7, <1>10, <2>1, <2>2, <2>4, AloneBooks DEF Halfway
<1>22. CASE ReadStorage(p)
  <2>1. /\ pc[p] = "imported" /\ stored' = stored /\ Goto(p, "syncing")
        /\ local' = [local EXCEPT ![p].book = stored]
    BY <1>22 DEF ReadStorage, records
  <2>2. pc'[p] = "syncing"
    BY <2>1, GotoMoves DEF CallPlaces, Halfway
  <2>3. WillShow(p)' = stored'
    BY <2>1, <2>2 DEF WillShow, BookTypes
  <2>4. Agrees(WillShow(p)')
    BY <2>3
  <2> QED
    BY <1>7, <1>10, <2>1, <2>2, <2>4, AloneBooks DEF Halfway
<1>23. CASE RemoveWallets(p)
  <2>1. pc[p] = "removing" /\ UNCHANGED <<stored, entries>> /\ Goto(p, "dropping")
    BY <1>23 DEF RemoveWallets, records
  <2>2. pc'[p] = "dropping"
    BY <2>1, GotoMoves DEF CallPlaces, Owning
  <2>3. WillShow(p)' = WillShow(p)
    BY <1>2, <2>1, <2>2 DEF WillShow
  <2>4. Matches(WillShow(p))
    BY <1>7, <2>1 DEF Halfway
  <2>5. Agrees(WillShow(p)')
    BY <1>11, <1>13, <2>1, <2>3, <2>4
  <2> QED
    BY <1>7, <1>10, <2>1, <2>2, <2>5, AloneBooks DEF Halfway
<1>24. CASE AddAccount(p) /\ stored[a] = None
  <2>1. PICK next \in {"adding", "addedMany"} :
          /\ pc[p] = "idle" /\ Touch(p) /\ entries' = entries /\ Goto(p, next)
          /\ stored' = [stored EXCEPT ![a] = NoTokens]
    BY <1>24 DEF AddAccount, Begins, a
  <2>2. pc'[p] = next
    BY <2>1, GotoMoves DEF CallPlaces, Halfway
  <2>3. Matches(entries)
    BY <1>7, <2>1 DEF Halfway
  <2>4. WillShow(p)' = [entries EXCEPT ![a] = NoTokens]
    BY <1>2, <2>1, <2>2 DEF WillShow, a
  <2>0. NoTokens # None
    BY <1>1, BookWith
  <2>5. \A b \in Accounts : /\ WillShow(p)'[b] = IF b = a THEN NoTokens ELSE entries[b]
                            /\ stored'[b] = IF b = a THEN NoTokens ELSE stored[b]
    BY <1>1, <2>1, <2>4 DEF Book
  <2>6. Agrees(WillShow(p)')
    BY <1>11, <1>12, <2>0, <2>1, <2>3, <2>5
  <2>7. \A b \in Accounts : entries'[b] = None \/ entries'[b] = WillShow(p)'[b]
    BY <1>12, <1>24, <2>0, <2>1, <2>3, <2>5
  <2> QED
    BY <1>7, <1>10, <2>1, <2>2, <2>6, <2>7, AloneBooks DEF Halfway
<1>25. CASE RenameAccount(p) /\ stored[a] = None
  <2>1. pc[p] = "toRename" /\ UNCHANGED <<stored, entries, local>> /\ Goto(p, "failed")
    BY <1>25 DEF RenameAccount, Release, work, a
  <2>2. pc'[p] = "failed"
    BY <2>1, GotoMoves DEF CallPlaces, Ended
  <2> QED
    BY <1>4, <1>5, <2>1, <2>2 DEF Halfway
<1>26. CASE AddAccount(p) /\ stored[a] # None
  <2>1. pc[p] = "idle" /\ UNCHANGED <<stored, entries, local>> /\ Goto(p, "failed")
    BY <1>26 DEF AddAccount, Begins, work, a
  <2>2. pc'[p] = "failed"
    BY <2>1, GotoMoves DEF CallPlaces, Ended
  <2> QED
    BY <1>4, <1>5, <2>1, <2>2 DEF Halfway
<1> QED
  BY <1>14, <1>15, <1>16, <1>17, <1>18, <1>19, <1>20, <1>21, <1>22, <1>23, <1>24, <1>25, <1>26

(* A step that leaves the records and the places of the calls alone. *)
LEMMA SameBooks ==
  ASSUME BooksAgree, UNCHANGED <<op, stored, entries, local>>, \A q \in Calls : pc'[q] = pc[q]
  PROVE  BooksAgree'
<1>1. \A b \in Accounts : Updated(b)' <=> Updated(b)
  BY DEF Updated
<1>2. \A q \in Calls : WillShow(q)' = WillShow(q)
  BY DEF WillShow
<1>3. Matches(entries) => Matches(entries)'
  BY <1>1 DEF Matches
<1>4. \A q \in Calls : Matches(WillShow(q)) => Matches(WillShow(q))'
  BY <1>1, <1>2 DEF Matches
<1> QED
  BY <1>2, <1>3, <1>4 DEF BooksAgree

(* updateTokenWallets() changes the stored tokens of its account. *)
LEMMA TokensBooks ==
  ASSUME BooksAgree, NEW p \in Calls, NEW a \in Accounts, UNCHANGED <<op, entries, local>>,
         \A q \in Calls \ {p} : pc'[q] = pc[q],
         op[p].name = "tokens", op[p].account = a,
         pc[p] \in TokenPlaces, pc'[p] \in {"creating", "listing"},
         \A b \in Accounts \ {a} : stored'[b] = stored[b], stored'[a] = None <=> stored[a] = None
  PROVE  BooksAgree'
<1>1. \A q \in Calls : (pc'[q] \in Halfway <=> pc[q] \in Halfway) /\ (pc[q] \in Halfway => pc'[q] = pc[q])
  BY DEF TokenPlaces, Halfway
<1>2. /\ \A b \in Accounts : Updated(b) => Updated(b)'
      /\ Updated(a)'
  BY DEF Updated
<1>3. \A q \in Calls : pc[q] \in Halfway /\ pc[q] # "imported" => WillShow(q)' = WillShow(q)
  BY <1>1 DEF WillShow, Halfway
<1>4. ASSUME NEW book, Matches(book), NEW b \in Accounts
      PROVE  (book[b] = None <=> stored'[b] = None) /\ (Updated(b)' \/ book[b] = stored'[b])
  BY <1>2, <1>4 DEF Matches
<1>5. Matches(entries) => Matches(entries)'
  BY <1>4 DEF Matches
<1>6. ASSUME NEW q \in Calls, pc[q] \in Halfway PROVE Matches(WillShow(q))'
  <2>1. CASE pc[q] = "imported"
    <3>1. WillShow(q)' = stored'
      BY <1>1, <1>6, <2>1 DEF WillShow
    <3> QED
      BY <3>1 DEF Matches
  <2>2. CASE pc[q] # "imported"
    BY <1>3, <1>4, <1>6, <2>2 DEF Matches, BooksAgree
  <2> QED
    BY <2>1, <2>2
<1>7. {"adding", "showing", "addedMany"} \subseteq Halfway \ {"imported"}
  BY DEF Halfway
<1>8. ASSUME NEW q \in Calls, pc'[q] \in {"adding", "showing", "addedMany"}, NEW b \in Accounts
      PROVE  entries'[b] = None \/ entries'[b] = WillShow(q)'[b]
  BY <1>1, <1>3, <1>7, <1>8 DEF BooksAgree
<1> QED
  BY <1>1, <1>5, <1>6, <1>8 DEF BooksAgree

(* Where ListToken() leaves the call and the storage. *)
LEMMA ListTokenBooks ==
  ASSUME Types, BookTypes, CallInv, BooksAgree, NEW p \in Calls, NEW w \in Wallet,
         w \in todo[p] \cup creating[p], ListToken(p, w), local' = local, ~FailedTokens'
  PROVE  BooksAgree'
<1>0. AtItsPlace(p) /\ w.account \in Accounts
  BY DEF CallInv, Wallet
<1>1. op' = op /\ entries' = entries
  BY ListedIs
<1>2. CASE op[p].name # "tokens"
  <2>1. stored' = stored /\ pc' = pc
    BY <1>2, ListedIs
  <2> QED
    BY <1>1, <2>1, SameBooks
<1>3. CASE op[p].name = "tokens"
  <2>1. pc[p] \in {"creating", "failed"} /\ w.account = op[p].account
    BY <1>0, <1>3 DEF AtItsPlace
  <2>2. stored[w.account] # None
    BY <1>3, <2>1, ListedIs
  <2>3. pc' = pc
    BY <1>3, <2>2, ListedIs
  <2>4. pc[p] = "creating"
    BY <1>1, <1>3, <2>1, <2>3 DEF FailedTokens
  <2>5. /\ \A b \in Accounts \ {w.account} : stored'[b] = stored[b]
        /\ stored'[w.account] # None
    BY <2>1, <2>2, ListedIs
  <2> QED
    BY <1>0, <1>1, <1>3, <2>1, <2>2, <2>3, <2>4, <2>5, TokensBooks DEF TokenPlaces
<1> QED
  BY <1>2, <1>3

(* The steps that create or stop wallets keep the books in agreement. *)
LEMMA WalletBooks ==
  ASSUME AccountInv, BookTypes, CallInv, BooksAgree, NEW p \in Calls, ~FailedTokens',
         \/ StartSubscriptions(p) \/ WalletsCreated(p) \/ BeginStop(p) \/ ClearWallets(p)
         \/ UpdateTokenWallets(p)
         \/ \E w \in Wallet : \/ BeginWallet(p, w) \/ WalletCreated(p, w) \/ WalletFails(p, w)
                              \/ StopWallet(p, w)
  PROVE  BooksAgree'
<1>0. Types /\ AtItsPlace(p)
  BY DEF AccountInv, CallInv
<1>1. CASE StartSubscriptions(p) \/ WalletsCreated(p) \/ BeginStop(p) \/ ClearWallets(p)
  <2>1. UNCHANGED <<op, stored, entries, local>>
    BY <1>1 DEF StartSubscriptions, WalletsCreated, BeginStop, ClearWallets, Release, turn, work, records
  <2>2. PICK place \in CallPlaces \ Halfway :
          Goto(p, place) /\ (op[p].name = "tokens" => place = "listing") /\ pc[p] \notin Halfway
    BY <1>0, <1>1 DEF StartSubscriptions, WalletsCreated, BeginStop, ClearWallets, Release, CallPlaces, Halfway,
            Owning, Ended, AtItsPlace, TokenPlaces
  <2>3. pc'[p] = place /\ \A q \in Calls \ {p} : pc'[q] = pc[q]
    BY <1>0, <2>2, GotoMoves
  <2> QED
    BY <2>1, <2>2, <2>3, AsideBooks
<1>2. CASE UpdateTokenWallets(p)
  <2>1. pc[p] = "toUpdate" /\ Goto(p, "creating") /\ op[p].account \in Accounts /\ op[p].name = "tokens"
    BY <1>0, <1>2 DEF UpdateTokenWallets, AccountInv, WorkInv, AtItsPlace
  <2>2. pc'[p] = "creating" /\ \A q \in Calls \ {p} : pc'[q] = pc[q]
    BY <1>0, <2>1, GotoMoves DEF CallPlaces, Owning
  <2>3. /\ UNCHANGED <<op, local, entries>>
        /\ stored'[op[p].account] = None <=> stored[op[p].account] = None
        /\ \A b \in Accounts \ {op[p].account} : stored'[b] = stored[b]
    BY <1>0, <1>2, <2>1, UpdatedIs
  <2> QED
    BY <2>1, <2>2, <2>3, TokensBooks DEF TokenPlaces
<1>3. ASSUME NEW w \in Wallet, BeginWallet(p, w) \/ WalletCreated(p, w) PROVE BooksAgree'
  <2>1. local' = local /\ w \in todo[p] \cup creating[p]
    BY <1>3 DEF BeginWallet, WalletCreated
  <2>2. ListToken(p, w) \/ UNCHANGED <<op, pc, stored, entries>>
    BY <1>3 DEF BeginWallet, WalletCreated, records, turn
  <2>3. CASE UNCHANGED <<op, pc, stored, entries>>
    BY <2>1, <2>3, SameBooks
  <2> QED
    BY <1>0, <2>1, <2>2, <2>3, ListTokenBooks
<1>4. ASSUME NEW w \in Wallet, WalletFails(p, w) \/ StopWallet(p, w) PROVE BooksAgree'
  <2>1. UNCHANGED <<stored, entries, local>> /\ \E left : MayFail(p, left)
    BY <1>4 DEF WalletFails, StopWallet, records, MayFail, turn, history
  <2>2. /\ op' = op
        /\ \A q \in Calls : \/ pc'[q] = pc[q]
                            \/ (q = p /\ pc[p] = "creating" /\ pc'[p] = "failed")
    BY <1>0, <2>1, CallFails
  <2>3. CASE pc'[p] = pc[p]
    <3>1. \A q \in Calls : pc'[q] = pc[q]
      BY <2>2, <2>3
    <3> QED
      BY <2>1, <2>2, <3>1, SameBooks
  <2>4. CASE pc'[p] # pc[p]
    <3>1. pc[p] = "creating" /\ pc'[p] = "failed" /\ op[p].name # "tokens"
      BY <2>2, <2>4 DEF FailedTokens
    <3> QED
      BY <2>1, <2>2, <3>1, AsideBooks DEF Halfway
  <2> QED
    BY <2>3, <2>4
<1> QED
  BY <1>1, <1>2, <1>3, <1>4

(* What excuses a difference is not forgotten. *)
LEMMA ExcusesLast ==
  ASSUME AccountInv, CallInv, NEW p \in Calls, CallBegins(p) \/ CallStep(p)
  PROVE  /\ overlapped => overlapped'
         /\ FailedTokens => FailedTokens'
         /\ strayed => strayed'
         /\ outdated => outdated'
<1>0. Types
  BY DEF AccountInv
<1>1. CASE QuietStep(p)
  <2>1. (overlapped => overlapped') /\ (strayed => strayed') /\ (outdated => outdated')
    <3> USE DEF Touch, history
    <3>1. CASE QueueStart(p) BY <3>1 DEF QueueStart
    <3>2. CASE SwitchNetwork(p) BY <3>2 DEF SwitchNetwork
    <3>3. CASE ReloadAccount(p) BY <3>3 DEF ReloadAccount
    <3>4. CASE CopyAccounts(p) BY <3>4 DEF CopyAccounts
    <3>5. CASE ShowAccount(p) BY <3>5 DEF ShowAccount
    <3>6. CASE ShowAccounts(p) BY <3>6 DEF ShowAccounts
    <3>7. CASE SelectChosen(p) BY <3>7 DEF SelectChosen
    <3>8. CASE SelectAccount(p) BY <3>8 DEF SelectAccount
    <3>9. CASE RemoveAccount(p) BY <3>9 DEF RemoveAccount
    <3>10. CASE DropAccount(p) BY <3>10 DEF DropAccount
    <3>11. CASE RenameAccount(p) BY <3>11 DEF RenameAccount
    <3>12. CASE ClearStorage(p) BY <3>12 DEF ClearStorage
    <3>13. CASE ResetState(p) BY <3>13 DEF ResetState
    <3>14. CASE ReadStorage(p) BY <3>14 DEF ReadStorage
    <3>15. CASE SyncState(p) BY <3>15 DEF SyncState
    <3>16. CASE UseWallet(p) BY <3>16 DEF UseWallet
    <3>17. CASE ChangeNetwork(p) BY <3>17 DEF ChangeNetwork
    <3>18. CASE QueueTokens(p) BY <3>18 DEF QueueTokens
    <3>19. CASE AddAccount(p) BY <3>19 DEF AddAccount
    <3>20. CASE EnsureAccountSelected(p) BY <3>20 DEF EnsureAccountSelected
    <3>21. CASE QueueCall(p) BY <3>21 DEF QueueCall
    <3>22. CASE ImportStorage(p) BY <3>22 DEF ImportStorage
    <3>23. CASE TakeWallet(p) BY <3>23 DEF TakeWallet
    <3> QED
      BY <1>1, <3>1, <3>2, <3>3, <3>4, <3>5, <3>6, <3>7, <3>8, <3>9, <3>10, <3>11, <3>12,
         <3>13, <3>14, <3>15, <3>16, <3>17, <3>18, <3>19, <3>20, <3>21, <3>22, <3>23 DEF QuietStep
  <2>2. pc[p] # "failed" /\ \A q \in Calls \ {p} : pc'[q] = pc[q]
    BY <1>0, <1>1 DEF QuietStep, QueueStart, SwitchNetwork, ReloadAccount, CopyAccounts, ShowAccount, ShowAccounts,
            SelectChosen, SelectAccount, RemoveAccount, DropAccount, RenameAccount, ClearStorage, ResetState,
            ReadStorage, SyncState, UseWallet, ChangeNetwork, QueueTokens, AddAccount, EnsureAccountSelected,
            QueueCall, ImportStorage, TakeWallet, Begins, Queue, Release, Goto, Types, TurnTypes
  <2>3. op' = op
    BY <1>1 DEF QuietStep, QueueStart, SwitchNetwork, ReloadAccount, CopyAccounts, ShowAccount, ShowAccounts,
            SelectChosen, SelectAccount, RemoveAccount, DropAccount, RenameAccount, ClearStorage, ResetState,
            ReadStorage, SyncState, UseWallet, ChangeNetwork, QueueTokens, AddAccount, EnsureAccountSelected,
            QueueCall, ImportStorage, TakeWallet, Queue, Release, turn
  <2>4. FailedTokens => FailedTokens'
    BY <2>2, <2>3 DEF FailedTokens
  <2> QED
    BY <2>1, <2>4
<1>2. CASE \/ StartSubscriptions(p) \/ WalletsCreated(p) \/ BeginStop(p) \/ ClearWallets(p)
           \/ UpdateTokenWallets(p) \/ RemoveWallets(p)
  <2>1. UNCHANGED <<overlapped, strayed, outdated, op>>
    BY <1>2 DEF StartSubscriptions, WalletsCreated, BeginStop, ClearWallets, UpdateTokenWallets, RemoveWallets,
            Release, turn, history
  <2>2. pc[p] # "failed" /\ \A q \in Calls \ {p} : pc'[q] = pc[q]
    BY <1>0, <1>2 DEF StartSubscriptions, WalletsCreated, BeginStop, ClearWallets, UpdateTokenWallets, RemoveWallets,
            Release, Goto, Types, TurnTypes
  <2>3. FailedTokens => FailedTokens'
    BY <2>1, <2>2 DEF FailedTokens
  <2> QED
    BY <2>1, <2>3
<1>3. ASSUME NEW w \in Wallet, BeginWallet(p, w) \/ WalletCreated(p, w) \/ WalletFails(p, w) \/ StopWallet(p, w)
      PROVE  /\ overlapped => overlapped'
             /\ FailedTokens => FailedTokens'
             /\ strayed => strayed'
             /\ outdated => outdated'
  <2>1. (\E left : MayFail(p, left)) /\ UNCHANGED <<overlapped, outdated>>
    BY <1>3, ListTokenFails DEF BeginWallet, WalletCreated, WalletFails, StopWallet, ListToken, MayFail, turn, history
  <2>2. /\ op' = op
        /\ \A q \in Calls : \/ pc'[q] = pc[q]
                            \/ (q = p /\ pc[p] = "creating" /\ pc'[p] = "failed")
    BY <1>0, <2>1, CallFails
  <2>3. FailedTokens => FailedTokens'
    BY <2>2 DEF FailedTokens
  <2>4. strayed => strayed'
    BY <2>1 DEF MayFail, FailCall
  <2> QED
    BY <2>1, <2>3, <2>4
<1> QED
  BY <1>1, <1>2, <1>3 DEF CallBegins, CallStep, QuietStep

(* The messages change none of this. *)
LEMMA MessageBooks ==
  ASSUME AccountInv, BookInv, NEW m \in Messages, RegisterMessage(m) \/ MessageStep(m)
  PROVE  /\ UNCHANGED <<op, local, todo, creating, stored, entries, group, mapped, overlapped, outdated, strayed>>
         /\ \A q \in Calls : pc'[q] = pc[q]
<1>1. m \notin Calls
  BY AccountAssumption DEF AccountAssumption
<1> QED
  BY <1>1 DEF RegisterMessage, MessageStep, SendMessage, FailMessage, ReportMessage, turn, work, records, wallets,
         history, Goto, AccountInv, Types, TurnTypes

(* The books agree in the beginning. *)
LEMMA BookInit == AccountInit => BookInv
<1> SUFFICES ASSUME AccountInit PROVE BookInv
  OBVIOUS
<1>1. \A p \in Calls : /\ pc[p] = "idle" /\ todo[p] = {} /\ creating[p] = {}
                       /\ local[p] = [group |-> None, book |-> Empty, choice |-> None]
  BY DEF AccountInit
<1>2. stored \in Book /\ entries = stored /\ group \in Groups
  BY AccountAssumption DEF AccountInit, AccountAssumption
<1>3. BookTypes
  BY <1>1, <1>2, BookWith DEF AccountInit, BookTypes
<1>4. CallInv
  BY <1>1 DEF CallInv, AtItsPlace, TokenPlaces
<1>5. BooksAgree
  BY <1>1, <1>2 DEF BooksAgree, Halfway, Matches
<1> QED
  BY <1>3, <1>4, <1>5 DEF BookInv

(* Every step keeps the books in agreement. *)
LEMMA BookNext ==
  ASSUME AccountInv, BookInv, [AccountNext]_accountVars
  PROVE  BookInv'
<1>1. ASSUME UNCHANGED <<op, local, todo, creating, stored, entries, group, overlapped>>,
             \A q \in Calls : pc'[q] = pc[q]
      PROVE  BookInv'
  <2>1. BookTypes'
    BY <1>1 DEF BookInv, BookTypes
  <2>2. CallInv'
    BY <1>1 DEF BookInv, CallInv, AtItsPlace, TokenPlaces
  <2>3. BooksAgree => BooksAgree'
    BY <1>1, SameBooks
  <2>4. FailedTokens => FailedTokens'
    BY <1>1 DEF FailedTokens
  <2> QED
    BY <1>1, <2>1, <2>2, <2>3, <2>4 DEF BookInv
<1>2. CASE UNCHANGED accountVars
  BY <1>1, <1>2 DEF accountVars, turn, work, records, history
<1>3. ASSUME NEW m \in Messages, RegisterMessage(m) \/ MessageStep(m) PROVE BookInv'
  BY <1>1, <1>3, MessageBooks
<1>4. ASSUME NEW p \in Calls, CallBegins(p) \/ CallStep(p) PROVE BookInv'
  <2>1. Types /\ BookTypes /\ CallInv
    BY DEF AccountInv, BookInv
  <2>2. \/ QuietStep(p)
        \/ StartSubscriptions(p) \/ WalletsCreated(p) \/ BeginStop(p) \/ ClearWallets(p)
        \/ UpdateTokenWallets(p) \/ RemoveWallets(p)
        \/ \E w \in Wallet : \/ BeginWallet(p, w) \/ WalletCreated(p, w) \/ WalletFails(p, w)
                             \/ StopWallet(p, w)
    BY <1>4 DEF CallBegins, CallStep, QuietStep
  <2>3. BookTypes' /\ CallInv'
    BY <2>1, <2>2, QuietTypes, QuietCalls, WalletTypesOfBook, WalletCalls
  <2>4. ASSUME ~overlapped', ~FailedTokens' PROVE BooksAgree'
    <3>1. BooksAgree
      BY <1>4, <2>1, <2>4, ExcusesLast DEF BookInv
    <3> QED
      BY <2>1, <2>2, <2>4, <3>1, QuietAside, QuietAlone, WalletBooks DEF QuietStep
  <2> QED
    BY <2>3, <2>4 DEF BookInv
<1> QED
  BY <1>2, <1>3, <1>4 DEF AccountNext

(* With no call under way the accounts shown are those of the storage, but   *)
(* after two calls that changed them have overlapped or a failed             *)
(* updateTokenWallets(), for any accounts and calls.                          *)
THEOREM ShownAgrees == AccountSpec => []ShownIsStored
<1>1. AccountInv /\ BookInv => ShownIsStored
  <2> SUFFICES ASSUME BookInv, AtRest, ~overlapped, ~FailedTokens PROVE entries = stored
    BY DEF ShownIsStored, FailedTokens
  <2>1. \A p \in Calls : pc[p] \notin Halfway \cup {"creating", "listing"}
    BY DEF AtRest, Ended, Halfway
  <2>2. Matches(entries)
    BY <2>1 DEF BookInv, BooksAgree
  <2>3. \A a \in Accounts : entries[a] = stored[a]
    BY <2>1, <2>2 DEF Matches, Updated
  <2> QED
    BY <2>3 DEF BookInv, BookTypes, Book
<1> QED
  BY <1>1, AccountInitInv, AccountNextInv, BookInit, BookNext, PTL DEF AccountSpec

----------------------------------------------------------------------------
(* The token wallets. *)

(* A step of a call by which the wallets that are there, or that others     *)
(* create, remain listed or doomed.                                          *)
LEMMA WalletsStay ==
  ASSUME WalletsListed, NEW p \in Calls, op' = op, group' = group, mapped' \subseteq mapped,
         \A q \in Calls \ {p} : /\ pc'[q] = pc[q] /\ local'[q].group = local[q].group
                                /\ todo'[q] = todo[q] /\ creating'[q] = creating[q],
         \A w \in mapped : w \in mapped' /\ w.root # None /\ (Listed(w) \/ Doomed(w)) => Listed(w)' \/ Doomed(w)',
         \A q \in Calls \ {p} : pc[q] = "creating" =>
             \A w \in todo[q] \cup creating[q] : w.root # None /\ (Listed(w) \/ Doomed(w)) => Listed(w)' \/ Doomed(w)',
         pc'[p] = "creating" /\ op[p].name # "tokens" => Kept(todo[p] \cup creating[p])',
         pc'[p] = "clearing" => mapped' = {},
         pc'[p] \in UsesGroup => local'[p].group = group
  PROVE  WalletsListed'
<1>1. Kept(mapped)'
  BY DEF WalletsListed, Kept
<1>2. ASSUME NEW q \in Calls, pc'[q] = "creating", op'[q].name # "tokens" PROVE Kept(todo[q] \cup creating[q])'
  BY <1>2 DEF WalletsListed, Kept
<1>3. ASSUME NEW q \in Calls, pc'[q] = "clearing" PROVE mapped' = {}
  BY <1>3 DEF WalletsListed
<1>4. ASSUME NEW q \in Calls, pc'[q] \in UsesGroup PROVE local'[q].group = group'
  BY <1>4 DEF WalletsListed
<1> QED
  BY <1>1, <1>2, <1>3, <1>4 DEF WalletsListed

(* The quiet steps that leave storage and network alone. *)
LEMMA QuietWallets ==
  ASSUME Types, BookTypes, CallInv, WalletsListed, NEW p \in Calls,
         \/ QueueStart(p) \/ ReloadAccount(p) \/ CopyAccounts(p) \/ ShowAccount(p) \/ ShowAccounts(p)
         \/ SelectChosen(p) \/ SelectAccount(p) \/ DropAccount(p) \/ RenameAccount(p) \/ ResetState(p)
         \/ ReadStorage(p) \/ SyncState(p) \/ UseWallet(p) \/ ChangeNetwork(p) \/ QueueTokens(p)
         \/ EnsureAccountSelected(p) \/ QueueCall(p) \/ TakeWallet(p)
  PROVE  WalletsListed'
<1> DEFINE Goes == \E place \in CallPlaces \ {"creating", "clearing"} :
                      /\ Goto(p, place)
                      /\ place \in UsesGroup => local' = [local EXCEPT ![p].group = group]
                      /\ pc[p] \in {"imported", "syncing", "started"} => place \in {"syncing", "started", "toStop"}
                      /\ pc[p] \notin {"stopping", "removing", "toStop"}
<1>0. ASSUME pc[p] = "started" PROVE op[p].name = "import" /\ op[p].group # group
  BY <1>0, AccountAssumption DEF CallInv, AtItsPlace, Types, BookTypes, AccountAssumption
<1>1. Goes
  <2> USE DEF Queue, Release, Begins, CallPlaces, UsesGroup, Queued, Halfway, Ended
  <2>1. CASE QueueStart(p) BY <2>1 DEF QueueStart
  <2>2. CASE ReloadAccount(p) BY <2>2 DEF ReloadAccount
  <2>3. CASE CopyAccounts(p) BY <2>3 DEF CopyAccounts
  <2>4. CASE ShowAccount(p) BY <2>4 DEF ShowAccount
  <2>5. CASE ShowAccounts(p) BY <2>5 DEF ShowAccounts
  <2>6. CASE SelectChosen(p) BY <2>6 DEF SelectChosen
  <2>7. CASE SelectAccount(p) BY <2>7 DEF SelectAccount
  <2>8. CASE DropAccount(p) BY <2>8 DEF DropAccount
  <2>9. CASE RenameAccount(p) BY <2>9 DEF RenameAccount
  <2>10. CASE ResetState(p) BY <2>10 DEF ResetState
  <2>11. CASE ReadStorage(p) BY <2>11 DEF ReadStorage
  <2>12. CASE SyncState(p) BY <2>12 DEF SyncState
  <2>13. CASE UseWallet(p) BY <2>13 DEF UseWallet
  <2>14. CASE ChangeNetwork(p) BY <1>0, <2>14 DEF ChangeNetwork
  <2>15. CASE QueueTokens(p) BY <2>15 DEF QueueTokens
  <2>16. CASE EnsureAccountSelected(p) BY <2>16 DEF EnsureAccountSelected
  <2>17. CASE QueueCall(p) BY <2>17 DEF QueueCall
  <2>18. CASE TakeWallet(p) BY <2>18 DEF TakeWallet
  <2> QED
    BY <2>1, <2>2, <2>3, <2>4, <2>5, <2>6, <2>7, <2>8, <2>9, <2>10, <2>11, <2>12, <2>13, <2>14, <2>15,
       <2>16, <2>17, <2>18
<1>2. UNCHANGED <<op, stored, group, mapped, todo, creating>>
  BY DEF QueueStart, ReloadAccount, CopyAccounts, ShowAccount, ShowAccounts, SelectChosen, SelectAccount,
         DropAccount, RenameAccount, ResetState, ReadStorage, SyncState, UseWallet, ChangeNetwork, QueueTokens,
         EnsureAccountSelected, QueueCall, TakeWallet, Queue, Release, turn, work, records, wallets
<1>3. PICK place \in CallPlaces \ {"creating", "clearing"} :
          /\ Goto(p, place)
          /\ place \in UsesGroup => local' = [local EXCEPT ![p].group = group]
          /\ pc[p] \in {"imported", "syncing", "started"} => place \in {"syncing", "started", "toStop"}
          /\ pc[p] \notin {"stopping", "removing", "toStop"}
  BY <1>1
<1>4. pc'[p] = place /\ \A q \in Calls \ {p} : pc'[q] = pc[q]
  BY <1>3, GotoMoves
<1>5. \/ local' = local
      \/ local' = [local EXCEPT ![p].group = group]
      \/ \E b : local' = [local EXCEPT ![p].book = b] \/ local' = [local EXCEPT ![p].choice = b]
  BY DEF QueueStart, ReloadAccount, CopyAccounts, ShowAccount, ShowAccounts, SelectChosen, SelectAccount,
         DropAccount, RenameAccount, ResetState, ReadStorage, SyncState, UseWallet, ChangeNetwork, QueueTokens,
         EnsureAccountSelected, QueueCall, TakeWallet, work
<1>6. /\ \A q \in Calls \ {p} : local'[q].group = local[q].group
      /\ place \in UsesGroup => local'[p].group = group
  BY <1>3, <1>5 DEF BookTypes
<1>7. \A w : (Listed(w) => Listed(w)') /\ (Doomed(w) => Doomed(w)')
  BY <1>2, <1>3, <1>4 DEF Listed, Doomed, CallInv, AtItsPlace
<1> QED
  BY <1>2, <1>3, <1>4, <1>6, <1>7, WalletsStay

(* While a call owns the mutex, no other creates, clears or stops. *)
LEMMA OwnerAlone ==
  ASSUME AccountInv, NEW p \in Calls, pc[p] \in Owning \/ Owns(p)
  PROVE  \A q \in Calls \ {p} : pc[q] \notin Owning
BY OneOwner DEF AccountInv

(* The quiet steps that change the storage or the network. *)
LEMMA StorageWallets ==
  ASSUME AccountInv, BookTypes, CallInv, WalletsListed, ~strayed, ~outdated', NEW p \in Calls,
         \/ AddAccount(p) \/ RemoveAccount(p) \/ ClearStorage(p) \/ ImportStorage(p) \/ SwitchNetwork(p)
  PROVE  WalletsListed'
<1>0. Types /\ AtItsPlace(p) /\ stored \in Book
  BY DEF AccountInv, CallInv, BookTypes
<1>1. UNCHANGED <<op, local, mapped, todo, creating>>
  BY DEF AddAccount, RemoveAccount, ClearStorage, ImportStorage, SwitchNetwork, turn, work, wallets
<1>2. CASE AddAccount(p)
  <2>1. PICK place \in {"failed", "adding", "addedMany"} : pc[p] = "idle" /\ Goto(p, place)
    BY <1>2 DEF AddAccount, Begins
  <2>2. pc'[p] = place /\ \A q \in Calls \ {p} : pc'[q] = pc[q]
    BY <1>0, <2>1, GotoMoves DEF CallPlaces, Halfway, Ended
  <2>3. group' = group
    BY <1>2 DEF AddAccount
  <2>4. \A w \in Wallet : Doomed(w) => Doomed(w)'
    BY <1>1, <2>1, <2>2 DEF Doomed
  <2>5. \A w \in Wallet : Listed(w) => Listed(w)'
    <3>1. stored' = stored \/ (stored[op[p].account] = None /\ stored' = [stored EXCEPT ![op[p].account] = NoTokens])
      BY <1>2 DEF AddAccount
    <3>2. \A b \in Accounts : stored[b] # None => stored'[b] = stored[b]
      BY <1>0, <3>1 DEF Book
    <3> QED
      BY <2>3, <3>2 DEF Listed, Wallet
  <2>6. mapped \subseteq Wallet /\ \A q \in Calls : todo[q] \cup creating[q] \subseteq Wallet
    BY <1>0 DEF Types, WalletTypes
  <2> QED
    BY <1>1, <2>2, <2>3, <2>4, <2>5, <2>6, WalletsStay DEF UsesGroup
<1>3. CASE RemoveAccount(p)
  <2>1. /\ pc[p] = "toRemove" /\ Owns(p) /\ Goto(p, "removing") /\ group' = group
        /\ stored' = [stored EXCEPT ![op[p].account] = None]
    BY <1>3 DEF RemoveAccount
  <2>2. pc'[p] = "removing" /\ \A q \in Calls \ {p} : pc'[q] = pc[q]
    BY <1>0, <2>1, GotoMoves DEF CallPlaces, Owning
  <2>3. \A q \in Calls \ {p} : pc[q] # "creating"
    BY <2>1, OwnerAlone DEF Owning
  <2>4. \A w \in Wallet : Doomed(w) => Doomed(w)'
    BY <1>1, <2>1, <2>2 DEF Doomed
  <2>5. \A w \in Wallet : Listed(w) => Listed(w)' \/ Doomed(w)'
    <3>1. \A b \in Accounts : b # op[p].account => stored'[b] = stored[b]
      BY <1>0, <2>1 DEF Book
    <3>2. \A w \in Wallet : w.account = op[p].account => Doomed(w)'
      BY <1>1, <2>2 DEF Doomed
    <3> QED
      BY <2>1, <3>1, <3>2 DEF Listed, Wallet
  <2>6. mapped \subseteq Wallet
    BY <1>0 DEF Types, WalletTypes
  <2> QED
    BY <1>1, <2>1, <2>2, <2>3, <2>4, <2>5, <2>6, WalletsStay DEF UsesGroup
<1>4. CASE ClearStorage(p)
  <2>1. pc[p] = "clearing" /\ Goto(p, "resetting") /\ group' = group
    BY <1>4 DEF ClearStorage
  <2>2. pc'[p] = "resetting" /\ \A q \in Calls \ {p} : pc'[q] = pc[q]
    BY <1>0, <2>1, GotoMoves DEF CallPlaces, Owning
  <2>3. \A q \in Calls \ {p} : pc[q] # "creating"
    BY <2>1, OwnerAlone DEF Owning
  <2>4. mapped = {}
    BY <2>1 DEF WalletsListed
  <2> QED
    BY <1>1, <2>1, <2>2, <2>3, <2>4, WalletsStay DEF UsesGroup
<1>5. CASE ImportStorage(p)
  <2>1. op[p].name = "import" /\ Goto(p, "imported") /\ group' = group
    BY <1>5 DEF ImportStorage, Begins
  <2>2. pc'[p] = "imported" /\ \A q \in Calls \ {p} : pc'[q] = pc[q]
    BY <1>0, <2>1, GotoMoves DEF CallPlaces, Halfway
  <2>3. \A w : Doomed(w)'
    BY <1>1, <2>1, <2>2 DEF Doomed
  <2> QED
    BY <1>1, <2>1, <2>2, <2>3, WalletsStay DEF UsesGroup
<1>6. CASE SwitchNetwork(p)
  <2>1. /\ pc[p] = "switching" /\ NoneLive /\ Goto(p, "toRead") /\ stored' = stored
        /\ group' # group => \A q \in Calls : pc[q] \notin UsesGroup
    BY <1>6 DEF SwitchNetwork, records
  <2>2. pc'[p] = "toRead" /\ \A q \in Calls \ {p} : pc'[q] = pc[q]
    BY <1>0, <2>1, GotoMoves DEF CallPlaces
  <2>3. \A w \in Wallet : Doomed(w) => Doomed(w)'
    BY <1>1, <2>1, <2>2 DEF Doomed
  <2>4. CASE group' = group
    <3>1. \A w \in Wallet : Listed(w) => Listed(w)'
      BY <2>1, <2>4 DEF Listed
    <3>2. mapped \subseteq Wallet /\ \A q \in Calls : todo[q] \cup creating[q] \subseteq Wallet
      BY <1>0 DEF Types, WalletTypes
    <3> QED
      BY <1>1, <2>2, <2>3, <2>4, <3>1, <3>2, WalletsStay DEF UsesGroup
  <2>5. CASE group' # group
    <3>1. \A w \in mapped : Doomed(w)'
      <4> SUFFICES ASSUME NEW w \in mapped PROVE Doomed(w)'
        OBVIOUS
      <4>1. w \in Wallet /\ live[w] = 0
        BY <1>0, <2>1 DEF NoneLive, Types, WalletTypes
      <4>2. w \in Stopping
        BY <4>1 DEF AccountInv, NoOrphanWallet
      <4>3. \E q \in Calls : pc[q] = "stopping"
        BY <4>2 DEF Stopping
      <4>4. Doomed(w)
        BY <4>3 DEF Doomed
      <4> QED
        BY <2>3, <4>1, <4>4
    <3>2. \A q \in Calls : pc'[q] \notin UsesGroup
      BY <2>1, <2>2, <2>5 DEF UsesGroup
    <3>3. Kept(mapped)'
      BY <1>1, <3>1 DEF Kept
    <3>4. \A q \in Calls : pc'[q] = "clearing" => mapped' = {}
      BY <1>1, <2>2 DEF WalletsListed
    <3>5. "creating" \in UsesGroup
      BY DEF UsesGroup
    <3> QED
      BY <3>2, <3>3, <3>4, <3>5 DEF WalletsListed
  <2> QED
    BY <2>4, <2>5
<1> QED
  BY <1>2, <1>3, <1>4, <1>5, <1>6

(* The tokens shown of an account are stored, or a call will take them away, *)
(* while the owner of the mutex reads them.                                   *)
LEMMA ShownTokens ==
  ASSUME AccountInv, BookTypes, CallInv, BooksAgree, NEW p \in Calls, pc[p] = "toStart", Owns(p),
         NEW w \in WalletsFor(entries, group), w.root # None
  PROVE  Listed(w) \/ Doomed(w)
<1>1. w \in Wallet /\ entries[w.account] # None /\ w.root \in entries[w.account][group] /\ w.account \in Accounts
  BY DEF WalletsFor, Wallet
<1>2. \A q \in Calls : pc[q] \notin {"creating", "listing", "removing", "dropping", "resetting"}
  BY OwnerAlone DEF Owning
<1>3. ~Updated(w.account)
  BY <1>2 DEF Updated
<1>4. CASE \A q \in Calls : pc[q] \notin Halfway
  <2>1. Matches(entries)
    BY <1>4 DEF BooksAgree
  <2>2. entries[w.account] = stored[w.account]
    BY <1>1, <1>3, <2>1 DEF Matches
  <2> QED
    BY <1>1, <2>2 DEF Listed
<1>5. ASSUME NEW q \in Calls, pc[q] \in Halfway PROVE Listed(w) \/ Doomed(w)
  <2>1. CASE pc[q] \in {"imported", "syncing"}
    BY <2>1 DEF Doomed, CallInv, AtItsPlace
  <2>2. CASE pc[q] \in {"adding", "showing", "addedMany"}
    <3>1. Matches(WillShow(q))
      BY <1>5 DEF BooksAgree
    <3>2. WillShow(q)[w.account] = stored[w.account]
      BY <1>1, <1>3, <3>1 DEF Matches
    <3>3. entries[w.account] = WillShow(q)[w.account]
      BY <1>1, <2>2 DEF BooksAgree
    <3> QED
      BY <1>1, <3>2, <3>3 DEF Listed
  <2> QED
    BY <1>2, <1>5, <2>1, <2>2 DEF Halfway
<1> QED
  BY <1>4, <1>5

(* The wallets of the accounts shown are begun, or all have been created. *)
LEMMA StartWallets ==
  ASSUME AccountInv, BookTypes, CallInv, BooksAgree, WalletsListed, ~strayed, NEW p \in Calls,
         StartSubscriptions(p) \/ WalletsCreated(p)
  PROVE  WalletsListed'
<1>0. Types
  BY DEF AccountInv
<1>1. UNCHANGED <<op, local, creating, stored, group, mapped>>
  BY DEF StartSubscriptions, WalletsCreated, Release, turn, work, records, wallets
<1>2. PICK place \in {"creating", "listing", "done"} :
        /\ Goto(p, place)
        /\ place = "creating" => pc[p] = "toStart" /\ Owns(p)
        /\ place # "creating" => pc[p] = "creating"
  BY DEF StartSubscriptions, WalletsCreated, Release
<1>3. pc'[p] = place /\ \A q \in Calls \ {p} : pc'[q] = pc[q]
  BY <1>0, <1>2, GotoMoves DEF CallPlaces, Owning, Ended
<1>4. \A w : (Listed(w) => Listed(w)') /\ (Doomed(w) => Doomed(w)')
  BY <1>1, <1>2, <1>3 DEF Listed, Doomed
<1>5. \A q \in Calls \ {p} : todo'[q] = todo[q]
  BY <1>0 DEF StartSubscriptions, WalletsCreated, work, Types
<1>6. pc[p] \in UsesGroup /\ local[p].group = group
  BY <1>2 DEF UsesGroup, WalletsListed
<1>7. ASSUME place = "creating", op[p].name # "tokens" PROVE Kept(todo[p] \cup creating[p])'
  <2>1. creating[p] = {}
    BY <1>2, <1>7 DEF AccountInv, WorkInv
  <2>2. todo'[p] = WalletsFor(entries, group)
    BY <1>0, <1>2, <1>6, <1>7 DEF StartSubscriptions, WalletsCreated, Types
  <2>3. \A w \in WalletsFor(entries, group) : w.root # None => Listed(w) \/ Doomed(w)
    BY <1>2, <1>7, ShownTokens
  <2> QED
    BY <1>1, <1>4, <2>1, <2>2, <2>3 DEF Kept
<1> QED
  BY <1>1, <1>3, <1>4, <1>5, <1>6, <1>7, WalletsStay

(* All wallets are stopped, or those of an account or of its disabled tokens. *)
LEMMA StopsWallets ==
  ASSUME AccountInv, BookTypes, CallInv, WalletsListed, NEW p \in Calls,
         \/ BeginStop(p) \/ ClearWallets(p) \/ RemoveWallets(p) \/ UpdateTokenWallets(p)
         \/ \E w \in Wallet : StopWallet(p, w)
  PROVE  WalletsListed'
<1>0. Types /\ AtItsPlace(p) /\ mapped \subseteq Wallet
  BY DEF AccountInv, Types, WalletTypes, CallInv
<1>1. UNCHANGED <<op, local, creating, group>>
  BY DEF BeginStop, ClearWallets, RemoveWallets, UpdateTokenWallets, StopWallet, Release, turn, work, records
<1>2. \A q \in Calls \ {p} : todo'[q] = todo[q]
  BY <1>0 DEF BeginStop, ClearWallets, RemoveWallets, UpdateTokenWallets, StopWallet, work, Types
<1>3. pc[p] \in Owning \/ Owns(p)
  BY DEF BeginStop, ClearWallets, RemoveWallets, UpdateTokenWallets, StopWallet, Owning
<1>4. \A q \in Calls \ {p} : pc[q] # "creating"
  BY <1>3, OwnerAlone DEF Owning
<1>5. CASE BeginStop(p) \/ \E w \in Wallet : StopWallet(p, w)
  <2>1. pc'[p] = "stopping" /\ \A q \in Calls \ {p} : pc'[q] = pc[q]
    BY <1>0, <1>5, GotoMoves DEF BeginStop, StopWallet, CallPlaces, Owning
  <2>2. mapped' = mapped
    BY <1>5 DEF BeginStop, StopWallet, wallets
  <2>3. \A w : Doomed(w)'
    BY <2>1 DEF Doomed
  <2> QED
    BY <1>1, <1>2, <1>4, <2>1, <2>2, <2>3, WalletsStay DEF UsesGroup
<1>6. CASE ClearWallets(p)
  <2>1. PICK place \in {"clearing", "switching"} : Goto(p, place) /\ mapped' = {}
    BY <1>6 DEF ClearWallets, Release
  <2>2. pc'[p] = place /\ \A q \in Calls \ {p} : pc'[q] = pc[q]
    BY <1>0, <2>1, GotoMoves DEF CallPlaces, Owning
  <2> QED
    BY <1>1, <1>2, <1>4, <2>1, <2>2, WalletsStay DEF UsesGroup
<1>7. CASE RemoveWallets(p)
  <2>1. /\ pc[p] = "removing" /\ Goto(p, "dropping") /\ stored' = stored
        /\ mapped' = mapped \ WalletsOf(op[p].account)
    BY <1>7 DEF RemoveWallets, records
  <2>2. pc'[p] = "dropping" /\ \A q \in Calls \ {p} : pc'[q] = pc[q]
    BY <1>0, <2>1, GotoMoves DEF CallPlaces, Owning
  <2>3. \A w \in mapped' : w.account # op[p].account
    BY <1>0, <2>1 DEF WalletsOf
  <2>4. \A w \in mapped' : Doomed(w) => Doomed(w)'
    BY <1>1, <2>1, <2>2, <2>3 DEF Doomed
  <2>5. \A w : Listed(w) => Listed(w)'
    BY <1>1, <2>1 DEF Listed
  <2> QED
    BY <1>1, <1>2, <1>4, <2>1, <2>2, <2>4, <2>5, WalletsStay DEF UsesGroup
<1>8. CASE UpdateTokenWallets(p)
  <2>1. /\ pc[p] = "toUpdate" /\ Goto(p, "creating") /\ op[p].account \in Accounts /\ op[p].name = "tokens"
        /\ mapped' = mapped \ DisabledWallets(p)
    BY <1>0, <1>8 DEF UpdateTokenWallets, AccountInv, WorkInv, AtItsPlace
  <2>2. pc'[p] = "creating" /\ \A q \in Calls \ {p} : pc'[q] = pc[q]
    BY <1>0, <2>1, GotoMoves DEF CallPlaces, Owning
  <2>3. \A w \in Wallet : Doomed(w) => Doomed(w)'
    BY <1>1, <2>1, <2>2 DEF Doomed
  <2>4. ASSUME NEW w \in mapped', w.root # None, Listed(w) PROVE Listed(w)'
    <3>1. w \in Wallet /\ w \notin DisabledWallets(p) /\ group \in Groups /\ w.account \in Accounts
      BY <1>0, <2>1 DEF BookTypes, Wallet
    <3>2. w = TokenWallet(w.account, w.root)
      BY <3>1 DEF Wallet, TokenWallet
    <3>3. /\ stored'[op[p].account] = None <=> stored[op[p].account] = None
          /\ \A b \in Accounts \ {op[p].account} : stored'[b] = stored[b]
          /\ stored[w.account] # None => stored[w.account][group] \ op[p].disable \subseteq stored'[w.account][group]
      BY <1>0, <1>8, <2>1, <3>1, UpdatedIs
    <3>4. CASE w.account = op[p].account
      <4>1. w.root \notin op[p].disable
        BY <3>1, <3>2, <3>4 DEF DisabledWallets
      <4> QED
        BY <1>1, <2>4, <3>3, <3>4, <4>1 DEF Listed
    <3>5. CASE w.account # op[p].account
      BY <1>1, <2>4, <3>1, <3>3, <3>5 DEF Listed
    <3> QED
      BY <3>4, <3>5
  <2>5. local[p].group = group
    BY <2>1 DEF WalletsListed, UsesGroup
  <2> QED
    BY <1>0, <1>1, <1>2, <1>4, <2>1, <2>2, <2>3, <2>4, <2>5, WalletsStay
<1> QED
  BY <1>5, <1>6, <1>7, <1>8

(* A wallet is found, created or not. *)
LEMMA CreatesWallets ==
  ASSUME AccountInv, BookTypes, CallInv, WalletsListed, ~strayed', ~strayed, ~FailedTokens',
         NEW p \in Calls, NEW w \in Wallet, BeginWallet(p, w) \/ WalletCreated(p, w) \/ WalletFails(p, w)
  PROVE  WalletsListed'
<1>0. Types /\ AtItsPlace(p) /\ group \in Groups
  BY DEF AccountInv, CallInv, BookTypes
<1>1. w \in todo[p] \cup creating[p] /\ UNCHANGED <<local, group>>
  BY DEF BeginWallet, WalletCreated, WalletFails
<1>2. pc[p] = "creating"
  BY <1>1 DEF AccountInv, WorkInv, BeginWallet, WalletCreated, WalletFails
<1>3. /\ todo'[p] \cup creating'[p] \subseteq todo[p] \cup creating[p]
      /\ \A q \in Calls \ {p} : todo'[q] = todo[q] /\ creating'[q] = creating[q]
  <2>1. todo \in [Calls -> SUBSET Wallet] /\ creating \in [Calls -> SUBSET Wallet]
    BY <1>0 DEF Types
  <2>2. CASE BeginWallet(p, w)
    BY <2>1, <2>2 DEF BeginWallet
  <2>3. CASE WalletCreated(p, w)
    BY <2>1, <2>3 DEF WalletCreated
  <2>4. CASE WalletFails(p, w)
    BY <2>1, <2>4 DEF WalletFails
  <2> QED
    BY <2>2, <2>3, <2>4
<1>4. local[p].group = group
  BY <1>2 DEF WalletsListed, UsesGroup
<1>5. \A q \in Calls \ {p} : pc[q] \notin {"creating", "clearing"}
  BY <1>2, OwnerAlone DEF Owning
<1>6. /\ op' = op
      /\ \A q \in Calls : \/ pc'[q] = pc[q]
                          \/ (q = p /\ pc[p] = "creating" /\ pc'[p] = "failed")
  <2>1. \E left : MayFail(p, left)
    BY ListTokenFails DEF BeginWallet, WalletCreated, WalletFails, MayFail, turn, history
  <2> QED
    BY <1>0, <2>1, CallFails
<1>7. ListToken(p, w) \/ stored' = stored
  BY DEF BeginWallet, WalletCreated, WalletFails, records
<1>8. \A b \in Accounts : /\ stored[b] # None => stored'[b] # None
                          /\ stored[b] # None => stored[b][group] \subseteq stored'[b][group]
  <2>1. CASE stored' = stored
    BY <2>1
  <2>2. CASE ListToken(p, w)
    <3>1. op[p].name # "tokens" => stored' = stored
      BY <1>0, <1>1, <2>2, ListedIs
    <3>2. ASSUME op[p].name = "tokens"
          PROVE  \A b \in Accounts : /\ stored[b] # None => stored'[b] # None
                                     /\ stored[b] # None => stored[b][group] \subseteq stored'[b][group]
      <4>1. stored[w.account] # None
        BY <1>0, <1>1, <1>2, <2>2, <3>2, ListedIs
      <4>2. \A b \in Accounts : stored[b] # None => stored[b][group] \subseteq stored'[b][group]
        BY <1>0, <1>1, <2>2, <3>2, <4>1, ListedIs
      <4>3. \A b \in Accounts : stored[b] # None => stored'[b] # None
        BY <1>0, <1>1, <2>2, ListedIs
      <4> QED
        BY <4>2, <4>3
    <3> QED
      BY <3>1, <3>2
  <2> QED
    BY <1>7, <2>1, <2>2
<1>9. \A v \in Wallet : Listed(v) => Listed(v)'
  BY <1>1, <1>8 DEF Listed, Wallet
<1>10. \A v : Doomed(v) => Doomed(v)'
  BY <1>2, <1>6 DEF Doomed
<1>11. \A q \in Calls : todo[q] \cup creating[q] \subseteq Wallet
  BY <1>0 DEF Types
<1>12. Kept(mapped)'
  <2> SUFFICES ASSUME NEW v \in mapped', v.root # None PROVE Listed(v)' \/ Doomed(v)'
    BY DEF Kept
  <2>1. CASE v \in mapped
    <3>1. v \in Wallet /\ (Listed(v) \/ Doomed(v))
      BY <1>0, <2>1 DEF Types, WalletTypes, WalletsListed, Kept
    <3> QED
      BY <1>9, <1>10, <3>1
  <2>2. CASE v \notin mapped
    <3>1. v = w /\ WalletCreated(p, w) /\ ListToken(p, w)
      BY <2>2 DEF BeginWallet, WalletCreated, WalletFails, wallets
    <3>2. CASE op[p].name # "tokens"
      BY <1>1, <1>2, <1>9, <1>10, <3>1, <3>2 DEF WalletsListed, Kept
    <3>3. CASE op[p].name = "tokens"
      <4>1. stored[w.account] # None
        BY <1>0, <1>1, <1>2, <3>1, <3>3, ListedIs
      <4>2. w.root \in stored'[w.account][local[p].group]
        BY <1>0, <1>1, <1>4, <3>1, <3>3, <4>1, ListedIs
      <4>3. stored'[w.account] # None
        BY <1>8, <4>1 DEF Wallet
      <4> QED
        BY <1>1, <1>4, <3>1, <4>2, <4>3 DEF Listed
    <3> QED
      BY <3>2, <3>3
  <2> QED
    BY <2>1, <2>2
<1>13. ASSUME NEW q \in Calls, pc'[q] = "creating", op[q].name # "tokens" PROVE Kept(todo[q] \cup creating[q])'
  <2>1. q = p
    BY <1>5, <1>6, <1>13
  <2>2. Kept(todo[p] \cup creating[p])
    BY <1>2, <1>13, <2>1 DEF WalletsListed
  <2> QED
    BY <1>3, <1>9, <1>10, <1>11, <2>1, <2>2 DEF Kept
<1>14. ASSUME NEW q \in Calls, pc'[q] = "clearing" PROVE mapped' = {}
  BY <1>2, <1>5, <1>6, <1>14
<1>15. ASSUME NEW q \in Calls, pc'[q] \in UsesGroup PROVE local'[q].group = group'
  BY <1>1, <1>6, <1>15 DEF WalletsListed, UsesGroup
<1> QED
  BY <1>6, <1>12, <1>13, <1>14, <1>15 DEF WalletsListed

(* The token wallets are listed in the beginning. *)
LEMMA ListedInit == AccountInit => ListedInv
<1> SUFFICES ASSUME AccountInit PROVE WalletsListed
  BY DEF ListedInv
<1>1. \A p \in Calls : pc[p] = "idle"
  BY DEF AccountInit
<1>2. mapped \subseteq WalletsFor(stored, group)
  BY DEF AccountInit
<1>3. Kept(mapped)
  BY <1>2 DEF Kept, Listed, WalletsFor
<1> QED
  BY <1>1, <1>3 DEF WalletsListed, UsesGroup

(* Every step keeps them listed or doomed, unless it is excused. *)
LEMMA ListedNext ==
  ASSUME AccountInv, BookInv, ListedInv, [AccountNext]_accountVars
  PROVE  ListedInv'
<1>1. ASSUME UNCHANGED <<op, local, todo, creating, stored, group, mapped, overlapped, outdated, strayed>>,
             \A q \in Calls : pc'[q] = pc[q]
      PROVE  ListedInv'
  <2>1. \A w : (Listed(w)' <=> Listed(w)) /\ (Doomed(w)' <=> Doomed(w))
    BY <1>1 DEF Listed, Doomed
  <2>2. WalletsListed => WalletsListed'
    BY <1>1, <2>1 DEF WalletsListed, Kept
  <2>3. FailedTokens => FailedTokens'
    BY <1>1 DEF FailedTokens
  <2> QED
    BY <1>1, <2>2, <2>3 DEF ListedInv
<1>2. CASE UNCHANGED accountVars
  BY <1>1, <1>2 DEF accountVars, turn, work, records, wallets, history
<1>3. ASSUME NEW m \in Messages, RegisterMessage(m) \/ MessageStep(m) PROVE ListedInv'
  BY <1>1, <1>3, MessageBooks
<1>4. ASSUME NEW p \in Calls, CallBegins(p) \/ CallStep(p) PROVE ListedInv'
  <2> SUFFICES ASSUME ~overlapped', ~FailedTokens', ~outdated', ~strayed' PROVE WalletsListed'
    BY DEF ListedInv
  <2>1. Types /\ BookTypes /\ CallInv
    BY DEF AccountInv, BookInv
  <2>2. BooksAgree /\ WalletsListed /\ ~strayed
    BY <1>4, <2>1, ExcusesLast DEF BookInv, ListedInv
  <2>3. CASE QuietStep(p)
    BY <2>1, <2>2, <2>3, QuietWallets, StorageWallets DEF QuietStep
  <2>4. CASE \/ StartSubscriptions(p) \/ WalletsCreated(p) \/ BeginStop(p) \/ ClearWallets(p)
             \/ UpdateTokenWallets(p) \/ RemoveWallets(p) \/ \E w \in Wallet : StopWallet(p, w)
    BY <2>1, <2>2, <2>4, StartWallets, StopsWallets
  <2>5. CASE \E w \in Wallet : BeginWallet(p, w) \/ WalletCreated(p, w) \/ WalletFails(p, w)
    BY <2>1, <2>2, <2>5, CreatesWallets
  <2> QED
    BY <1>4, <2>3, <2>4, <2>5 DEF CallBegins, CallStep, QuietStep
<1> QED
  BY <1>2, <1>3, <1>4 DEF AccountNext

(* With no call under way every token wallet that runs is one its account   *)
(* lists in the selected network, but for the same exceptions, a change of   *)
(* network under a call that had read the group, and a failed start.          *)
THEOREM TokensOfAccounts == AccountSpec => []TokensAreListed
<1>1. AccountInv /\ ListedInv => TokensAreListed
  <2> SUFFICES ASSUME ListedInv, AtRest, ~overlapped, ~outdated, ~strayed, ~FailedTokens,
                      NEW w \in mapped, w.root # None
               PROVE  Listed(w)
    BY DEF TokensAreListed, FailedTokens, Listed
  <2>1. \A p \in Calls : pc[p] \in {"idle", "done", "failed"}
    BY DEF AtRest, Ended
  <2>2. ~Doomed(w)
    BY <2>1 DEF Doomed
  <2> QED
    BY <2>2 DEF ListedInv, WalletsListed, Kept
<1> QED
  BY <1>1, AccountInitInv, AccountNextInv, BookInit, BookNext, ListedInit, ListedNext, PTL DEF AccountSpec
=====
